--------------------------------- MODULE Trace ---------------------------------
(***************************************************************************)
(* The engine's tracing instrument (engine/src/trace.rs): one process-wide *)
(* flag, one slot for the trace that is running, and a fixed buffer in it. *)
(* A tracer starts its trace, if the slot is free, and drops its guard     *)
(* later; markers stamp events from their own threads all the while.       *)
(*                                                                         *)
(* The lock of the slot is held over the whole of a stamp and of a start,  *)
(* but not over the two stores of a drop.  The flag is read relaxed: once  *)
(* it was ever set, a marker may see either value.                         *)
(***************************************************************************)
EXTENDS Naturals, FiniteSets, SequencesExt

CONSTANTS Markers, Tracers,
          Names,           \* the event names
          Spans,           \* SPANS: pairs of names
          BufferRecords,   \* TRACE_BUFFER_RECORDS
          MaxClock,        \* bound: the last instant
          MaxMarks,        \* bound: the marks of one marker
          Free             \* nobody: the lock, or the slot

VARIABLES enabled,     \* ENABLED
          current,     \* CURRENT: the tracer whose trace is in the slot
          lock,        \* who holds its mutex
          clock,
          trace,       \* [state, origin, events, dropped] of each tracer's trace
          delivered,   \* history: every stamp a trace was given, kept or not
          mark         \* [pc, name, at, into, done] of each marker

vars == <<enabled, current, lock, clock, trace, delivered, mark>>

Unborn == [state |-> "unborn", origin |-> 0, events |-> <<>>, dropped |-> 0]

Init ==
    /\ enabled = FALSE
    /\ current = Free
    /\ lock = Free
    /\ clock = 0
    /\ trace = [t \in Tracers |-> Unborn]
    /\ delivered = [t \in Tracers |-> <<>>]
    /\ mark = [m \in Markers |-> [pc |-> "idle", name |-> CHOOSE n \in Names : TRUE, at |-> 0,
                               into |-> Free, done |-> 0]]

-----------------------------------------------------------------------------
\* start: under the lock, the trace is put in place and the flag is set after it.
Insert(t) ==
    /\ lock = Free
    /\ trace[t].state = "unborn"
    /\ IF current = Free
       THEN /\ lock' = t
            /\ current' = t
            /\ trace' = [trace EXCEPT ![t].state = "inserted", ![t].origin = clock]
       ELSE /\ trace' = [trace EXCEPT ![t].state = "refused"]
            /\ UNCHANGED <<lock, current>>
    /\ UNCHANGED <<enabled, clock, delivered, mark>>

Enable(t) ==
    /\ trace[t].state = "inserted"
    /\ enabled' = TRUE
    /\ lock' = Free
    /\ trace' = [trace EXCEPT ![t].state = "open"]
    /\ UNCHANGED <<current, clock, delivered, mark>>

\* The guard's drop: the flag, then the slot.
Disable(t) ==
    /\ trace[t].state = "open"
    /\ enabled' = FALSE
    /\ trace' = [trace EXCEPT ![t].state = "disabled"]
    /\ UNCHANGED <<current, lock, clock, delivered, mark>>

Clear(t) ==
    /\ trace[t].state = "disabled"
    /\ lock = Free
    /\ current' = Free
    /\ trace' = [trace EXCEPT ![t].state = "closed"]
    /\ UNCHANGED <<enabled, lock, clock, delivered, mark>>

-----------------------------------------------------------------------------
\* mark, for which the flag was seen set; otherwise it does nothing.
WasEnabled == \E t \in Tracers : trace[t].state \in {"open", "disabled", "closed"}

Load(m, name) ==
    /\ mark[m].pc = "idle"
    /\ mark[m].done < MaxMarks
    /\ WasEnabled
    /\ mark' = [mark EXCEPT ![m].pc = "loaded", ![m].name = name, ![m].done = @ + 1]
    /\ UNCHANGED <<enabled, current, lock, clock, trace, delivered>>

\* A bug: the trace is cloned out of the slot and stamped without the lock.
TakeWithoutTheLock(m) ==
    /\ mark[m].pc = "loaded"
    /\ lock = Free
    /\ mark' = [mark EXCEPT ![m].pc = IF current = Free THEN "idle" ELSE "holding", ![m].into = current]
    /\ UNCHANGED <<enabled, current, lock, clock, trace, delivered>>

\* mark_cold: the slot's lock, and the trace in it if there is one.
Take(m) ==
    /\ mark[m].pc = "loaded"
    /\ lock = Free
    /\ IF current = Free
       THEN /\ mark' = [mark EXCEPT ![m].pc = "idle"]
            /\ UNCHANGED lock
       ELSE /\ mark' = [mark EXCEPT ![m].pc = "holding", ![m].into = current]
            /\ lock' = m
    /\ UNCHANGED <<enabled, current, clock, trace, delivered>>

\* Trace::push reads the clock before it takes the lock of the buffer.
Stamp(m) ==
    /\ mark[m].pc = "holding"
    /\ mark' = [mark EXCEPT ![m].pc = "stamped", ![m].at = clock]
    /\ UNCHANGED <<enabled, current, lock, clock, trace, delivered>>

\* A bug: a full buffer forgets its oldest record.
PushedOverOldest(t, e) ==
    IF Len(t.events) >= BufferRecords
    THEN [t EXCEPT !.events = Append(Tail(@), e), !.dropped = @ + 1]
    ELSE [t EXCEPT !.events = Append(@, e)]

\* What the buffer becomes: a full one keeps what it has and counts.
Pushed(t, e) ==
    IF Len(t.events) >= BufferRecords THEN [t EXCEPT !.dropped = @ + 1]
    ELSE [t EXCEPT !.events = Append(@, e)]

Push(m) ==
    /\ mark[m].pc = "stamped"
    /\ LET t == mark[m].into
           e == [name |-> mark[m].name, at |-> mark[m].at - trace[t].origin]
       IN /\ trace' = [trace EXCEPT ![t] = Pushed(@, e)]
          /\ delivered' = [delivered EXCEPT ![t] = Append(@, e)]
    /\ mark' = [mark EXCEPT ![m].pc = "idle"]
    /\ lock' = Free
    /\ UNCHANGED <<enabled, current, clock>>

Tick == clock < MaxClock /\ clock' = clock + 1 /\ UNCHANGED <<enabled, current, lock, trace, delivered, mark>>

Next ==
    \/ \E t \in Tracers : Insert(t) \/ Enable(t) \/ Disable(t) \/ Clear(t)
    \/ \E m \in Markers : Take(m) \/ Stamp(m) \/ Push(m)
    \/ \E m \in Markers, n \in Names : Load(m, n)
    \/ Tick

Spec == Init /\ [][Next]_vars

-----------------------------------------------------------------------------
\* The place of an event by time, ties in the order of the buffer: how many come no later.
Place(s, i) == Cardinality({j \in DOMAIN s : s[j].at < s[i].at \/ (s[j].at = s[i].at /\ j <= i)})

\* The event in place k.
EventAt(s, k) == s[CHOOSE i \in DOMAIN s : Place(s, i) = k]

\* Trace::events: the buffer in that order.
Events(t) == [k \in DOMAIN t.events |-> EventAt(t.events, k)]

\* Trace::first: the first event of a name, or none.
First(events, name) ==
    {events[i] : i \in {i \in DOMAIN events : /\ events[i].name = name
                                              /\ \A j \in 1..(i - 1) : events[j].name # name}}

\* Trace::segment_ms: its length; none, when an end is missing or comes before the other.
Segment(events, span) ==
    LET ends == First(events, span[1]) \X First(events, span[2])
    IN {e[2].at - e[1].at : e \in {e \in ends : e[1].at <= e[2].at}}

\* Trace::spans: the spans that can be derived, each with its length.
Derived(events) ==
    [s \in {s \in Spans : Segment(events, s) # {}} |-> Segment(events, s)]

-----------------------------------------------------------------------------
\* A trace is true as far as it goes (trace.rs, "Drop-with-count is positional"): it holds
\* the first stamps it was given and counts all the others; the buffer is in the order of
\* time, although several threads stamp it; a span that can be derived is the one between
\* the first stamps of its ends, dropped or not, and one that cannot be derived is
\* missing, never zero.
TraceIsTrue ==
    \A t \in Tracers :
        LET kept == trace[t].events
            given == delivered[t]
        IN /\ IsPrefix(kept, given)
           /\ Len(kept) + trace[t].dropped = Len(given)
           /\ trace[t].dropped > 0 => Len(kept) = BufferRecords
           /\ Events(trace[t]) = kept
           /\ LET spans == Derived(Events(trace[t]))
              IN \A s \in DOMAIN spans : spans[s] = Segment(given, s)

\* Once a guard's drop is over its trace is final, whatever marks had begun before
\* (TraceGuard::drop, mark_cold): the artifact that is read afterwards is whole.
FinishedIsFinal == [][\A t \in Tracers : trace[t].state = "closed" => trace'[t] = trace[t]]_vars

\* Mutual exclusion on the slot, and what each of its holders may rely on: a marker that
\* is stamping does so into the trace that is in the slot, and that trace is not closed.
SlotIsHeld ==
    /\ \A m \in Markers : mark[m].pc \in {"holding", "stamped"} =>
          lock = m /\ current = mark[m].into /\ trace[current].state \in {"inserted", "open", "disabled"}
    /\ \A t \in Tracers : trace[t].state \in {"inserted", "open", "disabled"} <=> current = t
    /\ enabled => current # Free
=============================================================================
