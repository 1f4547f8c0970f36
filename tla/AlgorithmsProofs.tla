--------------------------- MODULE AlgorithmsProofs ----------------------------
(***************************************************************************)
(* What the four components of Books guarantee, each for every value of    *)
(* its constants, and with them the books; and what four algorithms keep.  *)
(*                                                                         *)
(* ViewportStreams: no ticket of the viewport is forgotten.  The property  *)
(* is not inductive: that a request which was not overtaken finds no other *)
(* stream in place rests on the requests' generations being different, and *)
(* that nothing is put in place after a stop rests on the stop's having    *)
(* claimed the last of them.                                               *)
(*                                                                         *)
(* Trace: a trace whose guard is gone is final, and a trace holds the      *)
(* first of its stamps in the order of time.  A marker that stamps does so *)
(* into the trace in the slot and holds the slot's lock, so the drop that  *)
(* empties the slot waits for it, and no later stamp is pushed first.      *)
(*                                                                         *)
(* PoolPoll: a poll that runs is the one its entry names, and an entry     *)
(* outlives its poll only until the supervisor has seen it end.            *)
(*                                                                         *)
(* SessionHistory: recover reads back what append was told.  The reading   *)
(* of a file is a recursive function over its lines, so a line more is one *)
(* step of the reading more (RecursionExists); the invariant says of every *)
(* file what its reading accounts for, whole or cut off in a line.         *)
(*                                                                         *)
(* QueryPlan: whatever index narrows a query, its answer is the scan's.    *)
(* The ranges cover every row of the viewport, since they cover every      *)
(* group that is read and every candidate (MergedCovers); a group with     *)
(* such a row is read, and such a row is a candidate.                      *)
(*                                                                         *)
(* AuditLog: a rotation, wherever it breaks off, moves the files before    *)
(* the free place by one, so of what they held together only the first     *)
(* file's records are missing.  PathScope: what a record may carry.        *)
(*                                                                         *)
(* PredicateTypes: no admitted operation converts a value inexactly.  The  *)
(* rules are looked at one operand order at a time; what a filter computes *)
(* stays within what is claimed of its columns and literals (Operand).     *)
(***************************************************************************)
EXTENDS Books, Integers, Sequences, FiniteSets, FiniteSetTheorems, SequenceTheorems, WellFoundedInduction, TLAPS

-----------------------------------------------------------------------------
(* The viewport's streams.                                                  *)

\* What the variables hold.
ViewTypes ==
    /\ vpc \in [Request \cup {Stopper} ->
                 {"idle", "cancelling", "resuming", "querying", "attaching", "dropping", "done"}]
    /\ gen \in [Request -> Nat]
    /\ generation \in Nat
    /\ active \in Request \cup {NoStream}
    /\ stream \in [Request -> {"none", "minted", "started", "over"}]
    /\ sent \subseteq Request
    /\ live \subseteq Request
    /\ ended \in BOOLEAN
    /\ stopped \in BOOLEAN

\* A generation is claimed once, and none is claimed after the stop.
GenerationsAreClaimedOnce ==
    /\ \A r \in Request : gen[r] <= generation
    /\ \A r \in Request : vpc[r] # "idle" => gen[r] > 0
    /\ \A r, s \in Request : r # s /\ gen[r] > 0 => gen[r] # gen[s]
    /\ stopped => \A r \in Request : gen[r] < generation

\* How far a call is says what became of its ticket.
CallsFollowTheirTickets ==
    /\ \A r \in Request : stream[r] # "none" => vpc[r] \in {"attaching", "dropping", "done"}
    /\ \A r \in Request : vpc[r] = "attaching" => stream[r] = "minted"
    /\ \A r \in Request : vpc[r] = "dropping" => r \in sent
    /\ active # NoStream => stream[active] # "none"

ViewInv == ViewTypes /\ GenerationsAreClaimedOnce /\ CallsFollowTheirTickets /\ N!TicketsAreAccountedFor

\* A manager starts with no ticket.
LEMMA ViewStart == ASSUME N!Init PROVE ViewInv
<1> USE ViewportAssumption DEF N!Init
<1>1. ViewTypes
    BY DEF ViewTypes
<1>2. GenerationsAreClaimedOnce
    BY DEF GenerationsAreClaimedOnce
<1>3. CallsFollowTheirTickets /\ N!TicketsAreAccountedFor
    BY DEF CallsFollowTheirTickets, N!TicketsAreAccountedFor
<1> QED BY <1>1, <1>2, <1>3 DEF ViewInv

\* Every step keeps the invariant.
LEMMA ViewStep == ASSUME ViewInv, [N!Next]_(N!vars) PROVE ViewInv'
<1> USE ViewportAssumption DEF ViewInv, ViewTypes
<1>1. ASSUME NEW r \in Request, N!RequestViewport(r) PROVE ViewInv'
    <2>1. GenerationsAreClaimedOnce'
        BY <1>1 DEF N!RequestViewport, N!Supersede, N!Goto, N!ClearResidency, GenerationsAreClaimedOnce
    <2>2. ViewTypes'
        BY <1>1 DEF N!RequestViewport, N!Supersede, N!Goto, N!ClearResidency
    <2>3. CallsFollowTheirTickets'
        BY <1>1 DEF N!RequestViewport, N!Supersede, N!Goto, N!ClearResidency, CallsFollowTheirTickets
    <2>4. N!TicketsAreAccountedFor'
        BY <1>1 DEF N!RequestViewport, N!Supersede, N!Goto, N!ClearResidency, N!TicketsAreAccountedFor, N!Overtaken
    <2> QED BY <2>1, <2>2, <2>3, <2>4
<1>2. CASE N!Stop
    <2>1. GenerationsAreClaimedOnce'
        BY <1>2 DEF N!Stop, N!Supersede, N!Goto, N!ClearResidency, GenerationsAreClaimedOnce
    <2>2. ViewTypes'
        BY <1>2 DEF N!Stop, N!Supersede, N!Goto, N!ClearResidency
    <2>3. CallsFollowTheirTickets'
        BY <1>2 DEF N!Stop, N!Supersede, N!Goto, N!ClearResidency, CallsFollowTheirTickets
    <2>4. N!TicketsAreAccountedFor'
        BY <1>2 DEF N!Stop, N!Supersede, N!Goto, N!ClearResidency, N!TicketsAreAccountedFor, N!Overtaken
    <2> QED BY <2>1, <2>2, <2>3, <2>4
<1>3. ASSUME NEW r \in Request, N!Minted(r) PROVE ViewInv'
    <2>1. GenerationsAreClaimedOnce' /\ ViewTypes'
        BY <1>3 DEF N!Minted, N!Goto, GenerationsAreClaimedOnce
    <2>2. CallsFollowTheirTickets'
        BY <1>3 DEF N!Minted, N!Goto, CallsFollowTheirTickets
    <2>3. CASE ended \/ N!Overtaken(r)
        BY <1>3, <2>1, <2>2, <2>3 DEF N!Minted, N!Goto, N!TicketsAreAccountedFor, N!Overtaken
    <2>4. CASE ~ended /\ ~N!Overtaken(r)
        \* The request that was not overtaken is alone with its generation.
        <3>1. active \in {NoStream, r}
            BY <1>3, <2>4 DEF N!Minted, N!Overtaken, N!TicketsAreAccountedFor, GenerationsAreClaimedOnce
        <3>2. ~stopped
            BY <2>4 DEF N!Overtaken, GenerationsAreClaimedOnce
        <3>3. N!TicketsAreAccountedFor'
            BY <1>3, <2>4, <3>1, <3>2 DEF N!Minted, N!Goto, N!TicketsAreAccountedFor, N!Overtaken
        <3> QED BY <2>1, <2>2, <3>3
    <2> QED BY <2>3, <2>4
<1>4. ASSUME NEW r \in Request, N!Attached(r) \/ N!Dropped(r) \/ N!CallFails(r) PROVE ViewInv'
    <2>1. GenerationsAreClaimedOnce'
        BY <1>4 DEF N!Attached, N!Dropped, N!CallFails, N!Goto, GenerationsAreClaimedOnce
    <2>2. ViewTypes'
        BY <1>4 DEF N!Attached, N!Dropped, N!CallFails, N!Goto, N!Without
    <2>3. CallsFollowTheirTickets'
        BY <1>4 DEF N!Attached, N!Dropped, N!CallFails, N!Goto, N!Without, CallsFollowTheirTickets
    <2>4. ASSUME N!Attached(r) PROVE N!TicketsAreAccountedFor'
        BY <2>4 DEF N!Attached, N!Goto, CallsFollowTheirTickets, N!TicketsAreAccountedFor, N!Overtaken
    <2>5. ASSUME N!Dropped(r) PROVE N!TicketsAreAccountedFor'
        <3>1. \A s \in Request : stream[s] \in {"minted", "started"} => active' = s \/ s \in sent \/ ended
            BY <2>5 DEF N!Dropped, N!Without, CallsFollowTheirTickets, N!TicketsAreAccountedFor
        <3>2. active' \in {active, NoStream} /\ resident' \in {resident, NoStream} /\ live' \subseteq live
            BY <2>5 DEF N!Dropped, N!Without
        <3> QED BY <2>5, <3>1, <3>2 DEF N!Dropped, N!TicketsAreAccountedFor, N!Overtaken
    <2>6. ASSUME N!CallFails(r) PROVE N!TicketsAreAccountedFor'
        BY <2>6 DEF N!CallFails, N!Goto, N!TicketsAreAccountedFor, N!Overtaken
    <2> QED BY <1>4, <2>1, <2>2, <2>3, <2>4, <2>5, <2>6
<1>5. ASSUME NEW r \in Request, N!OnBatch(r) \/ N!CancelStream(r) PROVE ViewInv'
    <2>1. GenerationsAreClaimedOnce' /\ ViewTypes'
        BY <1>5 DEF N!OnBatch, N!CancelStream, N!Without, GenerationsAreClaimedOnce
    <2>2. CallsFollowTheirTickets' /\ N!TicketsAreAccountedFor'
        BY <1>5 DEF N!OnBatch, N!CancelStream, N!Without, CallsFollowTheirTickets, N!TicketsAreAccountedFor, N!Overtaken
    <2> QED BY <2>1, <2>2
<1>6. ASSUME NEW r \in Request, NEW changed \in BOOLEAN, N!OnTerminal(r, changed) PROVE ViewInv'
    <2>1. GenerationsAreClaimedOnce' /\ ViewTypes'
        BY <1>6 DEF N!OnTerminal, N!EndSession, N!ClearResidency, N!Without, GenerationsAreClaimedOnce
    <2>2. CallsFollowTheirTickets' /\ N!TicketsAreAccountedFor'
        BY <1>6 DEF N!OnTerminal, N!EndSession, N!ClearResidency, N!Without, CallsFollowTheirTickets, N!TicketsAreAccountedFor, N!Overtaken
    <2> QED BY <2>1, <2>2
<1>7. CASE N!NotifySessionEnded
    BY <1>7 DEF N!NotifySessionEnded, N!EndSession, N!ClearResidency, GenerationsAreClaimedOnce, CallsFollowTheirTickets, N!TicketsAreAccountedFor, N!Overtaken
<1>8. ASSUME NEW c \in Request \cup {Stopper}, N!CancelReturns(c) \/ N!Resume(c) PROVE ViewInv'
    <2>1. GenerationsAreClaimedOnce'
        BY <1>8 DEF N!CancelReturns, N!Resume, N!ClearResidency, N!Goto, GenerationsAreClaimedOnce
    <2>2. ViewTypes'
        BY <1>8 DEF N!CancelReturns, N!Resume, N!ClearResidency, N!Goto
    <2>3. CallsFollowTheirTickets' /\ N!TicketsAreAccountedFor'
        BY <1>8 DEF N!CancelReturns, N!Resume, N!ClearResidency, N!Goto, CallsFollowTheirTickets, N!TicketsAreAccountedFor, N!Overtaken
    <2> QED BY <2>1, <2>2, <2>3
<1>9. CASE UNCHANGED N!vars
    BY <1>9 DEF N!vars, GenerationsAreClaimedOnce, CallsFollowTheirTickets, N!TicketsAreAccountedFor, N!Overtaken
<1> QED
    BY <1>1, <1>2, <1>3, <1>4, <1>5, <1>6, <1>7, <1>8, <1>9 DEF N!Next

\* However many requests are made and however their awaits interleave with answers, events and
\* a stop, no ticket is forgotten and none is out of date (requestViewport's checks after its
\* awaits, endSession).
THEOREM TicketsCorrect == N!Spec => []N!TicketsAreAccountedFor
<1>1. N!Init => ViewInv
    BY ViewStart
<1>2. ViewInv /\ [N!Next]_(N!vars) => ViewInv'
    BY ViewStep
<1>3. ViewInv => N!TicketsAreAccountedFor
    BY DEF ViewInv
<1> QED
    BY <1>1, <1>2, <1>3, PTL DEF N!Spec

-----------------------------------------------------------------------------
(* The tracing instrument.                                                  *)

Running == {"inserted", "open", "disabled"}

TraceRecord == [state : Running \cup {"unborn", "refused", "closed"}, origin : Nat,
                events : Seq([name : Names, at : Int]), dropped : Nat]

TraceTypes ==
    /\ trace \in [Tracers -> TraceRecord]
    /\ mark \in [Markers -> [pc : {"idle", "loaded", "holding", "stamped"}, name : Names, at : Nat,
                             into : Tracers \cup {Free}, done : Nat]]
    /\ clock \in Nat
    /\ current \in Tracers \cup {Free}

OneInTheSlot == \A t \in Tracers : trace[t].state \in Running <=> current = t

SlotIsStamped ==
    \A m \in Markers : mark[m].pc \in {"holding", "stamped"} =>
        lock = m /\ current = mark[m].into /\ current # Free

StartHoldsTheLock == \A t \in Tracers : trace[t].state = "inserted" => lock = t

\* The inductive invariant.
TraceInv == TraceTypes /\ OneInTheSlot /\ SlotIsStamped /\ StartHoldsTheLock

\* No step changes a closed trace.
Final == \A t \in Tracers : trace[t].state = "closed" => trace'[t] = trace[t]

-----------------------------------------------------------------------------
\* A push leaves a trace a trace, and in its state.
LEMMA PushedFacts ==
  ASSUME NEW r \in TraceRecord, NEW e \in [name : Names, at : Int]
  PROVE  T!Pushed(r, e) \in TraceRecord /\ T!Pushed(r, e).state = r.state
<1>1. Append(r.events, e) \in Seq([name : Names, at : Int]) /\ r.dropped + 1 \in Nat
  BY DEF TraceRecord
<1> QED BY <1>1 DEF T!Pushed, TraceRecord

\* A new place in a trace's life is all that changes.
LEMMA StateFacts ==
  ASSUME NEW r \in TraceRecord, NEW s \in Running \cup {"unborn", "refused", "closed"}
  PROVE  [r EXCEPT !.state = s] \in TraceRecord /\ [r EXCEPT !.state = s].state = s
BY DEF TraceRecord

\* Every step keeps the invariant and changes no closed trace.
LEMMA TraceStep == ASSUME TraceInv, [T!Next]_(T!vars) PROVE TraceInv' /\ Final
<1> USE TraceAssumption DEF TraceInv, TraceTypes
<1>1. ASSUME NEW t \in Tracers, T!Insert(t) PROVE TraceInv' /\ Final
  <2>1. /\ lock = Free /\ trace[t].state = "unborn" /\ UNCHANGED <<clock, mark>>
    BY <1>1 DEF T!Insert
  <2>2. \A m \in Markers : mark[m].pc \notin {"holding", "stamped"}
    BY <2>1 DEF SlotIsStamped
  <2>3. CASE current = Free
    <3>1. /\ lock' = t /\ current' = t
          /\ trace' = [trace EXCEPT ![t] = [@ EXCEPT !.state = "inserted", !.origin = clock]]
      BY <1>1, <2>3 DEF T!Insert
    <3>4. /\ [trace[t] EXCEPT !.state = "inserted", !.origin = clock] \in TraceRecord
          /\ [trace[t] EXCEPT !.state = "inserted", !.origin = clock].state = "inserted"
      <4>1. trace[t] \in TraceRecord /\ clock \in Nat
        OBVIOUS
      <4> HIDE DEF TraceInv, TraceTypes
      <4> QED BY <4>1 DEF TraceRecord, Running
    <3>2. TraceTypes'
      BY <2>1, <3>1, <3>4
    <3>3. /\ trace'[t].state = "inserted"
          /\ \A u \in Tracers \ {t} : trace'[u] = trace[u] /\ trace[u].state \notin Running
      BY <2>3, <3>1, <3>4 DEF OneInTheSlot
    <3> QED BY <2>1, <2>2, <3>1, <3>2, <3>3 DEF OneInTheSlot, SlotIsStamped, StartHoldsTheLock, Final, Running
  <2>4. CASE current # Free
    <3>1. /\ lock' = lock /\ current' = current
          /\ trace' = [trace EXCEPT ![t] = [@ EXCEPT !.state = "refused"]]
      BY <1>1, <2>4 DEF T!Insert
    <3>4. /\ [trace[t] EXCEPT !.state = "refused"] \in TraceRecord
          /\ [trace[t] EXCEPT !.state = "refused"].state = "refused"
      BY StateFacts
    <3>2. TraceTypes'
      BY <2>1, <3>1, <3>4
    <3>3. /\ trace'[t].state = "refused"
          /\ \A u \in Tracers \ {t} : trace'[u] = trace[u]
      BY <3>1, <3>4
    <3> QED BY <2>1, <2>2, <3>1, <3>2, <3>3 DEF OneInTheSlot, SlotIsStamped, StartHoldsTheLock, Final, Running
  <2> QED BY <2>3, <2>4
<1>2. ASSUME NEW t \in Tracers, T!Enable(t) PROVE TraceInv' /\ Final
  <2>1. /\ trace[t].state = "inserted" /\ trace' = [trace EXCEPT ![t] = [@ EXCEPT !.state = "open"]]
        /\ lock' = Free /\ lock = t /\ UNCHANGED <<clock, mark, current>>
    BY <1>2 DEF T!Enable, StartHoldsTheLock
  <2>5. /\ [trace[t] EXCEPT !.state = "open"] \in TraceRecord
        /\ [trace[t] EXCEPT !.state = "open"].state = "open"
    BY StateFacts DEF Running
  <2>2. TraceTypes'
    BY <2>1, <2>5
  <2>3. /\ trace'[t].state = "open"
        /\ \A u \in Tracers \ {t} : trace'[u] = trace[u] /\ trace[u].state # "inserted"
    BY <2>1, <2>5 DEF StartHoldsTheLock
  <2>4. \A m \in Markers : mark[m].pc \notin {"holding", "stamped"}
    BY <2>1 DEF SlotIsStamped
  <2> QED BY <2>1, <2>2, <2>3, <2>4 DEF OneInTheSlot, SlotIsStamped, StartHoldsTheLock, Final, Running
<1>3. ASSUME NEW t \in Tracers, T!Disable(t) PROVE TraceInv' /\ Final
  <2>1. /\ trace[t].state = "open" /\ trace' = [trace EXCEPT ![t] = [@ EXCEPT !.state = "disabled"]]
        /\ UNCHANGED <<lock, clock, mark, current>>
    BY <1>3 DEF T!Disable
  <2>5. /\ [trace[t] EXCEPT !.state = "disabled"] \in TraceRecord
        /\ [trace[t] EXCEPT !.state = "disabled"].state = "disabled"
    BY StateFacts DEF Running
  <2>2. TraceTypes'
    BY <2>1, <2>5
  <2>3. /\ trace'[t].state = "disabled"
        /\ \A u \in Tracers \ {t} : trace'[u] = trace[u]
    BY <2>1, <2>5
  <2> QED BY <2>1, <2>2, <2>3 DEF OneInTheSlot, SlotIsStamped, StartHoldsTheLock, Final, Running
<1>4. ASSUME NEW t \in Tracers, T!Clear(t) PROVE TraceInv' /\ Final
  <2>1. /\ trace[t].state = "disabled" /\ trace' = [trace EXCEPT ![t] = [@ EXCEPT !.state = "closed"]]
        /\ lock = Free /\ current' = Free /\ UNCHANGED <<lock, clock, mark>>
    BY <1>4 DEF T!Clear
  <2>5. /\ [trace[t] EXCEPT !.state = "closed"] \in TraceRecord
        /\ [trace[t] EXCEPT !.state = "closed"].state = "closed"
    BY StateFacts
  <2>2. TraceTypes'
    BY <2>1, <2>5
  <2>3. /\ trace'[t].state = "closed"
        /\ \A u \in Tracers \ {t} : trace'[u] = trace[u] /\ trace[u].state \notin Running
    BY <2>1, <2>5 DEF OneInTheSlot, Running
  <2>4. \A m \in Markers : mark[m].pc \notin {"holding", "stamped"}
    BY <2>1 DEF SlotIsStamped
  <2> QED BY <2>1, <2>2, <2>3, <2>4 DEF OneInTheSlot, SlotIsStamped, StartHoldsTheLock, Final, Running
<1>5. ASSUME NEW m \in Markers, NEW n \in Names, T!Load(m, n) PROVE TraceInv' /\ Final
  <2>1. /\ mark' = [mark EXCEPT ![m].pc = "loaded", ![m].name = n, ![m].done = @ + 1]
        /\ UNCHANGED <<current, lock, clock, trace>>
    BY <1>5 DEF T!Load
  <2>2. TraceTypes'
    BY <2>1
  <2>3. /\ mark'[m].pc = "loaded"
        /\ \A k \in Markers \ {m} : mark'[k] = mark[k]
    BY <2>1
  <2> QED BY <2>1, <2>2, <2>3 DEF OneInTheSlot, SlotIsStamped, StartHoldsTheLock, Final
<1>6. ASSUME NEW m \in Markers, T!Take(m) PROVE TraceInv' /\ Final
  <2>1. lock = Free /\ UNCHANGED <<current, clock, trace>>
    BY <1>6 DEF T!Take
  <2>2. /\ \A k \in Markers : mark[k].pc \notin {"holding", "stamped"}
        /\ \A t \in Tracers : trace[t].state # "inserted"
    BY <2>1 DEF SlotIsStamped, StartHoldsTheLock
  <2>3. CASE current = Free
    <3>1. mark' = [mark EXCEPT ![m].pc = "idle"] /\ lock' = lock
      BY <1>6, <2>3 DEF T!Take
    <3>2. TraceTypes'
      BY <2>1, <3>1
    <3>3. /\ mark'[m].pc = "idle"
          /\ \A k \in Markers \ {m} : mark'[k] = mark[k]
      BY <3>1
    <3> QED BY <2>1, <2>2, <3>1, <3>2, <3>3 DEF OneInTheSlot, SlotIsStamped, StartHoldsTheLock, Final
  <2>4. CASE current # Free
    <3>1. mark' = [mark EXCEPT ![m].pc = "holding", ![m].into = current] /\ lock' = m
      BY <1>6, <2>4 DEF T!Take
    <3>2. TraceTypes'
      BY <2>1, <3>1
    <3>3. /\ mark'[m].pc = "holding" /\ mark'[m].into = current
          /\ \A k \in Markers \ {m} : mark'[k] = mark[k]
      BY <3>1
    <3> QED BY <2>1, <2>2, <2>4, <3>1, <3>2, <3>3 DEF OneInTheSlot, SlotIsStamped, StartHoldsTheLock, Final
  <2> QED BY <2>3, <2>4
<1>7. ASSUME NEW m \in Markers, T!Stamp(m) PROVE TraceInv' /\ Final
  <2>1. /\ mark[m].pc = "holding" /\ mark' = [mark EXCEPT ![m].pc = "stamped", ![m].at = clock]
        /\ UNCHANGED <<current, lock, clock, trace>>
    BY <1>7 DEF T!Stamp
  <2>2. TraceTypes'
    BY <2>1
  <2>3. /\ mark'[m].pc = "stamped" /\ mark'[m].into = mark[m].into
        /\ \A k \in Markers \ {m} : mark'[k] = mark[k]
    BY <2>1
  <2> QED BY <2>1, <2>2, <2>3 DEF OneInTheSlot, SlotIsStamped, StartHoldsTheLock, Final
<1>8. ASSUME NEW m \in Markers, T!Push(m) PROVE TraceInv' /\ Final
  <2> DEFINE t == mark[m].into
             e == [name |-> mark[m].name, at |-> mark[m].at - trace[t].origin]
  <2>1. /\ mark[m].pc = "stamped" /\ mark' = [mark EXCEPT ![m].pc = "idle"]
        /\ trace' = [trace EXCEPT ![t] = T!Pushed(trace[t], e)]
        /\ lock' = Free /\ UNCHANGED <<current, clock>>
    BY <1>8 DEF T!Push
  <2>2. t \in Tracers /\ current = t /\ lock = m
    BY <2>1 DEF SlotIsStamped
  <2>3. e \in [name : Names, at : Int]
    BY <2>2 DEF TraceRecord
  <2> HIDE DEF t, e
  <2>4. T!Pushed(trace[t], e) \in TraceRecord /\ T!Pushed(trace[t], e).state = trace[t].state
    BY <2>2, <2>3, PushedFacts
  <2>5. TraceTypes'
    BY <2>1, <2>2, <2>4
  <2>6. /\ \A u \in Tracers : trace'[u].state = trace[u].state
        /\ \A u \in Tracers \ {t} : trace'[u] = trace[u]
    BY <2>1, <2>2, <2>4
  <2>7. /\ mark'[m].pc = "idle"
        /\ \A k \in Markers \ {m} : mark'[k] = mark[k] /\ mark[k].pc \notin {"holding", "stamped"}
    BY <2>1, <2>2 DEF SlotIsStamped
  <2>8. trace[t].state \in Running /\ \A u \in Tracers : trace[u].state # "inserted"
    BY <2>2 DEF OneInTheSlot, StartHoldsTheLock
  <2>9. Final
    BY <2>2, <2>6, <2>8 DEF Final, Running
  <2> QED BY <2>1, <2>2, <2>5, <2>6, <2>7, <2>8, <2>9 DEF OneInTheSlot, SlotIsStamped, StartHoldsTheLock
<1>9. CASE T!Tick \/ UNCHANGED T!vars
  <2>1. UNCHANGED <<current, lock, trace, mark>> /\ clock' \in Nat
    BY <1>9 DEF T!Tick, T!vars
  <2>2. TraceTypes'
    BY <2>1
  <2> QED BY <2>1, <2>2 DEF OneInTheSlot, SlotIsStamped, StartHoldsTheLock, Final
<1> QED BY <1>1, <1>2, <1>3, <1>4, <1>5, <1>6, <1>7, <1>8, <1>9 DEF T!Next

\* The invariant holds at the start.
LEMMA TraceStart == ASSUME T!Init PROVE TraceInv
<1>1. (CHOOSE n \in Names : TRUE) \in Names
  BY TraceAssumption
<1>2. T!Unborn \in TraceRecord /\ T!Unborn.state = "unborn"
  BY DEF T!Unborn, TraceRecord
<1> QED
  BY <1>1, <1>2, TraceAssumption
  DEF T!Init, TraceInv, TraceTypes, OneInTheSlot, SlotIsStamped, StartHoldsTheLock, Running

\* Once a guard's drop is over its trace does not change any more, whatever marks had begun
\* before (trace.rs TraceGuard::drop, mark_cold), for any number of threads.
THEOREM FinalCorrect == T!Spec => T!FinishedIsFinal
<1>1. T!Init => TraceInv
  BY TraceStart
<1>2. TraceInv /\ [T!Next]_(T!vars) => TraceInv' /\ [Final]_(T!vars)
  BY TraceStep
<1> QED BY <1>1, <1>2, PTL DEF T!Spec, T!FinishedIsFinal, Final

-----------------------------------------------------------------------------
(* The tracing instrument: what the buffer holds.                           *)

Stamps == [name : Names, at : Int]

\* The buffer holds the first stamps, all the others are counted, and none is before it is full.
KeepsTheFirst(kept, dropped, given) ==
  /\ Len(kept) <= Len(given)
  /\ \A i \in 1..Len(kept) : kept[i] = given[i]
  /\ Len(kept) + dropped = Len(given)
  /\ Len(kept) <= BufferRecords
  /\ dropped > 0 => Len(kept) = BufferRecords

\* The stamps of a buffer are in the order of time, and none is later than an instant.
InTime(events, origin, until) ==
  /\ \A i, j \in 1..Len(events) : i <= j => events[i].at <= events[j].at
  /\ \A i \in 1..Len(events) : events[i].at + origin <= until

\* A marker that has read the clock is the last that did: nobody else stamps before it pushes.
BufferInv ==
  /\ delivered \in [Tracers -> Seq(Stamps)]
  /\ \A t \in Tracers : KeepsTheFirst(trace[t].events, trace[t].dropped, delivered[t])
  /\ \A t \in Tracers : InTime(trace[t].events, trace[t].origin, clock)
  /\ \A t \in Tracers : trace[t].state = "unborn" => trace[t].events = <<>>
  /\ \A m \in Markers : mark[m].pc = "stamped" =>
        /\ mark[m].at <= clock
        /\ InTime(trace[mark[m].into].events, trace[mark[m].into].origin, mark[m].at)

\* A push keeps the first stamps, and their order when the stamp is the latest.
LEMMA PushedKeeps ==
  ASSUME NEW r \in TraceRecord, NEW e \in Stamps, NEW given \in Seq(Stamps), NEW at \in Nat,
         KeepsTheFirst(r.events, r.dropped, given), InTime(r.events, r.origin, at),
         e.at = at - r.origin
  PROVE  /\ KeepsTheFirst(T!Pushed(r, e).events, T!Pushed(r, e).dropped, Append(given, e))
         /\ InTime(T!Pushed(r, e).events, T!Pushed(r, e).origin, at)
         /\ T!Pushed(r, e).origin = r.origin
<1> DEFINE n == Len(r.events)
<1>0. n = Len(r.events)
  OBVIOUS
<1>1. /\ r.events \in Seq(Stamps) /\ n \in Nat /\ r.dropped \in Nat /\ r.origin \in Nat
      /\ \A i \in 1..n : r.events[i] \in Stamps
  <2>1. r.events \in Seq(Stamps) /\ r.dropped \in Nat /\ r.origin \in Nat
    BY DEF TraceRecord, Stamps
  <2> QED BY <2>1
<1> HIDE DEF n
<1>2. /\ Len(given) \in Nat /\ Len(Append(given, e)) = Len(given) + 1 /\ Append(given, e)[Len(given) + 1] = e
      /\ \A i \in 1..Len(given) : Append(given, e)[i] = given[i]
  OBVIOUS
<1>3. CASE n >= BufferRecords
  <2>1. T!Pushed(r, e) = [r EXCEPT !.dropped = r.dropped + 1]
    BY <1>0, <1>3 DEF T!Pushed
  <2>2. /\ T!Pushed(r, e).events = r.events /\ T!Pushed(r, e).dropped = r.dropped + 1
        /\ T!Pushed(r, e).origin = r.origin
    BY <2>1 DEF TraceRecord
  <2>3. KeepsTheFirst(r.events, r.dropped + 1, Append(given, e))
    <3>1. n <= Len(given) /\ n + r.dropped = Len(given) /\ n <= BufferRecords /\ BufferRecords \in Nat
      BY <1>0, TraceAssumption DEF KeepsTheFirst
    <3>2. \A i \in 1..n : r.events[i] = Append(given, e)[i]
      <4>1. \A i \in 1..n : r.events[i] = given[i] /\ i \in 1..Len(given)
        BY <1>0, <1>1, <1>2, <3>1 DEF KeepsTheFirst
      <4> QED BY <1>2, <4>1
    <3>3. n = BufferRecords /\ n <= Len(given) + 1 /\ n + (r.dropped + 1) = Len(given) + 1
      BY <1>1, <1>2, <1>3, <3>1
    <3> QED BY <1>0, <1>2, <3>1, <3>2, <3>3 DEF KeepsTheFirst
  <2> QED BY <2>2, <2>3
<1>4. CASE ~(n >= BufferRecords)
  <2> DEFINE more == Append(r.events, e)
  <2>1. T!Pushed(r, e) = [r EXCEPT !.events = more]
    BY <1>0, <1>4 DEF T!Pushed
  <2>2. /\ T!Pushed(r, e).events = more /\ T!Pushed(r, e).dropped = r.dropped
        /\ T!Pushed(r, e).origin = r.origin
    BY <2>1 DEF TraceRecord
  <2>3. /\ Len(more) = n + 1 /\ more[n + 1] = e /\ \A i \in 1..n : more[i] = r.events[i]
    BY <1>0, <1>1
  <2> HIDE DEF more
  <2>4. r.dropped = 0 /\ Len(given) = n
    BY <1>0, <1>1, <1>2, <1>4, TraceAssumption DEF KeepsTheFirst
  <2>5. KeepsTheFirst(more, r.dropped, Append(given, e))
    <3>1. ASSUME NEW i \in 1..(n + 1) PROVE more[i] = Append(given, e)[i]
      <4>0. i = n + 1 \/ i \in 1..n
        BY <1>1
      <4>1. CASE i = n + 1
        BY <1>2, <2>3, <2>4, <4>1
      <4>2. CASE i \in 1..n
        BY <1>0, <1>2, <2>3, <2>4, <4>2 DEF KeepsTheFirst
      <4> QED BY <4>0, <4>1, <4>2
    <3> QED BY <1>1, <1>2, <1>4, <2>3, <2>4, <3>1, TraceAssumption DEF KeepsTheFirst
  <2>6. InTime(more, r.origin, at)
    <3>1. \A i \in 1..n : r.events[i].at \in Int /\ r.events[i].at <= e.at
      <4> TAKE i \in 1..n
      <4>1. r.events[i].at \in Int /\ e.at \in Int
        BY <1>1 DEF Stamps
      <4>2. r.events[i].at + r.origin <= at
        BY <1>0 DEF InTime
      <4> QED BY <1>1, <4>1, <4>2
    <3>2. e.at \in Int /\ e.at + r.origin <= at
      BY <1>1 DEF Stamps
    <3>3. ASSUME NEW i \in 1..(n + 1), NEW j \in 1..(n + 1), i <= j PROVE more[i].at <= more[j].at
      <4>1. CASE j = n + 1
        <5>1. CASE i = n + 1
          BY <2>3, <3>2, <4>1, <5>1
        <5>2. CASE i \in 1..n
          BY <2>3, <3>1, <4>1, <5>2
        <5> QED BY <1>1, <5>1, <5>2
      <4>2. CASE j \in 1..n
        <5>1. i \in 1..n
          BY <1>1, <3>3, <4>2
        <5> QED BY <1>0, <2>3, <3>3, <4>2, <5>1 DEF InTime
      <4> QED BY <1>1, <4>1, <4>2
    <3>4. ASSUME NEW i \in 1..(n + 1) PROVE more[i].at + r.origin <= at
      <4>1. CASE i = n + 1
        BY <2>3, <3>2, <4>1
      <4>2. CASE i \in 1..n
        BY <1>0, <2>3, <4>2 DEF InTime
      <4> QED BY <1>1, <4>1, <4>2
    <3> QED BY <2>3, <3>3, <3>4 DEF InTime
  <2> QED BY <2>2, <2>5, <2>6
<1> QED BY <1>3, <1>4

\* Later is late enough.
LEMMA InTimeLater ==
  ASSUME NEW r \in TraceRecord, NEW a \in Nat, NEW b \in Nat, a <= b, InTime(r.events, r.origin, a)
  PROVE  InTime(r.events, r.origin, b)
<1>1. r.origin \in Nat /\ \A i \in 1..Len(r.events) : r.events[i].at \in Int
  <2>1. r.origin \in Nat /\ r.events \in Seq(Stamps)
    BY DEF TraceRecord, Stamps
  <2>2. \A i \in 1..Len(r.events) : r.events[i] \in Stamps
    BY <2>1
  <2> QED BY <2>1, <2>2 DEF Stamps
<1> QED BY <1>1 DEF InTime

\* What the steps other than a push do to the buffers: nothing.
LEMMA BuffersStay ==
  ASSUME TraceInv, [T!Next]_(T!vars), \A m \in Markers : ~T!Push(m)
  PROVE  /\ delivered' = delivered /\ clock' >= clock
         /\ \A t \in Tracers :
              /\ trace'[t].events = trace[t].events /\ trace'[t].dropped = trace[t].dropped
              /\ trace'[t].origin = trace[t].origin \/ trace[t].state = "unborn"
              /\ trace'[t].state = "unborn" => trace[t].state = "unborn"
         /\ \A m \in Markers : mark'[m].pc = "stamped" =>
              \/ mark'[m].at = clock
              \/ mark[m].pc = "stamped" /\ mark'[m].at = mark[m].at /\ mark'[m].into = mark[m].into
<1> USE DEF TraceInv, TraceTypes
<1>0. ASSUME NEW t \in Tracers, NEW s \in Running \cup {"unborn", "refused", "closed"}, s # "unborn",
             NEW o \in Nat, o = trace[t].origin \/ trace[t].state = "unborn",
             trace' = [trace EXCEPT ![t] = [trace[t] EXCEPT !.state = s, !.origin = o]]
      PROVE  \A u \in Tracers :
                  /\ trace'[u].events = trace[u].events /\ trace'[u].dropped = trace[u].dropped
                  /\ trace'[u].origin = trace[u].origin \/ trace[u].state = "unborn"
                  /\ trace'[u].state = "unborn" => trace[u].state = "unborn"
  <2> TAKE u \in Tracers
  <2>1. CASE u # t
    BY <1>0, <2>1
  <2>2. CASE u = t
    <3>1. trace'[t] = [trace[t] EXCEPT !.state = s, !.origin = o] /\ trace[t] \in TraceRecord
      BY <1>0
    <3> QED BY <1>0, <2>2, <3>1 DEF TraceRecord
  <2> QED BY <2>1, <2>2
<1>1. ASSUME NEW t \in Tracers, T!Insert(t) \/ T!Enable(t) \/ T!Disable(t) \/ T!Clear(t)
      PROVE  /\ UNCHANGED <<delivered, clock, mark>>
             /\ \A u \in Tracers :
                  /\ trace'[u].events = trace[u].events /\ trace'[u].dropped = trace[u].dropped
                  /\ trace'[u].origin = trace[u].origin \/ trace[u].state = "unborn"
                  /\ trace'[u].state = "unborn" => trace[u].state = "unborn"
  <2>1. UNCHANGED <<delivered, clock, mark>>
    BY <1>1 DEF T!Insert, T!Enable, T!Disable, T!Clear
  <2>2. PICK s \in {"inserted", "refused", "open", "disabled", "closed"}, o \in {trace[t].origin, clock} :
           /\ o = trace[t].origin \/ trace[t].state = "unborn"
           /\ trace' = [trace EXCEPT ![t] = [trace[t] EXCEPT !.state = s, !.origin = o]]
    <3>1. trace[t] \in TraceRecord
      OBVIOUS
    <3>2. \A s : [trace[t] EXCEPT !.state = s] = [trace[t] EXCEPT !.state = s, !.origin = trace[t].origin]
      BY <3>1 DEF TraceRecord
    <3>3. CASE T!Insert(t)
      <4>1. CASE current = Free
        BY <3>3, <4>1 DEF T!Insert
      <4>2. CASE current # Free
        <5>1. trace' = [trace EXCEPT ![t] = [trace[t] EXCEPT !.state = "refused"]]
          BY <3>3, <4>2 DEF T!Insert
        <5> QED BY <3>2, <5>1
      <4> QED BY <4>1, <4>2
    <3>4. CASE T!Enable(t)
      <4>1. trace' = [trace EXCEPT ![t] = [trace[t] EXCEPT !.state = "open"]]
        BY <3>4 DEF T!Enable
      <4> QED BY <3>2, <4>1
    <3>5. CASE T!Disable(t)
      <4>1. trace' = [trace EXCEPT ![t] = [trace[t] EXCEPT !.state = "disabled"]]
        BY <3>5 DEF T!Disable
      <4> QED BY <3>2, <4>1
    <3>6. CASE T!Clear(t)
      <4>1. trace' = [trace EXCEPT ![t] = [trace[t] EXCEPT !.state = "closed"]]
        BY <3>6 DEF T!Clear
      <4> QED BY <3>2, <4>1
    <3> QED BY <1>1, <3>3, <3>4, <3>5, <3>6
  <2>3. trace[t].origin \in Nat /\ clock \in Nat
    BY DEF TraceRecord
  <2>4. s \in Running \cup {"unborn", "refused", "closed"} /\ s # "unborn" /\ o \in Nat
    BY <2>2, <2>3 DEF Running
  <2> QED BY <1>0, <2>1, <2>2, <2>4
<1>2. ASSUME NEW m \in Markers, T!Take(m) \/ T!Stamp(m) \/ (\E n \in Names : T!Load(m, n))
      PROVE  /\ UNCHANGED <<delivered, clock, trace>>
             /\ \A k \in Markers : mark'[k].pc = "stamped" =>
                  \/ mark'[k].at = clock
                  \/ mark[k].pc = "stamped" /\ mark'[k].at = mark[k].at /\ mark'[k].into = mark[k].into
  <2>1. UNCHANGED <<delivered, clock, trace>> /\ \A k \in Markers \ {m} : mark'[k] = mark[k]
    BY <1>2 DEF T!Take, T!Stamp, T!Load
  <2>2. mark'[m].pc = "stamped" => mark'[m].at = clock
    <3>1. CASE T!Take(m)
      <4>1. CASE current = Free
        BY <3>1, <4>1 DEF T!Take
      <4>2. CASE current # Free
        BY <3>1, <4>2 DEF T!Take
      <4> QED BY <4>1, <4>2
    <3>2. CASE T!Stamp(m)
      BY <3>2 DEF T!Stamp
    <3>3. CASE \E n \in Names : T!Load(m, n)
      BY <3>3 DEF T!Load
    <3> QED BY <1>2, <3>1, <3>2, <3>3
  <2> QED BY <2>1, <2>2
<1>3. CASE T!Tick \/ UNCHANGED T!vars
  BY <1>3 DEF T!Tick, T!vars
<1>4. clock \in Nat
  OBVIOUS
<1> QED BY <1>1, <1>2, <1>3, <1>4 DEF T!Next

\* The buffers are as the invariant says at the start ...
LEMMA BufferStart == ASSUME T!Init PROVE BufferInv
<1>1. /\ T!Unborn.events = <<>> /\ T!Unborn.dropped = 0 /\ Len(<<>>) = 0
  BY DEF T!Unborn
<1>2. \A t \in Tracers : trace[t].events = <<>> /\ trace[t].dropped = 0 /\ delivered[t] = <<>>
  BY <1>1 DEF T!Init
<1>3. KeepsTheFirst(<<>>, 0, <<>>)
  BY <1>1, TraceAssumption DEF KeepsTheFirst
<1>4. \A o, u : InTime(<<>>, o, u)
  BY <1>1 DEF InTime
<1>5. \A m \in Markers : mark[m].pc = "idle"
  BY DEF T!Init
<1>6. delivered \in [Tracers -> Seq(Stamps)]
  BY DEF T!Init
<1> QED BY <1>2, <1>3, <1>4, <1>5, <1>6 DEF BufferInv

\* ... and after every step.
LEMMA BufferStep == ASSUME TraceInv, BufferInv, [T!Next]_(T!vars) PROVE BufferInv'
<1>t. /\ trace \in [Tracers -> TraceRecord] /\ clock \in Nat /\ delivered \in [Tracers -> Seq(Stamps)]
      /\ mark \in [Markers -> [pc : {"idle", "loaded", "holding", "stamped"}, name : Names, at : Nat,
                               into : Tracers \cup {Free}, done : Nat]]
  BY DEF TraceInv, TraceTypes, BufferInv
<1>p. TraceInv'
  BY TraceStep
<1>s. \A m \in Markers : mark[m].pc = "stamped" => mark[m].into \in Tracers /\ lock = m
  BY <1>t DEF TraceInv, SlotIsStamped
<1>1. CASE \A m \in Markers : ~T!Push(m)
  <2>1. /\ delivered' = delivered /\ clock' >= clock
        /\ \A t \in Tracers :
              /\ trace'[t].events = trace[t].events /\ trace'[t].dropped = trace[t].dropped
              /\ trace'[t].origin = trace[t].origin \/ trace[t].state = "unborn"
              /\ trace'[t].state = "unborn" => trace[t].state = "unborn"
        /\ \A m \in Markers : mark'[m].pc = "stamped" =>
              \/ mark'[m].at = clock
              \/ mark[m].pc = "stamped" /\ mark'[m].at = mark[m].at /\ mark'[m].into = mark[m].into
    BY <1>1, BuffersStay
  <2>2. clock' \in Nat /\ \A m \in Markers : mark'[m].at \in Nat
    BY <1>p DEF TraceInv, TraceTypes
  <2>3. ASSUME NEW t \in Tracers, NEW a \in Nat, InTime(trace[t].events, trace[t].origin, a)
        PROVE  InTime(trace'[t].events, trace'[t].origin, a)
    <3>1. CASE trace[t].state = "unborn"
      <4>1. trace'[t].events = <<>> /\ Len(<<>>) = 0
        BY <2>1, <3>1 DEF BufferInv
      <4> QED BY <4>1 DEF InTime
    <3>2. CASE trace[t].state # "unborn"
      BY <2>1, <2>3, <3>2
    <3> QED BY <3>1, <3>2
  <2>4. \A t \in Tracers : KeepsTheFirst(trace'[t].events, trace'[t].dropped, delivered'[t])
    BY <2>1 DEF BufferInv
  <2>5. ASSUME NEW t \in Tracers PROVE InTime(trace'[t].events, trace'[t].origin, clock')
    <3>1. trace[t] \in TraceRecord /\ InTime(trace[t].events, trace[t].origin, clock)
      BY <1>t DEF BufferInv
    <3>2. InTime(trace[t].events, trace[t].origin, clock')
      BY <1>t, <2>1, <2>2, <3>1, InTimeLater
    <3> QED BY <2>2, <2>3, <3>2
  <2>6. \A t \in Tracers : trace'[t].state = "unborn" => trace'[t].events = <<>>
    BY <2>1 DEF BufferInv
  <2>7. ASSUME NEW m \in Markers, mark'[m].pc = "stamped"
        PROVE  /\ mark'[m].at <= clock'
               /\ InTime(trace'[mark'[m].into].events, trace'[mark'[m].into].origin, mark'[m].at)
    <3>1. mark'[m].into \in Tracers
      BY <1>p, <2>7 DEF TraceInv, TraceTypes, SlotIsStamped
    <3>2. CASE mark'[m].at = clock
      <4>1. InTime(trace[mark'[m].into].events, trace[mark'[m].into].origin, clock)
        BY <3>1 DEF BufferInv
      <4> QED BY <1>t, <2>1, <2>2, <2>3, <3>1, <3>2, <4>1
    <3>3. CASE mark[m].pc = "stamped" /\ mark'[m].at = mark[m].at /\ mark'[m].into = mark[m].into
      <4>1. mark[m].at <= clock /\ InTime(trace[mark[m].into].events, trace[mark[m].into].origin, mark[m].at)
        BY <3>3 DEF BufferInv
      <4>2. mark[m].at \in Nat
        BY <1>t
      <4>3. InTime(trace'[mark[m].into].events, trace'[mark[m].into].origin, mark[m].at)
        BY <2>3, <3>1, <3>3, <4>1, <4>2
      <4>4. mark[m].at <= clock'
        BY <1>t, <2>1, <2>2, <4>1, <4>2
      <4> QED BY <3>3, <4>3, <4>4
    <3> QED BY <2>1, <2>7, <3>2, <3>3
  <2> QED BY <1>t, <2>1, <2>4, <2>5, <2>6, <2>7 DEF BufferInv
<1>2. ASSUME NEW m \in Markers, T!Push(m) PROVE BufferInv'
  <2> DEFINE t == mark[m].into
             e == [name |-> mark[m].name, at |-> mark[m].at - trace[t].origin]
             r == trace[t]
  <2>1. /\ mark[m].pc = "stamped" /\ mark' = [mark EXCEPT ![m].pc = "idle"] /\ clock' = clock
        /\ trace' = [trace EXCEPT ![t] = T!Pushed(trace[t], e)]
        /\ delivered' = [delivered EXCEPT ![t] = Append(delivered[t], e)]
    BY <1>2 DEF T!Push
  <2>2. t \in Tracers /\ lock = m /\ mark[m].at \in Nat /\ mark[m].name \in Names
    BY <1>s, <1>t, <2>1
  <2>3. r \in TraceRecord /\ r.origin \in Nat /\ delivered[t] \in Seq(Stamps)
    BY <1>t, <2>2 DEF TraceRecord
  <2>4. e \in Stamps /\ e.at = mark[m].at - r.origin
    BY <2>2, <2>3 DEF Stamps
  <2>5. /\ KeepsTheFirst(r.events, r.dropped, delivered[t])
        /\ InTime(r.events, r.origin, mark[m].at) /\ mark[m].at <= clock
    BY <2>1, <2>2 DEF BufferInv
  <2> HIDE DEF t, e, r
  <2> DEFINE p == T!Pushed(r, e)
  <2>6. /\ KeepsTheFirst(p.events, p.dropped, Append(delivered[t], e))
        /\ InTime(p.events, p.origin, mark[m].at)
    BY <2>2, <2>3, <2>4, <2>5, PushedKeeps
  <2>7. p \in TraceRecord /\ p.state = r.state
    BY <2>3, <2>4, PushedFacts DEF Stamps
  <2>8. InTime(p.events, p.origin, clock)
    <3> HIDE DEF p
    <3> QED BY <1>t, <2>2, <2>5, <2>6, <2>7, InTimeLater
  <2>9. r.state # "unborn"
    <3>1. current = t
      BY <2>1, <2>2 DEF TraceInv, SlotIsStamped, t
    <3> QED BY <2>2, <3>1 DEF TraceInv, OneInTheSlot, Running, r
  <2> HIDE DEF p
  <2>10. /\ trace'[t] = p /\ \A u \in Tracers \ {t} : trace'[u] = trace[u]
         /\ delivered'[t] = Append(delivered[t], e) /\ \A u \in Tracers \ {t} : delivered'[u] = delivered[u]
    BY <1>t, <2>1, <2>2 DEF p, r
  <2>11. delivered' \in [Tracers -> Seq(Stamps)]
    <3>1. Append(delivered[t], e) \in Seq(Stamps)
      BY <2>3, <2>4
    <3> QED BY <1>t, <2>1, <2>2, <3>1
  <2>12. \A u \in Tracers : /\ KeepsTheFirst(trace'[u].events, trace'[u].dropped, delivered'[u])
                            /\ InTime(trace'[u].events, trace'[u].origin, clock')
                            /\ trace'[u].state = "unborn" => trace'[u].events = <<>>
    <3> TAKE u \in Tracers
    <3>1. CASE u = t
      BY <2>1, <2>6, <2>7, <2>8, <2>9, <2>10, <3>1
    <3>2. CASE u # t
      BY <2>1, <2>10, <3>2 DEF BufferInv
    <3> QED BY <3>1, <3>2
  <2>13. \A k \in Markers : mark'[k].pc # "stamped"
    <3>1. \A k \in Markers \ {m} : mark[k].pc # "stamped"
      BY <1>s, <2>2
    <3> QED BY <1>t, <2>1, <3>1
  <2> QED BY <2>11, <2>12, <2>13 DEF BufferInv
<1> QED BY <1>1, <1>2

\* Stamps that are in order stay where they are when they are sorted.
LEMMA SortedStay ==
  ASSUME NEW r \in TraceRecord,
         \A i, j \in 1..Len(r.events) : i <= j => r.events[i].at <= r.events[j].at
  PROVE  T!Events(r) = r.events
<1> DEFINE s == r.events
           n == Len(s)
           Upto(i) == {j \in DOMAIN s : s[j].at < s[i].at \/ (s[j].at = s[i].at /\ j <= i)}
<1>0. s \in Seq(Stamps) /\ n = Len(s)
  BY DEF TraceRecord, Stamps
<1>1. n \in Nat /\ DOMAIN s = 1..n /\ \A i \in 1..n : s[i] \in Stamps
  BY <1>0
<1>2. \A i \in 1..n : s[i].at \in Int
  BY <1>1 DEF Stamps
<1>3. \A i, j \in 1..n : i <= j => s[i].at <= s[j].at
  OBVIOUS
<1> HIDE DEF s, n
<1>4. ASSUME NEW i \in 1..n PROVE Upto(i) = 1..i
  <2>1. ASSUME NEW j \in 1..n PROVE (s[j].at < s[i].at \/ (s[j].at = s[i].at /\ j <= i)) <=> j <= i
    <3>1. CASE j <= i
      <4>1. s[j].at <= s[i].at
        BY <1>3, <3>1
      <4> QED BY <1>2, <3>1, <4>1
    <3>2. CASE ~(j <= i)
      <4>1. s[i].at <= s[j].at
        BY <1>1, <1>3, <3>2
      <4> QED BY <1>2, <3>2, <4>1
    <3> QED BY <3>1, <3>2
  <2> QED BY <1>1, <2>1
<1>5. ASSUME NEW i \in 1..n PROVE T!Place(s, i) = i
  <2>1. i \in Nat /\ 1 \in Int /\ i \in Int /\ i - 1 + 1 = i
    BY <1>1
  <2>2. Cardinality(1..i) = i
    BY <2>1, FS_Interval
  <2>3. T!Place(s, i) = Cardinality(Upto(i))
    BY DEF T!Place, T!Cardinality, Cardinality
  <2> HIDE DEF Upto
  <2> QED BY <1>4, <2>2, <2>3
<1>6. ASSUME NEW k \in 1..n PROVE T!EventAt(s, k) = s[k]
  <2>1. \E i \in DOMAIN s : T!Place(s, i) = k
    BY <1>1, <1>5
  <2>2. \A i \in DOMAIN s : T!Place(s, i) = k => i = k
    BY <1>1, <1>5
  <2> DEFINE c == CHOOSE i \in DOMAIN s : T!Place(s, i) = k
  <2>3. c = k
    BY <2>1, <2>2
  <2> QED BY <2>3 DEF T!EventAt
<1>7. T!Events(r) = [k \in 1..n |-> T!EventAt(s, k)]
  BY <1>1 DEF T!Events, s
<1>8. T!Events(r) = [k \in 1..n |-> s[k]]
  BY <1>6, <1>7
<1>9. s = [k \in 1..n |-> s[k]]
  BY <1>0, <1>1
<1> QED BY <1>8, <1>9 DEF s

\* The first event of a name that a prefix has is the whole's.
LEMMA FirstInPrefix ==
  ASSUME NEW kept \in Seq(Stamps), NEW given \in Seq(Stamps), NEW name,
         Len(kept) <= Len(given), \A i \in 1..Len(kept) : kept[i] = given[i],
         T!First(kept, name) # {}
  PROVE  T!First(given, name) = T!First(kept, name)
<1> DEFINE F(s) == {i \in DOMAIN s : s[i].name = name /\ \A j \in 1..(i - 1) : s[j].name # name}
<1>1. /\ DOMAIN kept = 1..Len(kept) /\ DOMAIN given = 1..Len(given)
      /\ Len(kept) \in Nat /\ Len(given) \in Nat
  OBVIOUS
<1>2. T!First(kept, name) = {kept[i] : i \in F(kept)} /\ T!First(given, name) = {given[i] : i \in F(given)}
  BY DEF T!First
<1>3. PICK f \in F(kept) : TRUE
  BY <1>2
<1>4. f \in 1..Len(kept) /\ kept[f].name = name /\ \A j \in 1..(f - 1) : kept[j].name # name
  BY <1>1, <1>3
<1>5. f \in F(given)
  <2>1. \A j \in 1..(f - 1) : j \in 1..Len(kept)
    BY <1>1, <1>4
  <2> QED BY <1>1, <1>4, <2>1
<1>6. \A i \in F(kept) : i = f
  BY <1>1, <1>4
<1>7. \A i \in F(given) : i = f
  <2>1. given[f].name = name /\ \A j \in 1..(f - 1) : given[j].name # name
    BY <1>5
  <2> QED BY <1>1, <1>4, <2>1
<1>8. F(kept) = {f} /\ F(given) = {f}
  BY <1>3, <1>5, <1>6, <1>7
<1> HIDE DEF F
<1> QED BY <1>2, <1>4, <1>8

\* The invariant says that a trace is true.
LEMMA BufferInvSuffices == ASSUME TraceInv, BufferInv PROVE T!TraceIsTrue
<1> SUFFICES ASSUME NEW t \in Tracers
             PROVE /\ T!IsPrefix(trace[t].events, delivered[t])
                   /\ Len(trace[t].events) + trace[t].dropped = Len(delivered[t])
                   /\ trace[t].dropped > 0 => Len(trace[t].events) = BufferRecords
                   /\ T!Events(trace[t]) = trace[t].events
                   /\ LET spans == T!Derived(T!Events(trace[t]))
                      IN \A s \in DOMAIN spans : spans[s] = T!Segment(delivered[t], s)
  BY DEF T!TraceIsTrue
<1> DEFINE kept == trace[t].events
           given == delivered[t]
<1>1. trace[t] \in TraceRecord /\ kept \in Seq(Stamps) /\ given \in Seq(Stamps)
  BY DEF TraceInv, TraceTypes, BufferInv, TraceRecord, Stamps
<1>2. KeepsTheFirst(kept, trace[t].dropped, given)
  BY DEF BufferInv
<1>3. T!Events(trace[t]) = kept
  <2>1. \A i, j \in 1..Len(kept) : i <= j => kept[i].at <= kept[j].at
    BY DEF BufferInv, InTime
  <2> QED BY <1>1, <2>1, SortedStay
<1> HIDE DEF kept, given
<1>4. Len(kept) <= Len(given) /\ \A i \in 1..Len(kept) : kept[i] = given[i]
  BY <1>2 DEF KeepsTheFirst
<1>5. T!IsPrefix(kept, given)
  <2>1. SubSeq(kept, 1, Len(kept)) = SubSeq(given, 1, Len(kept))
    BY <1>1, <1>4
  <2> QED BY <1>4, <2>1 DEF T!IsPrefix
<1>6. ASSUME NEW s, T!Segment(kept, s) # {} PROVE T!Segment(given, s) = T!Segment(kept, s)
  <2>1. T!First(kept, s[1]) # {} /\ T!First(kept, s[2]) # {}
    BY <1>6 DEF T!Segment
  <2>2. T!First(given, s[1]) = T!First(kept, s[1]) /\ T!First(given, s[2]) = T!First(kept, s[2])
    BY <1>1, <1>4, <2>1, FirstInPrefix
  <2> QED BY <2>2 DEF T!Segment
<1>7. \A s \in DOMAIN T!Derived(kept) : T!Derived(kept)[s] = T!Segment(given, s)
  BY <1>6 DEF T!Derived
<1> QED BY <1>2, <1>3, <1>5, <1>7 DEF KeepsTheFirst, kept, given

\* A trace is true as far as it goes, for any number of threads and every size of the buffer
\* (trace.rs Trace::push, events, spans).
THEOREM TruthCorrect == T!Spec => []T!TraceIsTrue
<1>1. T!Init => TraceInv /\ BufferInv
  BY TraceStart, BufferStart
<1>2. TraceInv /\ BufferInv /\ [T!Next]_(T!vars) => TraceInv' /\ BufferInv'
  BY TraceStep, BufferStep
<1>3. TraceInv /\ BufferInv => T!TraceIsTrue
  BY BufferInvSuffices
<1> QED BY <1>1, <1>2, <1>3, PTL DEF T!Spec

-----------------------------------------------------------------------------
(* The pool indicator's polls.                                              *)

Over == {"returned", "cancelled", "panicked"}
PollRecord == [of : Datasets, task : {"unborn", "running"} \cup Over, aborted : BOOLEAN,
               start : {"none", "spawned", "recorded", "supervised"},
               sup : {"none", "awaiting", "logged", "done"}]

IsRecorded(i) == poll[i].start \in {"recorded", "supervised"}

\* What the variables hold.
PollTypes ==
    /\ tasks \in [Datasets -> Polls \cup {NoPoll}]
    /\ poll \in [Polls -> PollRecord]
    /\ catalog \in [Datasets -> {"unopened", "open", "closed"}]

\* A poll is started for a dataset that is open, is aborted through its entry alone, and has
\* a supervisor once start is over, which is done only after the poll is.
PollsFollowTheirStart ==
    /\ \A i \in Polls : poll[i].start # "none" => catalog[poll[i].of] # "unopened"
    /\ \A i \in Polls : poll[i].aborted => IsRecorded(i)
    /\ \A i \in Polls : poll[i].sup # "none" => poll[i].start = "supervised"
    /\ \A i \in Polls : poll[i].sup \in {"logged", "done"} => poll[i].task \in Over

\* The poll under a key is that dataset's, was recorded and is not aborted; its supervisor
\* is not done.
EntriesAreCurrent ==
    \A d \in Datasets : tasks[d] # NoPoll =>
        /\ poll[tasks[d]].of = d
        /\ IsRecorded(tasks[d])
        /\ ~poll[tasks[d]].aborted
        /\ poll[tasks[d]].sup # "done"

\* A recorded poll that runs without an abort on its way is under its key.
RunningIsListed ==
    \A i \in Polls : IsRecorded(i) /\ poll[i].task = "running" /\ ~poll[i].aborted => tasks[poll[i].of] = i

\* While its dataset is open, nobody stops a poll but a newer one.
OneIsLeft ==
    \A i \in Polls : IsRecorded(i) /\ catalog[poll[i].of] = "open" =>
        \E j \in Polls : poll[j].of = poll[i].of /\ IsRecorded(j) /\ ~poll[j].aborted

PollInv == PollTypes /\ PollsFollowTheirStart /\ EntriesAreCurrent /\ RunningIsListed /\ OneIsLeft

\* The invariant says that the map is exact.
LEMMA PollInvSuffices == ASSUME PollInv PROVE W!PollMapIsExact
<1> USE PollAssumption DEF PollInv, PollTypes, PollRecord, IsRecorded
<1> DEFINE Recorded(d) == {i \in Polls : poll[i].of = d /\ poll[i].start \in {"recorded", "supervised"}}
<1> SUFFICES ASSUME NEW d \in Datasets
             PROVE /\ \A i \in Recorded(d) : poll[i].task = "running" => poll[i].aborted # (tasks[d] = i)
                   /\ catalog[d] = "open" /\ Recorded(d) # {} => \E i \in Recorded(d) : ~poll[i].aborted
                   /\ tasks[d] # NoPoll => tasks[d] \in Recorded(d) /\ poll[tasks[d]].sup # "done"
    BY DEF W!PollMapIsExact
<1>1. ASSUME NEW i \in Recorded(d), poll[i].task = "running" PROVE poll[i].aborted # (tasks[d] = i)
    <2>1. poll[i].aborted => tasks[d] # i
        BY DEF EntriesAreCurrent
    <2>2. ~poll[i].aborted => tasks[d] = i
        BY <1>1 DEF RunningIsListed
    <2>3. poll[i].aborted \in BOOLEAN
        OBVIOUS
    <2> QED BY <2>1, <2>2, <2>3, Zenon
<1>2. catalog[d] = "open" /\ Recorded(d) # {} => \E i \in Recorded(d) : ~poll[i].aborted
    BY DEF OneIsLeft
<1>3. tasks[d] # NoPoll => tasks[d] \in Recorded(d) /\ poll[tasks[d]].sup # "done"
    BY DEF EntriesAreCurrent
<1> QED BY <1>1, <1>2, <1>3

\* The shell starts with an empty map.
LEMMA PollStart == ASSUME W!Init PROVE PollInv
<1> DEFINE Unborn == {[of |-> d, task |-> "unborn", aborted |-> FALSE, start |-> "none", sup |-> "none"] : d \in Datasets}
<1>0. Unborn \subseteq PollRecord
    <2> SUFFICES ASSUME NEW d \in Datasets
                 PROVE [of |-> d, task |-> "unborn", aborted |-> FALSE, start |-> "none", sup |-> "none"] \in PollRecord
        OBVIOUS
    <2> QED BY DEF PollRecord
<1>1. PollTypes
    <2>1. poll \in [Polls -> Unborn]
        BY DEF W!Init
    <2> HIDE DEF Unborn
    <2> QED BY <1>0, <2>1 DEF W!Init, PollTypes
<1>2. \A i \in Polls : ~poll[i].aborted /\ poll[i].start = "none" /\ poll[i].sup = "none"
    BY DEF W!Init
<1> QED BY <1>1, <1>2 DEF W!Init, PollInv, PollsFollowTheirStart, EntriesAreCurrent, RunningIsListed, OneIsLeft, IsRecorded

\* Every step keeps the invariant.
LEMMA PollStep == ASSUME PollInv, [W!Next]_(W!vars) PROVE PollInv'
<1> USE PollAssumption DEF PollInv, PollTypes, PollRecord, IsRecorded
<1>1. ASSUME NEW d \in Datasets, W!Open(d) \/ W!Close(d) PROVE PollInv'
    <2>1. PollTypes' /\ PollsFollowTheirStart'
        BY <1>1 DEF W!Open, W!Close, PollsFollowTheirStart
    <2>2. EntriesAreCurrent' /\ RunningIsListed'
        BY <1>1 DEF W!Open, W!Close, EntriesAreCurrent, RunningIsListed
    <2>3. OneIsLeft'
        BY <1>1 DEF W!Open, W!Close, OneIsLeft, PollsFollowTheirStart
    <2> QED BY <2>1, <2>2, <2>3
<1>2. ASSUME NEW d \in Datasets, W!Stop(d) PROVE PollInv'
    <2> DEFINE i == tasks[d]
               b == poll[i].aborted \/ poll[i].task = "running"
    <2>0. b \in BOOLEAN /\ (poll[i].task = "running" => b) /\ (poll[i].task # "running" => b = poll[i].aborted)
        <3>1. poll[i].aborted \in BOOLEAN
            BY <1>2 DEF W!Stop
        <3> QED BY <3>1, Zenon
    <2>1. i \in Polls /\ poll[i].of = d /\ IsRecorded(i) /\ catalog[d] = "closed"
        BY <1>2 DEF W!Stop, EntriesAreCurrent
    <2>2. /\ tasks' = [tasks EXCEPT ![d] = NoPoll] /\ catalog' = catalog
          /\ poll' = [poll EXCEPT ![i].aborted = b]
        BY <1>2, <2>1 DEF W!Stop, W!Abort
    <2> HIDE DEF i, b
    <2>3. PollTypes'
        BY <2>0, <2>1, <2>2
    <2>4. PollsFollowTheirStart'
        BY <2>1, <2>2 DEF PollsFollowTheirStart
    <2>5. \A e \in Datasets : e # d /\ tasks[e] # NoPoll => tasks[e] # i
        BY <2>1 DEF EntriesAreCurrent
    <2>6. EntriesAreCurrent'
        BY <2>1, <2>2, <2>5 DEF EntriesAreCurrent
    <2>7. RunningIsListed'
        <3> SUFFICES ASSUME NEW j \in Polls, IsRecorded(j)', poll'[j].task = "running", ~poll'[j].aborted
                     PROVE tasks'[poll'[j].of] = j
            BY DEF RunningIsListed
        <3>1. j # i
            BY <2>0, <2>1, <2>2
        <3>2. tasks[poll[j].of] = j
            BY <2>1, <2>2, <3>1 DEF RunningIsListed
        <3>3. poll[j].of # d
            BY <3>1, <3>2 DEF i
        <3> QED BY <2>1, <2>2, <3>1, <3>2, <3>3
    <2>8. OneIsLeft'
        BY <2>1, <2>2 DEF OneIsLeft
    <2> QED BY <2>3, <2>4, <2>6, <2>7, <2>8
<1>3. ASSUME NEW i \in Polls, W!Spawn(i) PROVE PollInv'
    <2>1. PollTypes' /\ PollsFollowTheirStart'
        BY <1>3 DEF W!Spawn, PollsFollowTheirStart
    <2>2. EntriesAreCurrent' /\ RunningIsListed'
        BY <1>3 DEF W!Spawn, EntriesAreCurrent, RunningIsListed
    <2>3. OneIsLeft'
        BY <1>3 DEF W!Spawn, OneIsLeft
    <2> QED BY <2>1, <2>2, <2>3
<1>4. ASSUME NEW i \in Polls, W!Record(i) PROVE PollInv'
    <2> DEFINE d == poll[i].of
               o == tasks[d]
    <2>1. d \in Datasets /\ poll[i].start = "spawned" /\ ~poll[i].aborted /\ poll[i].sup = "none"
        BY <1>4 DEF W!Record, PollsFollowTheirStart
    <2>2. o # NoPoll => o \in Polls /\ o # i /\ IsRecorded(o) /\ poll[o].of = d
        BY <2>1 DEF EntriesAreCurrent
    <2>3. tasks' = [tasks EXCEPT ![d] = i] /\ catalog' = catalog
        BY <1>4 DEF W!Record
    <2>4. CASE o = NoPoll
        <3>1. poll' = [poll EXCEPT ![i].start = "recorded"]
            BY <1>4, <2>4 DEF W!Record, W!Abort
        <3>2. PollTypes' /\ PollsFollowTheirStart'
            BY <2>1, <2>3, <3>1 DEF PollsFollowTheirStart
        <3>3. EntriesAreCurrent'
            BY <2>1, <2>3, <3>1 DEF EntriesAreCurrent
        <3>4. RunningIsListed'
            BY <2>1, <2>3, <2>4, <3>1 DEF RunningIsListed
        <3>5. OneIsLeft'
            BY <2>1, <2>3, <3>1 DEF OneIsLeft
        <3> QED BY <3>2, <3>3, <3>4, <3>5
    <2>5. CASE o # NoPoll
        <3>0. o \in Polls /\ o # i /\ IsRecorded(o) /\ poll[o].of = d
            BY <2>2, <2>5
        <3> DEFINE b == poll[o].aborted \/ poll[o].task = "running"
        <3>b. b \in BOOLEAN /\ (poll[o].task = "running" => b)
            BY <3>0, Zenon
        <3>1. poll' = [poll EXCEPT ![o].aborted = b, ![i].start = "recorded"]
            BY <1>4, <2>5 DEF W!Record, W!Abort
        <3>2. /\ poll'[o] = [poll[o] EXCEPT !.aborted = b]
              /\ poll'[i] = [poll[i] EXCEPT !.start = "recorded"]
              /\ \A j \in Polls \ {o, i} : poll'[j] = poll[j]
              /\ DOMAIN poll' = Polls
            BY <3>0, <3>1
        <3> HIDE DEF d, o, b
        <3>3. PollTypes'
            BY <2>1, <2>3, <3>0, <3>b, <3>1
        <3>4. PollsFollowTheirStart'
            BY <2>1, <2>3, <3>0, <3>b, <3>2 DEF PollsFollowTheirStart
        <3>5. \A e \in Datasets : e # d /\ tasks[e] # NoPoll => tasks[e] \notin {o, i}
            BY <2>1, <3>0 DEF EntriesAreCurrent, d
        <3>6. EntriesAreCurrent'
            <4> SUFFICES ASSUME NEW e \in Datasets, tasks'[e] # NoPoll
                         PROVE /\ poll'[tasks'[e]].of = e
                               /\ IsRecorded(tasks[e])'
                               /\ ~poll'[tasks'[e]].aborted
                               /\ poll'[tasks'[e]].sup # "done"
                BY DEF EntriesAreCurrent
            <4>1. CASE e = d
                BY <2>1, <2>3, <3>2, <4>1 DEF d
            <4>2. CASE e # d
                BY <2>1, <2>3, <3>2, <3>5, <4>2 DEF EntriesAreCurrent
            <4> QED BY <4>1, <4>2
        <3>7. RunningIsListed'
            <4> SUFFICES ASSUME NEW j \in Polls, IsRecorded(j)', poll'[j].task = "running", ~poll'[j].aborted
                         PROVE tasks'[poll'[j].of] = j
                BY DEF RunningIsListed
            <4>1. j # o
                BY <3>0, <3>b, <3>2
            <4>2. CASE j = i
                BY <2>1, <2>3, <3>2, <4>2 DEF d
            <4>3. CASE j # i
                <5>1. tasks[poll[j].of] = j
                    BY <3>2, <4>1, <4>3 DEF RunningIsListed
                <5>2. poll[j].of # d
                    BY <4>1, <5>1 DEF o
                <5> QED BY <2>1, <2>3, <3>2, <4>1, <4>3, <5>1, <5>2
            <4> QED BY <4>2, <4>3
        <3>8. OneIsLeft'
            <4> SUFFICES ASSUME NEW j \in Polls, IsRecorded(j)', catalog'[poll'[j].of] = "open"
                         PROVE \E k \in Polls : poll'[k].of = poll'[j].of /\ IsRecorded(k)' /\ ~poll'[k].aborted
                BY DEF OneIsLeft
            <4>1. CASE poll[j].of = d
                <5>1. poll'[j].of = d
                    BY <3>0, <3>2, <4>1 DEF d
                <5>2. poll'[i].of = d /\ IsRecorded(i)' /\ ~poll'[i].aborted
                    BY <2>1, <3>2 DEF d
                <5> QED BY <5>1, <5>2
            <4>2. CASE poll[j].of # d
                <5>1. j # i /\ j # o
                    BY <3>0, <4>2 DEF d
                <5>2. PICK k \in Polls : poll[k].of = poll[j].of /\ IsRecorded(k) /\ ~poll[k].aborted
                    BY <2>3, <3>2, <5>1 DEF OneIsLeft
                <5>3. k # i /\ k # o
                    BY <3>0, <4>2, <5>2 DEF d
                <5> QED BY <3>2, <5>1, <5>2, <5>3
            <4> QED BY <4>1, <4>2
        <3> QED BY <3>3, <3>4, <3>6, <3>7, <3>8
    <2> QED BY <2>4, <2>5
<1>5. ASSUME NEW i \in Polls, W!Supervise(i) PROVE PollInv'
    <2>1. PollTypes' /\ PollsFollowTheirStart'
        BY <1>5 DEF W!Supervise, PollsFollowTheirStart
    <2>2. EntriesAreCurrent' /\ RunningIsListed'
        BY <1>5 DEF W!Supervise, EntriesAreCurrent, RunningIsListed
    <2>3. OneIsLeft'
        BY <1>5 DEF W!Supervise, OneIsLeft
    <2> QED BY <2>1, <2>2, <2>3
<1>6. ASSUME NEW i \in Polls, NEW how \in Over, W!Ends(i, how) PROVE PollInv'
    <2>1. PollTypes' /\ PollsFollowTheirStart'
        BY <1>6 DEF W!Ends, PollsFollowTheirStart, Over
    <2>2. EntriesAreCurrent' /\ RunningIsListed'
        BY <1>6 DEF W!Ends, EntriesAreCurrent, RunningIsListed, Over
    <2>3. OneIsLeft'
        BY <1>6 DEF W!Ends, OneIsLeft
    <2> QED BY <2>1, <2>2, <2>3
<1>7. ASSUME NEW i \in Polls, W!Log(i) PROVE PollInv'
    <2>1. PollTypes' /\ PollsFollowTheirStart'
        BY <1>7 DEF W!Log, PollsFollowTheirStart, Over
    <2>2. EntriesAreCurrent' /\ RunningIsListed'
        BY <1>7 DEF W!Log, EntriesAreCurrent, RunningIsListed
    <2>3. OneIsLeft'
        BY <1>7 DEF W!Log, OneIsLeft
    <2> QED BY <2>1, <2>2, <2>3
<1>8. ASSUME NEW i \in Polls, W!ForgetIfCurrent(i) PROVE PollInv'
    \* What leaves the map is over, and no other key names it.
    <2>1. poll[i].task # "running" /\ poll[i].sup = "logged"
        BY <1>8 DEF W!ForgetIfCurrent, PollsFollowTheirStart, Over
    <2>2. \A d \in Datasets : tasks'[d] = IF tasks[d] = i THEN NoPoll ELSE tasks[d]
        BY <1>8 DEF W!ForgetIfCurrent, EntriesAreCurrent
    <2>3. /\ poll' = [poll EXCEPT ![i].sup = "done"] /\ catalog' = catalog
          /\ tasks' \in [Datasets -> Polls \cup {NoPoll}]
        BY <1>8 DEF W!ForgetIfCurrent
    <2>4. PollTypes' /\ PollsFollowTheirStart'
        BY <2>1, <2>3 DEF PollsFollowTheirStart, Over
    <2>5. EntriesAreCurrent'
        BY <2>2, <2>3 DEF EntriesAreCurrent
    <2>6. RunningIsListed'
        BY <2>1, <2>2, <2>3 DEF RunningIsListed
    <2>7. OneIsLeft'
        BY <2>3 DEF OneIsLeft
    <2> QED BY <2>4, <2>5, <2>6, <2>7
<1>9. CASE UNCHANGED W!vars
    BY <1>9 DEF W!vars, PollsFollowTheirStart, EntriesAreCurrent, RunningIsListed, OneIsLeft
<1> QED BY <1>1, <1>2, <1>3, <1>4, <1>5, <1>6, <1>7, <1>8, <1>9 DEF W!Next, Over

\* No poll of the pool indicator is orphaned, no newer poll goes with an older one's end, and no
\* entry outlives its poll's supervisor, for any number of datasets and polls (pool_poll.rs).
THEOREM PollsCorrect == W!Spec => []W!PollMapIsExact
<1>1. W!Init => PollInv
    BY PollStart
<1>2. PollInv /\ [W!Next]_(W!vars) => PollInv'
    BY PollStep
<1>3. PollInv => W!PollMapIsExact
    BY PollInvSuffices
<1> QED BY <1>1, <1>2, <1>3, PTL DEF W!Spec

-----------------------------------------------------------------------------
(* Recursion over a sequence.                                               *)

\* What holds at 0 and is handed on holds of every number; the library's induction takes an
\* operator, this form a set.
LEMMA Induction ==
  ASSUME NEW S, 0 \in S, \A n \in Nat : n \in S => n + 1 \in S
  PROVE  Nat \subseteq S
<1> DEFINE R == {ss \in Nat \X Nat : ss[1] < ss[2]}
           Rest == Nat \ S
<1>1. IsWellFoundedOn(R, Nat)
  BY NatLessThanWellFounded DEF OpToRel
<1> SUFFICES ASSUME Rest # {} PROVE FALSE
  OBVIOUS
<1>2. Rest \subseteq Nat
  OBVIOUS
<1>3. PICK x \in Rest : \A y \in Rest : ~(<<y, x>> \in R)
  <2> HIDE DEF R, Rest
  <2> QED BY <1>1, <1>2, WFMin
<1>4. x - 1 \in Rest /\ <<x - 1, x>> \in R
  <2>1. x # 0 /\ x \in Nat /\ x - 1 \in Nat
    OBVIOUS
  <2>2. x - 1 \notin S
    BY <2>1
  <2> QED BY <2>1, <2>2
<1> QED BY <1>3, <1>4

\* f is what a recursion over 1..n makes of a start and a step.
Runs(f, n, start, step) == f[0] = start /\ \A i \in 1..n : f[i] = step[<<f[i - 1], i>>]

\* A recursion that stays in a set has a result ...
LEMMA RecursionExists ==
  ASSUME NEW S, NEW n \in Nat, NEW start \in S, NEW step \in [S \X (1..n) -> S]
  PROVE  \E f \in [0..n -> S] : Runs(f, n, start, step)
<1> DEFINE Good == {k \in Nat : k <= n => \E f \in [0..k -> S] : Runs(f, k, start, step)}
<1>1. 0 \in Good
  <2>1. [i \in 0..0 |-> start] \in [0..0 -> S] /\ Runs([i \in 0..0 |-> start], 0, start, step)
    BY DEF Runs
  <2> QED BY <2>1
<1>2. ASSUME NEW k \in Nat, k \in Good PROVE k + 1 \in Good
  <2> SUFFICES ASSUME k + 1 <= n PROVE \E f \in [0..(k + 1) -> S] : Runs(f, k + 1, start, step)
    OBVIOUS
  <2>1. PICK f \in [0..k -> S] : Runs(f, k, start, step)
    BY <1>2
  <2>2. f[k] \in S /\ <<f[k], k + 1>> \in S \X (1..n)
    OBVIOUS
  <2>3. step[<<f[k], k + 1>>] \in S
    BY <2>2
  <2> DEFINE g == [i \in 0..(k + 1) |-> IF i = k + 1 THEN step[<<f[k], k + 1>>] ELSE f[i]]
  <2>4. g \in [0..(k + 1) -> S]
    BY <2>3
  <2>5. Runs(g, k + 1, start, step)
    <3>1. g[0] = start
      BY <2>1 DEF Runs
    <3>2. ASSUME NEW i \in 1..(k + 1) PROVE g[i] = step[<<g[i - 1], i>>]
      <4>1. i \in 0..(k + 1) /\ i - 1 \in 0..(k + 1) /\ i - 1 # k + 1
        OBVIOUS
      <4>2. g[i - 1] = f[i - 1]
        BY <4>1
      <4>3. CASE i = k + 1
        BY <4>1, <4>2, <4>3
      <4>4. CASE i # k + 1
        <5>1. i \in 1..k
          BY <4>4
        <5>2. f[i] = step[<<f[i - 1], i>>]
          BY <2>1, <5>1 DEF Runs
        <5> QED BY <4>1, <4>2, <4>4, <5>2
      <4> QED BY <4>3, <4>4
    <3> HIDE DEF g
    <3> QED BY <3>1, <3>2 DEF Runs
  <2> HIDE DEF g
  <2> QED BY <2>4, <2>5
<1> HIDE DEF Good
<1>3. Nat \subseteq Good
  BY <1>1, <1>2, Induction
<1> QED BY <1>3 DEF Good

-----------------------------------------------------------------------------
(* The session history: what recover makes of a file.                       *)

Ids == Call \cup {"none"}
HistoryLine == [kind : {"header", "step", "saved-here", "restored", "garbled"}, id : Ids, parent : Ids,
                len : Nat, lf : BOOLEAN]
ReadChain == [steps : Seq(Ids), last : Ids, parent : Ids, total : Nat, n : Nat, failed : BOOLEAN]

\* Counting a line changes the counts alone.
LEMMA CountedFacts ==
  ASSUME NEW c \in ReadChain, NEW b \in Nat
  PROVE  /\ [c EXCEPT !.n = c.n + 1, !.total = c.total + b] \in ReadChain
         /\ [c EXCEPT !.n = c.n + 1, !.total = c.total + b].steps = c.steps
         /\ [c EXCEPT !.n = c.n + 1, !.total = c.total + b].parent = c.parent
         /\ [c EXCEPT !.n = c.n + 1, !.total = c.total + b].failed = c.failed
         /\ [c EXCEPT !.n = c.n + 1, !.total = c.total + b].n = c.n + 1
         /\ [c EXCEPT !.n = c.n + 1, !.total = c.total + b].total = c.total + b
<1> DEFINE d == [c EXCEPT !.n = c.n + 1, !.total = c.total + b]
<1>1. c.n + 1 \in Nat /\ c.total + b \in Nat
  BY DEF ReadChain
<1>2. d.n = c.n + 1 /\ d.total = c.total + b
  BY DEF ReadChain
<1>3. d.steps = c.steps /\ d.parent = c.parent /\ d.failed = c.failed
  BY DEF ReadChain
<1>4. d \in ReadChain
  BY <1>1 DEF ReadChain
<1> QED BY <1>2, <1>3, <1>4

\* A line that the reader takes, by its kind; one that it does not take changes no step.
LEMMA ReadLineFacts ==
  ASSUME NEW c \in ReadChain, NEW l \in HistoryLine
  PROVE  /\ H!ReadLine(c, l) \in ReadChain
         /\ H!ReadLine(c, l).steps \in {c.steps, Append(c.steps, l.id)}
         /\ ~l.lf => H!ReadLine(c, l).steps = c.steps
         /\ ~c.failed /\ H!FitsTheReader(c, l) =>
              /\ ~H!ReadLine(c, l).failed
              /\ H!ReadLine(c, l).n = c.n + 1
              /\ H!ReadLine(c, l).total = c.total + H!LineBytes(l)
              /\ l.kind = "step" => /\ H!ReadLine(c, l).steps = Append(c.steps, l.id)
                                    /\ H!ReadLine(c, l).parent = l.id
              /\ l.kind = "header" => /\ H!ReadLine(c, l).steps = c.steps
                                      /\ H!ReadLine(c, l).parent = c.parent
<1> USE DEF ReadChain, HistoryLine
<1>1. H!LineBytes(l) \in Nat
  BY DEF H!LineBytes
<1>2. ~l.lf => ~H!FitsTheReader(c, l)
  BY DEF H!FitsTheReader
<1> HIDE DEF H!FitsTheReader, H!LineBytes
<1>3. CASE c.failed
  BY <1>3 DEF H!ReadLine
<1>4. CASE ~c.failed /\ ~H!FitsTheReader(c, l)
  <2>1. H!ReadLine(c, l) = [c EXCEPT !.failed = TRUE]
    BY <1>4 DEF H!ReadLine
  <2> QED BY <1>4, <2>1
<1>5. CASE ~c.failed /\ H!FitsTheReader(c, l)
  <2> DEFINE next == [c EXCEPT !.n = c.n + 1, !.total = c.total + H!LineBytes(l)]
  <2>1. /\ next \in ReadChain /\ next.steps = c.steps /\ next.parent = c.parent /\ ~next.failed
        /\ next.n = c.n + 1 /\ next.total = c.total + H!LineBytes(l)
    BY <1>1, <1>5, CountedFacts
  <2>2. CASE l.kind = "step"
    <3>1. H!ReadLine(c, l) = [next EXCEPT !.steps = Append(c.steps, l.id), !.last = l.id, !.parent = l.id]
      BY <1>5, <2>2 DEF H!ReadLine
    <3>2. Append(c.steps, l.id) \in Seq(Ids)
      OBVIOUS
    <3> HIDE DEF next
    <3> QED BY <1>2, <1>5, <2>1, <2>2, <3>1, <3>2
  <2>3. CASE l.kind = "restored"
    <3>1. H!ReadLine(c, l) = [next EXCEPT !.parent = l.id]
      BY <1>5, <2>3 DEF H!ReadLine
    <3> HIDE DEF next
    <3> QED BY <1>2, <1>5, <2>1, <2>3, <3>1
  <2>4. CASE l.kind \notin {"step", "restored"}
    <3>1. H!ReadLine(c, l) = next
      BY <1>5, <2>4 DEF H!ReadLine
    <3> HIDE DEF next
    <3> QED BY <1>2, <1>5, <2>1, <2>4, <3>1
  <2> QED BY <2>2, <2>3, <2>4
<1> QED BY <1>3, <1>4, <1>5

\* Reading(lines) is the recursion that recover_bytes runs, line after line.
LEMMA ReadingRuns ==
  ASSUME NEW lines \in Seq(HistoryLine)
  PROVE  \E f \in [0..Len(lines) -> ReadChain] :
            /\ f[0] = H!Chain
            /\ \A i \in 1..Len(lines) : f[i] = H!ReadLine(f[i - 1], lines[i])
            /\ H!Reading(lines) = f[Len(lines)]
<1> DEFINE n == Len(lines)
           step == [p \in ReadChain \X (1..n) |-> H!ReadLine(p[1], lines[p[2]])]
           Is(h) == h = [i \in 0..n |-> IF i = 0 THEN H!Chain ELSE H!ReadLine(h[i - 1], lines[i])]
<1>0. n \in Nat /\ \A i \in 1..n : lines[i] \in HistoryLine
  OBVIOUS
<1>1. H!Chain \in ReadChain
  BY DEF H!Chain, ReadChain, Ids
<1>2. step \in [ReadChain \X (1..n) -> ReadChain]
  <2> SUFFICES ASSUME NEW p \in ReadChain \X (1..n) PROVE H!ReadLine(p[1], lines[p[2]]) \in ReadChain
    OBVIOUS
  <2>1. p[1] \in ReadChain /\ lines[p[2]] \in HistoryLine
    BY <1>0
  <2> HIDE DEF n
  <2> QED BY <2>1, ReadLineFacts
<1>3. \A c \in ReadChain, i \in 1..n : step[<<c, i>>] = H!ReadLine(c, lines[i])
  OBVIOUS
<1> HIDE DEF n, step
<1>4. PICK f \in [0..n -> ReadChain] : Runs(f, n, H!Chain, step)
  BY <1>0, <1>1, <1>2, RecursionExists
<1>5. f[0] = H!Chain /\ \A i \in 1..n : f[i] = H!ReadLine(f[i - 1], lines[i])
  <2>1. ASSUME NEW i \in 1..n PROVE f[i] = H!ReadLine(f[i - 1], lines[i])
    <3>1. f[i - 1] \in ReadChain
      BY <1>0
    <3>2. f[i] = step[<<f[i - 1], i>>]
      BY <1>4 DEF Runs
    <3> QED BY <1>3, <3>1, <3>2
  <2> QED BY <1>4, <2>1 DEF Runs
<1>6. Is(f)
  <2> DEFINE g == [i \in 0..n |-> IF i = 0 THEN H!Chain ELSE H!ReadLine(f[i - 1], lines[i])]
  <2>1. \A i \in 0..n : f[i] = g[i]
    BY <1>0, <1>5
  <2> QED BY <2>1
<1>7. ASSUME NEW h, Is(h) PROVE h = f
  <2> DEFINE Good == {k \in Nat : k <= n => h[k] = f[k]}
  <2>0. DOMAIN h = 0..n /\ h = [i \in 0..n |-> h[i]]
    BY <1>7
  <2>1. 0 \in Good
    BY <1>0, <1>5, <1>7
  <2>2. ASSUME NEW k \in Nat, k \in Good PROVE k + 1 \in Good
    <3> SUFFICES ASSUME k + 1 <= n PROVE h[k + 1] = f[k + 1]
      OBVIOUS
    <3>1. h[k] = f[k] /\ k + 1 \in 1..n /\ k + 1 \in 0..n /\ (k + 1) - 1 = k /\ k + 1 # 0
      BY <1>0, <2>2
    <3>2. h[k + 1] = H!ReadLine(h[k], lines[k + 1])
      BY <1>7, <3>1
    <3>3. f[k + 1] = H!ReadLine(f[k], lines[k + 1])
      BY <1>5, <3>1
    <3> QED BY <3>1, <3>2, <3>3
  <2>3. Nat \subseteq Good
    <3> HIDE DEF Good
    <3> QED BY <2>1, <2>2, Induction
  <2>4. \A i \in 0..n : h[i] = f[i]
    BY <1>0, <2>3
  <2> QED BY <2>0, <2>4
<1> HIDE DEF Is
<1>8. (CHOOSE h : Is(h)) = f
  BY <1>6, <1>7
<1>9. H!Reading(lines) = f[n]
  BY <1>8 DEF H!Reading, Is, n
<1> QED BY <1>0, <1>5, <1>9 DEF n

\* An empty file is read as nothing.
LEMMA ReadingNothing == H!Reading(<<>>) = H!Chain
<1>1. <<>> \in Seq(HistoryLine) /\ Len(<<>>) = 0
  OBVIOUS
<1> QED BY <1>1, ReadingRuns

\* One line more is one step of the reader more.
LEMMA ReadingOneMore ==
  ASSUME NEW lines \in Seq(HistoryLine), NEW line \in HistoryLine
  PROVE  /\ H!Reading(lines) \in ReadChain
         /\ H!Reading(Append(lines, line)) = H!ReadLine(H!Reading(lines), line)
<1> DEFINE more == Append(lines, line)
           n == Len(lines)
<1>1. /\ more \in Seq(HistoryLine) /\ n \in Nat /\ Len(more) = n + 1 /\ more[n + 1] = line
      /\ \A i \in 1..n : more[i] = lines[i]
  OBVIOUS
<1>2. PICK f \in [0..n -> ReadChain] :
            /\ f[0] = H!Chain
            /\ \A i \in 1..n : f[i] = H!ReadLine(f[i - 1], lines[i])
            /\ H!Reading(lines) = f[n]
  BY ReadingRuns
<1> HIDE DEF more, n
<1>3. PICK g \in [0..Len(more) -> ReadChain] :
            /\ g[0] = H!Chain
            /\ \A i \in 1..Len(more) : g[i] = H!ReadLine(g[i - 1], more[i])
            /\ H!Reading(more) = g[Len(more)]
  BY <1>1, ReadingRuns
<1>4. g[n] = f[n]
  <2> DEFINE Good == {k \in Nat : k <= n => g[k] = f[k]}
  <2>1. 0 \in Good
    BY <1>2, <1>3
  <2>2. ASSUME NEW k \in Nat, k \in Good PROVE k + 1 \in Good
    <3> SUFFICES ASSUME k + 1 <= n PROVE g[k + 1] = f[k + 1]
      OBVIOUS
    <3>1. g[k] = f[k] /\ k + 1 \in 1..n /\ k + 1 \in 1..Len(more) /\ (k + 1) - 1 = k
      BY <1>1, <2>2
    <3>2. g[k + 1] = H!ReadLine(g[k], more[k + 1])
      BY <1>3, <3>1
    <3>3. f[k + 1] = H!ReadLine(f[k], lines[k + 1])
      BY <1>2, <3>1
    <3> QED BY <1>1, <3>1, <3>2, <3>3
  <2>3. Nat \subseteq Good
    <3> HIDE DEF Good
    <3> QED BY <2>1, <2>2, Induction
  <2> QED BY <1>1, <2>3
<1>5. H!Reading(more) = H!ReadLine(g[n], line)
  <2>1. n + 1 \in 1..Len(more) /\ (n + 1) - 1 = n
    BY <1>1
  <2> QED BY <1>1, <1>3, <2>1
<1>6. f[n] \in ReadChain
  BY <1>1
<1> QED BY <1>2, <1>4, <1>5, <1>6 DEF more

-----------------------------------------------------------------------------
(* The session history: what an append does to a file, whole or cut off.    *)

\* A file whose reading accounts for the steps that were answered Ok.
Accounted(lines, steps) ==
  /\ H!IsPrefix(steps, H!Reading(lines).steps)
  /\ Len(H!Reading(lines).steps) <= Len(steps) + 1
  /\ H!Reading(lines).failed => lines = <<>> \/ ~H!Last(lines).lf

\* A file that can be appended to: its lines are whole and chain.
Appendable(lines, last, bytes) ==
  /\ lines # <<>> /\ H!Last(lines).lf
  /\ ~H!Reading(lines).failed /\ H!Reading(lines).n > 0
  /\ H!Reading(lines).parent = last
  /\ H!Reading(lines).total = bytes

\* A sequence begins itself, and one that is longer by an element.
LEMMA PrefixFacts ==
  ASSUME NEW X, NEW s \in Seq(X), NEW x
  PROVE  H!IsPrefix(s, s) /\ H!IsPrefix(s, Append(s, x)) /\ H!IsPrefix(<<>>, s)
<1>1. H!IsPrefix(s, s)
  BY DEF H!IsPrefix
<1>2. H!IsPrefix(s, Append(s, x))
  <2>1. Len(s) \in Nat /\ Len(Append(s, x)) = Len(s) + 1
    OBVIOUS
  <2>2. SubSeq(s, 1, Len(s)) = SubSeq(Append(s, x), 1, Len(s))
    OBVIOUS
  <2> QED BY <2>1, <2>2 DEF H!IsPrefix
<1>3. H!IsPrefix(<<>>, s)
  <2>1. Len(<<>>) = 0 /\ Len(s) \in Nat
    OBVIOUS
  <2>2. SubSeq(<<>>, 1, 0) = SubSeq(s, 1, 0)
    OBVIOUS
  <2> QED BY <2>1, <2>2 DEF H!IsPrefix
<1> QED BY <1>1, <1>2, <1>3

\* What a line is and what is left of it when it is cut off.
LEMMA LineFacts ==
  ASSUME NEW line \in HistoryLine
  PROVE  /\ [line EXCEPT !.lf = FALSE] \in HistoryLine
         /\ ~[line EXCEPT !.lf = FALSE].lf
         /\ [line EXCEPT !.kind = "garbled", !.len = 1, !.lf = FALSE] \in HistoryLine
         /\ ~[line EXCEPT !.kind = "garbled", !.len = 1, !.lf = FALSE].lf
<1>1. [line EXCEPT !.lf = FALSE] \in HistoryLine /\ ~[line EXCEPT !.lf = FALSE].lf
  BY DEF HistoryLine
<1>2. [line EXCEPT !.kind = "garbled", !.len = 1, !.lf = FALSE] \in HistoryLine
  BY DEF HistoryLine
<1>3. ~[line EXCEPT !.kind = "garbled", !.len = 1, !.lf = FALSE].lf
  BY DEF HistoryLine
<1> QED BY <1>1, <1>2, <1>3

\* A header or step line is a line; its length counts its LF.
LEMMA WholeLines ==
  /\ H!Header \in HistoryLine /\ H!Header.lf /\ H!Header.kind = "header"
  /\ H!Header.len = HeaderLen /\ H!LineBytes(H!Header) = HeaderLen + 1
  /\ \A c \in Call, last \in Ids, len \in Nat :
        LET line == H!Step(c, last, len)
        IN /\ line \in HistoryLine /\ line.lf /\ line.kind = "step" /\ line.id = c
           /\ line.parent = last /\ line.len = len /\ H!LineBytes(line) = len + 1
BY HistoryAssumption DEF H!Header, H!Step, HistoryLine, H!LineBytes, Ids

\* After a line with its LF, one more is appended.
LEMMA WriteAllAppends ==
  ASSUME NEW lines \in Seq(HistoryLine), NEW line \in HistoryLine,
         lines = <<>> \/ H!Last(lines).lf
  PROVE  /\ H!WriteAll(lines, line) = Append(lines, line)
         /\ Append(lines, line) \in Seq(HistoryLine)
         /\ Append(lines, line) # <<>>
         /\ H!Last(Append(lines, line)) = line
BY DEF H!WriteAll, H!Last

\* A line without its LF is read as broken and as no step.
LEMMA TornLine ==
  ASSUME NEW lines \in Seq(HistoryLine), NEW line \in HistoryLine, ~line.lf
  PROVE  H!Reading(Append(lines, line)).steps = H!Reading(lines).steps
BY ReadingOneMore, ReadLineFacts

\* What is left by a write that was cut off accounts for the steps as well, and for one more at
\* most: the line that is there whole.
LEMMA CutOff ==
  ASSUME NEW lines \in Seq(HistoryLine), NEW line \in HistoryLine,
         lines = <<>> \/ H!Last(lines).lf,
         H!Reading(lines).failed => lines = <<>>,
         line.lf, ~H!Reading(Append(lines, line)).failed,
         NEW new \in H!Written(lines, line)
  PROVE  /\ new \in Seq(HistoryLine)
         /\ H!IsPrefix(H!Reading(lines).steps, H!Reading(new).steps)
         /\ Accounted(new, H!Reading(lines).steps)
<1> DEFINE steps == H!Reading(lines).steps
           torn == [line EXCEPT !.lf = FALSE]
           part == [line EXCEPT !.kind = "garbled", !.len = 1, !.lf = FALSE]
<1>1. steps \in Seq(Ids)
  BY ReadingOneMore DEF ReadChain
<1>2. H!IsPrefix(steps, steps) /\ Len(steps) <= Len(steps) + 1
  BY <1>1, PrefixFacts
<1>3. torn \in HistoryLine /\ ~torn.lf /\ part \in HistoryLine /\ ~part.lf
  BY LineFacts
<1> HIDE DEF torn, part, steps
<1>4. new \in {lines, Append(lines, line), Append(lines, torn), Append(lines, part)}
  BY <1>3, WriteAllAppends DEF H!Written, torn, part
<1>5. CASE new = lines
  BY <1>2, <1>5 DEF Accounted, steps
<1>6. CASE new = Append(lines, line)
  <2>1. H!Reading(new) = H!ReadLine(H!Reading(lines), line) /\ H!Reading(lines) \in ReadChain
    BY <1>6, ReadingOneMore
  <2>2. H!Reading(new).steps \in {steps, Append(steps, line.id)}
    BY <2>1, ReadLineFacts DEF steps
  <2>3. Len(Append(steps, line.id)) = Len(steps) + 1 /\ H!IsPrefix(steps, Append(steps, line.id))
    BY <1>1, PrefixFacts
  <2>4. new \in Seq(HistoryLine)
    BY <1>6
  <2>5. H!IsPrefix(steps, H!Reading(new).steps) /\ Len(H!Reading(new).steps) <= Len(steps) + 1
    <3> DEFINE read == H!Reading(new).steps
               longer == Append(steps, line.id)
    <3>1. Len(steps) \in Nat /\ read \in {steps, longer} /\ Len(longer) = Len(steps) + 1
      BY <1>1, <2>2, <2>3
    <3>2. H!IsPrefix(steps, longer)
      BY <2>3
    <3> HIDE DEF read, longer
    <3>3. CASE read = steps
      BY <1>2, <3>3 DEF read
    <3>4. CASE read = longer
      BY <3>1, <3>2, <3>4 DEF read
    <3> QED BY <3>1, <3>3, <3>4
  <2>6. Accounted(new, steps)
    BY <1>6, <2>5 DEF Accounted
  <2> QED BY <2>4, <2>5, <2>6 DEF steps
<1>7. ASSUME NEW l \in {torn, part}, new = Append(lines, l)
      PROVE  /\ new \in Seq(HistoryLine)
             /\ H!IsPrefix(steps, H!Reading(new).steps)
             /\ Accounted(new, steps)
  <2>1. l \in HistoryLine /\ ~l.lf
    BY <1>3, <1>7
  <2>2. H!Reading(new).steps = steps
    BY <1>7, <2>1, TornLine DEF steps
  <2>3. new \in Seq(HistoryLine) /\ H!Last(new) = l
    BY <1>7, <2>1 DEF H!Last
  <2> QED BY <1>2, <2>1, <2>2, <2>3 DEF Accounted
<1> QED BY <1>4, <1>5, <1>6, <1>7 DEF steps

\* A step that the ceilings admit is appended and read as the next one of the chain.
LEMMA StepAppended ==
  ASSUME NEW lines \in Seq(HistoryLine), NEW c \in Call, NEW last \in Ids, NEW len \in Nat,
         NEW bytes \in Nat, Appendable(lines, last, bytes),
         len <= MaxStepLine, bytes + len + 1 <= MaxHistoryBytes
  PROVE  LET more == Append(lines, H!Step(c, last, len))
         IN /\ H!WriteAll(lines, H!Step(c, last, len)) = more
            /\ more \in Seq(HistoryLine)
            /\ Appendable(more, c, bytes + len + 1)
            /\ H!Reading(more).steps = Append(H!Reading(lines).steps, c)
<1> DEFINE line == H!Step(c, last, len)
           more == Append(lines, line)
           C == H!Reading(lines)
<1>1. /\ line \in HistoryLine /\ line.lf /\ line.kind = "step" /\ line.id = c
      /\ line.parent = last /\ line.len = len /\ H!LineBytes(line) = len + 1
  BY WholeLines
<1> HIDE DEF line
<1>2. /\ H!WriteAll(lines, line) = more /\ more \in Seq(HistoryLine) /\ more # <<>>
      /\ H!Last(more) = line
  BY <1>1, WriteAllAppends DEF Appendable
<1>3. C \in ReadChain /\ H!Reading(more) = H!ReadLine(C, line)
  BY <1>1, ReadingOneMore
<1>4. ~C.failed /\ C.n > 0 /\ C.parent = last /\ C.total = bytes
  BY DEF Appendable
<1> HIDE DEF C
<1>5. C.n \in Nat
  BY <1>3 DEF ReadChain
<1>6. H!FitsTheReader(C, line)
  BY <1>1, <1>4, <1>5 DEF H!FitsTheReader
<1>7. /\ ~H!ReadLine(C, line).failed
      /\ H!ReadLine(C, line).n = C.n + 1
      /\ H!ReadLine(C, line).total = C.total + H!LineBytes(line)
      /\ H!ReadLine(C, line).steps = Append(C.steps, line.id)
      /\ H!ReadLine(C, line).parent = line.id
  BY <1>1, <1>3, <1>4, <1>6, ReadLineFacts
<1>8. C.n + 1 > 0 /\ C.total + (len + 1) = bytes + len + 1
  BY <1>4, <1>5
<1>9. Appendable(more, c, bytes + len + 1)
  BY <1>1, <1>2, <1>3, <1>7, <1>8 DEF Appendable
<1> QED BY <1>1, <1>2, <1>3, <1>7, <1>9 DEF line, C

\* A new history's header is read, and nothing else is there.
LEMMA HeaderWritten ==
  /\ <<H!Header>> = Append(<<>>, H!Header)
  /\ Appendable(<<H!Header>>, "none", HeaderLen + 1)
  /\ H!Reading(<<H!Header>>).steps = <<>>
<1>1. /\ H!Header \in HistoryLine /\ H!Header.lf /\ H!Header.kind = "header"
      /\ H!Header.len = HeaderLen /\ H!LineBytes(H!Header) = HeaderLen + 1
  BY WholeLines
<1> DEFINE line == H!Header
<1>2. <<>> \in Seq(HistoryLine) /\ <<line>> = Append(<<>>, line)
  OBVIOUS
<1> HIDE DEF line
<1>3. H!Reading(<<line>>) = H!ReadLine(H!Chain, line) /\ H!Chain \in ReadChain
  BY <1>1, <1>2, ReadingOneMore, ReadingNothing DEF line
<1>4. /\ H!Chain.n = 0 /\ H!Chain.total = 0 /\ ~H!Chain.failed /\ H!Chain.steps = <<>>
      /\ H!Chain.parent = "none"
  BY DEF H!Chain
<1>5. H!FitsTheReader(H!Chain, line)
  BY <1>1, <1>4, HistoryAssumption DEF H!FitsTheReader, line
<1>6. /\ ~H!ReadLine(H!Chain, line).failed
      /\ H!ReadLine(H!Chain, line).n = H!Chain.n + 1
      /\ H!ReadLine(H!Chain, line).total = H!Chain.total + H!LineBytes(line)
      /\ H!ReadLine(H!Chain, line).steps = H!Chain.steps
      /\ H!ReadLine(H!Chain, line).parent = H!Chain.parent
  BY <1>1, <1>3, <1>4, <1>5, ReadLineFacts DEF line
<1>7. <<line>> # <<>> /\ H!Last(<<line>>) = line
  BY DEF H!Last
<1>8. Appendable(<<line>>, "none", HeaderLen + 1)
  BY <1>1, <1>3, <1>4, <1>6, <1>7, HistoryAssumption DEF Appendable, line
<1> QED BY <1>2, <1>3, <1>4, <1>6, <1>8 DEF line

-----------------------------------------------------------------------------
(* The session history: its invariant.                                      *)

HistoryRecord == [file : Nat, key : Key \cup {"none"}, last : Ids, bytes : Nat, stopped : BOOLEAN]
HistoryFile == [there : BOOLEAN, run : Nat, lines : Seq(HistoryLine)]

\* What the variables hold.
HistoryTypes ==
  /\ open \in Key \cup {"none"}
  /\ key \in [Call -> Key \cup {"none"}]
  /\ pc \in [Call -> {"idle", "checked", "writing", "ended"}]
  /\ records \subseteq HistoryRecord
  /\ files \in Seq(HistoryFile)
  /\ acked \in Seq(Seq(Ids))
  /\ run \in Nat

\* A record is its run's and has a file of its own.
RecordsHaveFiles ==
  /\ Len(acked) = Len(files)
  /\ \A r \in records : r.file \in 1..Len(files) /\ files[r.file].run = run
  /\ \A r, s \in records : r.file = s.file => r = s

\* A process that is down has no record and no call.
DownIsDown == phase = "down" => records = {} /\ \A c \in Call : pc[c] \in {"idle", "ended"}

\* A history that has not stopped can be appended to, and was answered Ok for all it holds.
RecordsAreCurrent ==
  \A r \in records : ~r.stopped =>
    /\ Appendable(files[r.file].lines, r.last, r.bytes)
    /\ H!Reading(files[r.file].lines).steps = acked[r.file]

FilesAreAccounted == \A f \in 1..Len(files) : Accounted(files[f].lines, acked[f])

HistoryInv == HistoryTypes /\ RecordsHaveFiles /\ DownIsDown /\ RecordsAreCurrent /\ FilesAreAccounted

\* What a step may do to the histories.
Grows ==
  \A f \in DOMAIN files : files[f].there =>
      \/ files'[f] = files[f]
      \/ files'[f].there /\ H!IsPrefix(H!Steps(f), H!Steps(f)')
      \/ files[f].run = run /\ phase' = "ending"

\* The invariant says that a history is recovered as it was recorded.
LEMMA HistoryInvSuffices == ASSUME HistoryInv PROVE H!RecoveredIsRecorded
<1> SUFFICES ASSUME NEW f \in DOMAIN files, files[f].there
             PROVE LET read == H!Recover(files[f].lines) IN
                   /\ H!IsPrefix(acked[f], read.steps)
                   /\ Len(read.steps) <= Len(acked[f]) + 1
                   /\ read.failed => (files[f].lines = <<>> \/ ~H!Last(files[f].lines).lf)
                   /\ \A r \in records : r.file = f /\ ~r.stopped => read.steps = acked[f]
  BY DEF H!RecoveredIsRecorded
<1> DEFINE read == H!Recover(files[f].lines)
<1>1. /\ read.steps = H!Reading(files[f].lines).steps
      /\ read.failed => H!Reading(files[f].lines).failed \/ files[f].lines = <<>>
  BY DEF H!Recover
<1>2. f \in 1..Len(files)
  BY DEF HistoryInv, HistoryTypes
<1>3. Accounted(files[f].lines, acked[f])
  BY <1>2 DEF HistoryInv, FilesAreAccounted
<1>4. ASSUME NEW r \in records, r.file = f /\ ~r.stopped PROVE read.steps = acked[f]
  BY <1>1, <1>4 DEF HistoryInv, RecordsAreCurrent
<1> HIDE DEF read
<1> QED BY <1>1, <1>3, <1>4 DEF Accounted, read

\* A first start finds no history.
LEMMA HistoryStart == ASSUME H!Init PROVE HistoryInv
BY DEF H!Init, HistoryInv, HistoryTypes, RecordsHaveFiles, DownIsDown, RecordsAreCurrent, FilesAreAccounted

\* A file that gets other lines keeps the rest; the other files are not touched.
LEMMA SetLinesFacts ==
  ASSUME HistoryTypes, NEW r \in records, r.file \in 1..Len(files), NEW new \in Seq(HistoryLine),
         H!SetLines(r, new)
  PROVE  /\ files' \in Seq(HistoryFile) /\ Len(files') = Len(files)
         /\ files'[r.file].lines = new /\ files'[r.file].there = files[r.file].there
         /\ files'[r.file].run = files[r.file].run
         /\ \A f \in 1..Len(files) : f # r.file => files'[f] = files[f]
<1> DEFINE at == r.file
<1>0. files \in Seq(HistoryFile) /\ at \in 1..Len(files) /\ files[at] \in HistoryFile
  BY DEF HistoryTypes
<1>1. files' = [files EXCEPT ![at] = [files[at] EXCEPT !.lines = new]]
  BY DEF H!SetLines
<1>2. LET file == [files[at] EXCEPT !.lines = new]
      IN file \in HistoryFile /\ file.lines = new /\ file.there = files[at].there /\ file.run = files[at].run
  BY <1>0 DEF HistoryFile
<1> HIDE DEF at
<1> QED BY <1>0, <1>1, <1>2 DEF at

\* A step of a record whose call may write: the line fits the ceilings.
LEMMA NotRefused ==
  ASSUME HistoryInv, NEW r \in records, NEW len \in StepLens, ~H!Refuses(r, len)
  PROVE  /\ len \in Nat /\ r \in HistoryRecord /\ r.file \in 1..Len(files) /\ r.last \in Ids /\ r.bytes \in Nat
         /\ ~r.stopped /\ len <= MaxStepLine /\ r.bytes + len + 1 <= MaxHistoryBytes
         /\ files[r.file].lines \in Seq(HistoryLine)
         /\ Appendable(files[r.file].lines, r.last, r.bytes)
         /\ H!Reading(files[r.file].lines).steps = acked[r.file]
<1>1. /\ len \in Nat /\ r \in HistoryRecord /\ r.file \in 1..Len(files) /\ ~r.stopped
      /\ MaxStepLine \in Nat /\ MaxHistoryBytes \in Nat
  BY HistoryAssumption DEF H!Refuses, HistoryInv, HistoryTypes, RecordsHaveFiles
<1>2. r.last \in Ids /\ r.bytes \in Nat
  BY <1>1 DEF HistoryRecord
<1>3. len <= MaxStepLine /\ r.bytes + len + 1 <= MaxHistoryBytes
  BY <1>1, <1>2 DEF H!Refuses
<1>4. files[r.file] \in HistoryFile
  BY <1>1 DEF HistoryInv, HistoryTypes
<1>5. files[r.file].lines \in Seq(HistoryLine)
  BY <1>4 DEF HistoryFile
<1>6. Appendable(files[r.file].lines, r.last, r.bytes) /\ H!Reading(files[r.file].lines).steps = acked[r.file]
  BY <1>1 DEF HistoryInv, RecordsAreCurrent
<1> QED BY <1>1, <1>2, <1>3, <1>5, <1>6

\* A write of a step that was cut off, by a failure or by the end of the process, leaves the file
\* accounted for and takes no step from it.
LEMMA CutOffStep ==
  ASSUME HistoryInv, NEW c \in Call, NEW r \in records, NEW len \in StepLens, ~H!Refuses(r, len),
         NEW new \in H!Written(files[r.file].lines, H!Step(c, r.last, len)), H!SetLines(r, new)
  PROVE  /\ files' \in Seq(HistoryFile) /\ Len(files') = Len(files)
         /\ \A f \in 1..Len(files) : f # r.file => files'[f] = files[f]
         /\ files'[r.file].run = files[r.file].run
         /\ Accounted(files'[r.file].lines, acked[r.file])
         /\ Grows
<1> DEFINE lines == files[r.file].lines
           line == H!Step(c, r.last, len)
<1>1. /\ len \in Nat /\ r.file \in 1..Len(files) /\ r.last \in Ids /\ r.bytes \in Nat
      /\ len <= MaxStepLine /\ r.bytes + len + 1 <= MaxHistoryBytes
      /\ lines \in Seq(HistoryLine) /\ Appendable(lines, r.last, r.bytes)
      /\ H!Reading(lines).steps = acked[r.file]
  BY NotRefused
<1>2. line \in HistoryLine /\ line.lf
  BY <1>1, WholeLines
<1>3. Appendable(Append(lines, line), c, r.bytes + len + 1)
  <2> HIDE DEF lines
  <2> QED BY <1>1, StepAppended
<1> HIDE DEF lines, line
<1>4. ~H!Reading(Append(lines, line)).failed
  BY <1>3 DEF Appendable
<1>5. /\ lines = <<>> \/ H!Last(lines).lf
      /\ H!Reading(lines).failed => lines = <<>>
  BY <1>1 DEF Appendable
<1>6. /\ new \in Seq(HistoryLine)
      /\ H!IsPrefix(H!Reading(lines).steps, H!Reading(new).steps)
      /\ Accounted(new, H!Reading(lines).steps)
  <2>1. new \in H!Written(lines, line)
    BY DEF lines, line
  <2> QED BY <1>1, <1>2, <1>4, <1>5, <2>1, CutOff
<1>7. /\ files' \in Seq(HistoryFile) /\ Len(files') = Len(files)
      /\ files'[r.file].lines = new /\ files'[r.file].there = files[r.file].there
      /\ files'[r.file].run = files[r.file].run
      /\ \A f \in 1..Len(files) : f # r.file => files'[f] = files[f]
  BY <1>1, <1>6, SetLinesFacts DEF HistoryInv
<1>8. H!Steps(r.file) = H!Reading(lines).steps /\ H!Steps(r.file)' = H!Reading(new).steps
  BY <1>7 DEF H!Steps, H!Recover, lines
<1>9. Grows
  <2> SUFFICES ASSUME NEW f \in DOMAIN files, files[f].there
               PROVE  \/ files'[f] = files[f]
                      \/ files'[f].there /\ H!IsPrefix(H!Steps(f), H!Steps(f)')
    BY DEF Grows
  <2>1. CASE f = r.file
    BY <1>6, <1>7, <1>8, <2>1
  <2>2. CASE f # r.file
    <3>1. f \in 1..Len(files)
      BY DEF HistoryInv, HistoryTypes
    <3> QED BY <1>7, <2>2, <3>1
  <2> QED BY <2>1, <2>2
<1> QED BY <1>1, <1>6, <1>7, <1>9

\* Every step of the session history keeps the invariant and lets a history only grow.
LEMMA HistoryStep == ASSUME HistoryInv, [H!Next]_(H!vars) PROVE HistoryInv' /\ Grows
<1> DEFINE Same == UNCHANGED <<records, files, acked, run>>
\* What most steps leave alone.
<1>0. ASSUME Same, open' \in Key \cup {"none"}, key' \in [Call -> Key \cup {"none"}],
             pc' \in [Call -> {"idle", "checked", "writing", "ended"}], DownIsDown'
      PROVE  HistoryInv' /\ Grows
  <2>1. HistoryTypes'
    BY <1>0 DEF HistoryInv, HistoryTypes
  <2>2. RecordsHaveFiles'
    BY <1>0 DEF HistoryInv, RecordsHaveFiles
  <2>3. RecordsAreCurrent' /\ FilesAreAccounted'
    BY <1>0 DEF HistoryInv, RecordsAreCurrent, FilesAreAccounted
  <2>4. Grows
    BY <1>0 DEF Grows
  <2> QED BY <1>0, <2>1, <2>2, <2>3, <2>4 DEF HistoryInv
<1> HIDE DEF Same
<1>t. /\ open \in Key \cup {"none"} /\ key \in [Call -> Key \cup {"none"}]
      /\ pc \in [Call -> {"idle", "checked", "writing", "ended"}]
      /\ records \subseteq HistoryRecord /\ files \in Seq(HistoryFile) /\ acked \in Seq(Seq(Ids)) /\ run \in Nat
  BY DEF HistoryInv, HistoryTypes
<1>1. ASSUME NEW k \in Key, H!Reopen(k) PROVE HistoryInv' /\ Grows
  <2>1. Same /\ open' \in Key \cup {"none"} /\ key' = key /\ pc' = pc /\ DownIsDown'
    BY <1>1 DEF H!Reopen, H!Alive, Same, DownIsDown
  <2> QED BY <1>0, <1>t, <2>1
<1>2. ASSUME NEW c \in Call, H!Check(c) PROVE HistoryInv' /\ Grows
  <2>1. Same /\ open' = open /\ DownIsDown'
    BY <1>2 DEF H!Check, Same, DownIsDown
  <2>2. key' \in [Call -> Key \cup {"none"}] /\ pc' \in [Call -> {"idle", "checked", "writing", "ended"}]
    BY <1>2, <1>t DEF H!Check, H!Goto
  <2> QED BY <1>0, <1>t, <2>1, <2>2
<1>3. ASSUME NEW c \in Call, H!Create(c) PROVE HistoryInv' /\ Grows
  <2>1. PICK new \in HistoryFile :
           /\ files' = Append(files, new) /\ new.run = run
           /\ Accounted(new.lines, <<>>)
           /\ \/ /\ new.lines = <<H!Header>>
                 /\ records' = records \cup {[file |-> Len(files) + 1, key |-> key[c], last |-> "none",
                                              bytes |-> HeaderLen + 1, stopped |-> FALSE]}
              \/ records' = records
    <3>1. /\ H!Header \in HistoryLine /\ H!Header.lf /\ <<>> \in Seq(HistoryLine)
          /\ <<H!Header>> = Append(<<>>, H!Header)
      BY WholeLines
    <3>2. /\ ~H!Reading(<<H!Header>>).failed /\ H!Reading(<<H!Header>>).steps = <<>>
          /\ H!Reading(<<>>).steps = <<>>
      BY HeaderWritten, ReadingNothing DEF Appendable, H!Chain
    <3>3. \A lines \in H!Written(<<>>, H!Header) : lines \in Seq(HistoryLine) /\ Accounted(lines, <<>>)
      <4> DEFINE none == <<>>
      <4>1. none \in Seq(HistoryLine) /\ H!Reading(none).steps = <<>> /\ ~H!Reading(Append(none, H!Header)).failed
        BY <3>1, <3>2
      <4>2. none = <<>>
        OBVIOUS
      <4> HIDE DEF none
      <4> QED BY <3>1, <4>1, <4>2, CutOff
    <3>4. Accounted(<<H!Header>>, <<>>)
      <4>1. <<H!Header>> \in H!Written(<<>>, H!Header)
        BY <3>1 DEF H!Written, H!WriteAll
      <4> QED BY <3>3, <4>1
    <3>5. CASE /\ files' = Append(files, [there |-> TRUE, run |-> run, lines |-> <<H!Header>>])
               /\ records' = records \cup {[file |-> Len(files) + 1, key |-> key[c], last |-> "none",
                                            bytes |-> HeaderLen + 1, stopped |-> FALSE]}
      <4> DEFINE new == [there |-> TRUE, run |-> run, lines |-> <<H!Header>>]
      <4>1. new \in HistoryFile /\ new.run = run /\ new.lines = <<H!Header>>
        BY <1>t, <3>1 DEF HistoryFile
      <4> HIDE DEF new
      <4> QED BY <3>4, <3>5, <4>1 DEF new
    <3>6. ASSUME NEW removed \in BOOLEAN, NEW lines \in H!Written(<<>>, H!Header),
                 files' = Append(files, [there |-> ~removed, run |-> run, lines |-> lines]), records' = records
          PROVE  \E new \in HistoryFile : /\ files' = Append(files, new) /\ new.run = run
                                          /\ Accounted(new.lines, <<>>) /\ records' = records
      <4> DEFINE new == [there |-> ~removed, run |-> run, lines |-> lines]
      <4>1. lines \in Seq(HistoryLine) /\ Accounted(lines, <<>>)
        BY <3>3
      <4>2. new \in HistoryFile /\ new.run = run /\ new.lines = lines
        BY <1>t, <4>1 DEF HistoryFile
      <4>3. files' = Append(files, new)
        BY <3>6
      <4> HIDE DEF new
      <4> QED BY <3>6, <4>1, <4>2, <4>3
    <3> QED BY <1>3, <3>5, <3>6 DEF H!Create
  <2>2. /\ acked' = Append(acked, <<>>) /\ UNCHANGED <<open, phase, run>>
        /\ key' \in [Call -> Key \cup {"none"}] /\ pc' \in [Call -> {"idle", "checked", "writing", "ended"}]
        /\ DownIsDown' /\ phase # "down"
    <3>1. phase # "down"
      BY <1>3 DEF H!Create, HistoryInv, DownIsDown
    <3> QED BY <1>3, <1>t, <3>1 DEF H!Create, H!Leave, H!Goto, DownIsDown
  <2> DEFINE n == Len(files)
  <2>3. /\ files' \in Seq(HistoryFile) /\ Len(files') = n + 1 /\ n \in Nat /\ files'[n + 1] = new
        /\ \A f \in 1..n : files'[f] = files[f]
    BY <1>t, <2>1
  <2>4. /\ acked' \in Seq(Seq(Ids)) /\ Len(acked') = n + 1 /\ acked'[n + 1] = <<>>
        /\ \A f \in 1..n : acked'[f] = acked[f]
    <3>1. <<>> \in Seq(Ids) /\ Len(acked) = n
      BY DEF HistoryInv, RecordsHaveFiles
    <3> QED BY <1>t, <2>2, <3>1
  <2> HIDE DEF n
  <2>5. Grows
    <3> SUFFICES ASSUME NEW f \in DOMAIN files PROVE files'[f] = files[f]
      BY DEF Grows
    <3>1. f \in 1..n
      BY <1>t DEF n
    <3> QED BY <2>3, <3>1
  <2>6. FilesAreAccounted'
    <3> SUFFICES ASSUME NEW f \in 1..(n + 1) PROVE Accounted(files'[f].lines, acked'[f])
      BY <2>3 DEF FilesAreAccounted, Accounted
    <3>1. CASE f = n + 1
      BY <2>1, <2>3, <2>4, <3>1
    <3>2. CASE f \in 1..n
      <4>1. Accounted(files[f].lines, acked[f])
        BY <3>2 DEF HistoryInv, FilesAreAccounted, n
      <4> QED BY <2>3, <2>4, <3>2, <4>1
    <3> QED BY <2>3, <3>1, <3>2
  <2>7. /\ \A r \in records : r.file \in 1..n /\ files[r.file].run = run
        /\ \A r, s \in records : r.file = s.file => r = s
    BY DEF HistoryInv, RecordsHaveFiles, n
  <2>8. \A r \in records : ~r.stopped => /\ Appendable(files'[r.file].lines, r.last, r.bytes)
                                         /\ H!Reading(files'[r.file].lines).steps = acked'[r.file]
    BY <2>3, <2>4, <2>7 DEF HistoryInv, RecordsAreCurrent
  <2>9. CASE records' = records
    <3>1. HistoryTypes'
      BY <1>t, <2>2, <2>3, <2>4, <2>9 DEF HistoryTypes
    <3>2. RecordsHaveFiles'
      BY <2>2, <2>3, <2>4, <2>7, <2>9 DEF RecordsHaveFiles
    <3>3. RecordsAreCurrent'
      BY <2>8, <2>9 DEF RecordsAreCurrent, Appendable
    <3> QED BY <2>2, <2>5, <2>6, <3>1, <3>2, <3>3 DEF HistoryInv
  <2>10. CASE /\ new.lines = <<H!Header>>
              /\ records' = records \cup {[file |-> Len(files) + 1, key |-> key[c], last |-> "none",
                                           bytes |-> HeaderLen + 1, stopped |-> FALSE]}
    <3> DEFINE r == [file |-> n + 1, key |-> key[c], last |-> "none", bytes |-> HeaderLen + 1, stopped |-> FALSE]
    <3>1. /\ r \in HistoryRecord /\ r.file = n + 1 /\ r.last = "none" /\ r.bytes = HeaderLen + 1
      BY <1>t, <2>3, HistoryAssumption DEF HistoryRecord, Ids
    <3>2. records' = records \cup {r}
      BY <2>10 DEF n
    <3> HIDE DEF r
    <3>3. HistoryTypes'
      BY <1>t, <2>2, <2>3, <2>4, <3>1, <3>2 DEF HistoryTypes
    <3>5. RecordsHaveFiles'
      BY <2>1, <2>2, <2>3, <2>4, <2>7, <3>1, <3>2 DEF RecordsHaveFiles
    <3>6. RecordsAreCurrent'
      <4> SUFFICES ASSUME NEW s \in records', ~s.stopped
                   PROVE  /\ Appendable(files'[s.file].lines, s.last, s.bytes)
                          /\ H!Reading(files'[s.file].lines).steps = acked'[s.file]
        BY DEF RecordsAreCurrent, Appendable
      <4>1. CASE s \in records
        BY <2>8, <4>1
      <4>2. CASE s = r
        <5>1. files'[s.file].lines = <<H!Header>> /\ acked'[s.file] = <<>>
          BY <2>3, <2>4, <2>10, <3>1, <4>2
        <5> QED BY <3>1, <4>2, <5>1, HeaderWritten
      <4> QED BY <3>2, <4>1, <4>2
    <3> QED BY <2>2, <2>5, <2>6, <3>3, <3>5, <3>6 DEF HistoryInv
  <2> QED BY <2>1, <2>9, <2>10
<1>4. ASSUME NEW c \in Call, NEW len \in StepLens, H!RecordStep(c, len) PROVE HistoryInv' /\ Grows
  <2>1. PICK r \in records : H!AppendLine(c, r, len)
    BY <1>4 DEF H!RecordStep, H!Mine
  <2>2. /\ UNCHANGED <<open, phase, run>> /\ phase # "down"
        /\ key' \in [Call -> Key \cup {"none"}] /\ pc' \in [Call -> {"idle", "checked", "writing", "ended"}]
    <3>1. phase # "down"
      BY <1>4 DEF H!RecordStep, H!Ready, HistoryInv, DownIsDown
    <3> QED BY <1>4, <1>t, <3>1 DEF H!RecordStep, H!Leave, H!Goto
  <2>3. DownIsDown'
    BY <2>2 DEF DownIsDown
  <2>4. CASE H!Refuses(r, len) /\ UNCHANGED <<records, files, acked, faults>>
    BY <1>0, <1>t, <2>2, <2>3, <2>4 DEF Same
  <2>5. ASSUME ~H!Refuses(r, len), H!SetLines(r, H!WriteAll(files[r.file].lines, H!Step(c, r.last, len))),
               H!SetRecord(r, [r EXCEPT !.bytes = r.bytes + len + 1, !.last = c]),
               acked' = [acked EXCEPT ![r.file] = Append(acked[r.file], c)]
        PROVE  HistoryInv' /\ Grows
    <3> DEFINE lines == files[r.file].lines
               more == Append(lines, H!Step(c, r.last, len))
               s == [r EXCEPT !.bytes = r.bytes + len + 1, !.last = c]
    <3>1. /\ len \in Nat /\ r \in HistoryRecord /\ r.file \in 1..Len(files) /\ r.last \in Ids /\ r.bytes \in Nat
          /\ ~r.stopped /\ len <= MaxStepLine /\ r.bytes + len + 1 <= MaxHistoryBytes
          /\ lines \in Seq(HistoryLine) /\ Appendable(lines, r.last, r.bytes)
          /\ H!Reading(lines).steps = acked[r.file]
      BY <2>5, NotRefused
    <3>2. /\ H!WriteAll(lines, H!Step(c, r.last, len)) = more
          /\ more \in Seq(HistoryLine)
          /\ Appendable(more, c, r.bytes + len + 1)
          /\ H!Reading(more).steps = Append(H!Reading(lines).steps, c)
      <4> HIDE DEF lines
      <4> QED BY <3>1, StepAppended
    <3> HIDE DEF lines, more
    <3>3. H!SetLines(r, more)
      BY <2>5, <3>2 DEF lines
    <3>4. /\ files' \in Seq(HistoryFile) /\ Len(files') = Len(files)
          /\ files'[r.file].lines = more /\ files'[r.file].there = files[r.file].there
          /\ files'[r.file].run = files[r.file].run
          /\ \A f \in 1..Len(files) : f # r.file => files'[f] = files[f]
      BY <3>1, <3>2, <3>3, SetLinesFacts DEF HistoryInv
    <3>5. s \in HistoryRecord /\ s.file = r.file /\ s.last = c /\ s.bytes = r.bytes + len + 1
      <4>1. r.bytes + len + 1 \in Nat /\ c \in Ids
        BY <3>1 DEF Ids
      <4> QED BY <3>1, <4>1 DEF HistoryRecord
    <3>6. records' = (records \ {r}) \cup {s}
      BY <2>5 DEF H!SetRecord
    <3> HIDE DEF s
    <3>7. acked[r.file] \in Seq(Ids) /\ Len(acked) = Len(files) /\ c \in Ids
      BY <1>t, <3>1 DEF HistoryInv, RecordsHaveFiles, Ids
    <3>8. /\ acked' \in Seq(Seq(Ids)) /\ Len(acked') = Len(files) /\ acked'[r.file] = Append(acked[r.file], c)
          /\ \A f \in 1..Len(files) : f # r.file => acked'[f] = acked[f]
      <4>1. Append(acked[r.file], c) \in Seq(Ids)
        BY <3>7
      <4> QED BY <1>t, <2>5, <3>1, <3>7, <4>1
    <3>9. \A q \in records \ {r} : q.file \in 1..Len(files) /\ q.file # r.file /\ files[q.file].run = run
      BY DEF HistoryInv, RecordsHaveFiles
    <3>10. HistoryTypes'
      BY <1>t, <2>2, <3>4, <3>5, <3>6, <3>8 DEF HistoryTypes
    <3>11. RecordsHaveFiles'
      BY <2>2, <3>1, <3>4, <3>5, <3>6, <3>8, <3>9 DEF HistoryInv, RecordsHaveFiles
    <3>12. RecordsAreCurrent'
      <4> SUFFICES ASSUME NEW q \in records', ~q.stopped
                   PROVE  /\ Appendable(files'[q.file].lines, q.last, q.bytes)
                          /\ H!Reading(files'[q.file].lines).steps = acked'[q.file]
        BY DEF RecordsAreCurrent, Appendable
      <4>1. CASE q \in records \ {r}
        BY <3>4, <3>8, <3>9, <4>1 DEF HistoryInv, RecordsAreCurrent
      <4>2. CASE q = s
        BY <3>1, <3>2, <3>4, <3>5, <3>8, <4>2
      <4> QED BY <3>6, <4>1, <4>2
    <3>13. Accounted(more, acked'[r.file])
      <4> DEFINE a == acked'[r.file]
      <4>1. a \in Seq(Ids) /\ H!Reading(more).steps = a
        BY <3>1, <3>2, <3>7, <3>8
      <4> HIDE DEF a
      <4>2. H!IsPrefix(a, a) /\ Len(a) <= Len(a) + 1
        <5>1. Len(a) \in Nat
          BY <4>1
        <5> QED BY <4>1, <5>1, PrefixFacts
      <4>3. ~H!Reading(more).failed
        BY <3>2 DEF Appendable
      <4> QED BY <4>1, <4>2, <4>3 DEF Accounted, a
    <3>14. FilesAreAccounted'
      <4> SUFFICES ASSUME NEW f \in 1..Len(files) PROVE Accounted(files'[f].lines, acked'[f])
        BY <3>4 DEF FilesAreAccounted, Accounted
      <4>1. CASE f = r.file
        BY <3>4, <3>13, <4>1
      <4>2. CASE f # r.file
        BY <3>4, <3>8, <4>2 DEF HistoryInv, FilesAreAccounted
      <4> QED BY <4>1, <4>2
    <3>15. Grows
      <4> SUFFICES ASSUME NEW f \in DOMAIN files, files[f].there
                   PROVE  files'[f] = files[f] \/ (files'[f].there /\ H!IsPrefix(H!Steps(f), H!Steps(f)'))
        BY DEF Grows
      <4>1. CASE f = r.file
        <5>1. H!Steps(f) = acked[r.file] /\ H!Steps(f)' = Append(acked[r.file], c)
          BY <3>1, <3>2, <3>4, <4>1 DEF H!Steps, H!Recover, lines
        <5> QED BY <3>4, <3>7, <4>1, <5>1, PrefixFacts
      <4>2. CASE f # r.file
        <5>1. f \in 1..Len(files)
          BY <1>t
        <5> QED BY <3>4, <4>2, <5>1
      <4> QED BY <4>1, <4>2
    <3> QED BY <2>3, <3>10, <3>11, <3>12, <3>14, <3>15 DEF HistoryInv
  <2>6. ASSUME ~H!Refuses(r, len), NEW new \in H!Written(files[r.file].lines, H!Step(c, r.last, len)),
               H!SetLines(r, new), H!SetRecord(r, [r EXCEPT !.stopped = TRUE]), acked' = acked
        PROVE  HistoryInv' /\ Grows
    <3> DEFINE s == [r EXCEPT !.stopped = TRUE]
    <3>1. /\ files' \in Seq(HistoryFile) /\ Len(files') = Len(files)
          /\ \A f \in 1..Len(files) : f # r.file => files'[f] = files[f]
          /\ files'[r.file].run = files[r.file].run
          /\ Accounted(files'[r.file].lines, acked[r.file])
          /\ Grows
      BY <2>6, CutOffStep
    <3>2. r \in HistoryRecord /\ r.file \in 1..Len(files)
      BY <1>t DEF HistoryInv, RecordsHaveFiles
    <3>3. s \in HistoryRecord /\ s.file = r.file /\ s.stopped
      BY <3>2 DEF HistoryRecord
    <3>4. records' = (records \ {r}) \cup {s}
      BY <2>6 DEF H!SetRecord
    <3> HIDE DEF s
    <3>5. \A q \in records \ {r} : q.file \in 1..Len(files) /\ q.file # r.file /\ files[q.file].run = run
      BY DEF HistoryInv, RecordsHaveFiles
    <3>6. HistoryTypes'
      BY <1>t, <2>2, <2>6, <3>1, <3>3, <3>4 DEF HistoryTypes
    <3>7. RecordsHaveFiles'
      BY <2>2, <2>6, <3>1, <3>2, <3>3, <3>4, <3>5 DEF HistoryInv, RecordsHaveFiles
    <3>8. RecordsAreCurrent'
      <4> SUFFICES ASSUME NEW q \in records', ~q.stopped
                   PROVE  /\ Appendable(files'[q.file].lines, q.last, q.bytes)
                          /\ H!Reading(files'[q.file].lines).steps = acked'[q.file]
        BY DEF RecordsAreCurrent, Appendable
      <4>1. q \in records \ {r}
        BY <3>3, <3>4
      <4> QED BY <2>6, <3>1, <3>5, <4>1 DEF HistoryInv, RecordsAreCurrent
    <3>9. FilesAreAccounted'
      <4> SUFFICES ASSUME NEW f \in 1..Len(files) PROVE Accounted(files'[f].lines, acked'[f])
        BY <3>1 DEF FilesAreAccounted, Accounted
      <4>1. CASE f = r.file
        BY <2>6, <3>1, <4>1
      <4>2. CASE f # r.file
        BY <2>6, <3>1, <4>2 DEF HistoryInv, FilesAreAccounted
      <4> QED BY <4>1, <4>2
    <3> QED BY <2>3, <3>1, <3>6, <3>7, <3>8, <3>9 DEF HistoryInv
  <2> QED BY <2>1, <2>4, <2>5, <2>6 DEF H!AppendLine
<1>5. CASE H!EndSession
  <2> DEFINE own == {r.file : r \in records}
  <2>1. /\ records' = {} /\ phase' = "ending" /\ UNCHANGED <<open, pc, key, acked, run>>
        /\ \/ files' = files
           \/ files' = [f \in DOMAIN files |-> IF f \in own THEN [files[f] EXCEPT !.there = FALSE] ELSE files[f]]
    BY <1>5 DEF H!EndSession
  <2>2. \A f \in own : files[f].run = run
    BY DEF HistoryInv, RecordsHaveFiles
  <2> HIDE DEF own
  <2>3. /\ files' \in Seq(HistoryFile) /\ Len(files') = Len(files)
        /\ \A f \in 1..Len(files) : /\ files'[f].lines = files[f].lines
                                    /\ f \notin own => files'[f] = files[f]
    <3>1. CASE files' = files
      BY <1>t, <3>1
    <3>2. CASE files' = [f \in DOMAIN files |-> IF f \in own THEN [files[f] EXCEPT !.there = FALSE] ELSE files[f]]
      <4>1. DOMAIN files = 1..Len(files) /\ Len(files) \in Nat
        BY <1>t
      <4>2. ASSUME NEW f \in 1..Len(files)
            PROVE  files'[f] \in HistoryFile /\ files'[f].lines = files[f].lines /\ (f \notin own => files'[f] = files[f])
        <5>1. files[f] \in HistoryFile
          BY <1>t
        <5>2. [files[f] EXCEPT !.there = FALSE] \in HistoryFile /\ [files[f] EXCEPT !.there = FALSE].lines = files[f].lines
          BY <5>1 DEF HistoryFile
        <5> QED BY <3>2, <4>1, <5>1, <5>2
      <4>3. files' = [f \in 1..Len(files) |-> files'[f]]
        BY <3>2, <4>1
      <4>4. files' \in Seq(HistoryFile) /\ Len(files') = Len(files)
        BY <4>1, <4>2, <4>3
      <4> QED BY <4>2, <4>4
    <3> QED BY <2>1, <3>1, <3>2
  <2>4. Grows
    <3> SUFFICES ASSUME NEW f \in DOMAIN files PROVE files'[f] = files[f] \/ (files[f].run = run /\ phase' = "ending")
      BY DEF Grows
    <3>1. f \in 1..Len(files)
      BY <1>t
    <3> QED BY <2>1, <2>2, <2>3, <3>1
  <2>5. HistoryTypes'
    BY <1>t, <2>1, <2>3 DEF HistoryTypes
  <2>6. RecordsHaveFiles' /\ RecordsAreCurrent' /\ DownIsDown'
    BY <2>1, <2>3 DEF HistoryInv, RecordsHaveFiles, RecordsAreCurrent, DownIsDown
  <2>7. FilesAreAccounted'
    BY <2>1, <2>3 DEF HistoryInv, FilesAreAccounted, Accounted
  <2> QED BY <2>4, <2>5, <2>6, <2>7 DEF HistoryInv
<1>6. ASSUME H!Down PROVE /\ records' = {} /\ UNCHANGED <<open, acked, run>> /\ DownIsDown' /\ RecordsAreCurrent'
                          /\ key' \in [Call -> Key \cup {"none"}]
                          /\ pc' \in [Call -> {"idle", "checked", "writing", "ended"}]
  BY <1>t, <1>6 DEF H!Down, DownIsDown, RecordsAreCurrent
<1>7. CASE H!ProcessEnds
  <2>1. files' = files
    BY <1>7 DEF H!ProcessEnds
  <2>2. HistoryTypes' /\ RecordsHaveFiles'
    BY <1>t, <1>6, <1>7, <2>1 DEF H!ProcessEnds, HistoryTypes, HistoryInv, RecordsHaveFiles
  <2>3. FilesAreAccounted' /\ Grows
    BY <1>6, <1>7, <2>1 DEF H!ProcessEnds, HistoryInv, FilesAreAccounted, Accounted, Grows
  <2> QED BY <1>6, <1>7, <2>2, <2>3 DEF H!ProcessEnds, HistoryInv
<1>8. CASE H!Crash
  <2>0. H!Down
    BY <1>8 DEF H!Crash
  <2>1. /\ files' \in Seq(HistoryFile) /\ Len(files') = Len(files) /\ Grows
        /\ \A f \in 1..Len(files) : Accounted(files'[f].lines, acked[f])
    <3>1. CASE files' = files
      BY <1>t, <3>1 DEF HistoryInv, FilesAreAccounted, Grows
    <3>2. ASSUME NEW c \in Call, NEW len \in StepLens, NEW r \in records, ~H!Refuses(r, len),
                 NEW new \in H!Written(files[r.file].lines, H!Step(c, r.last, len)), H!SetLines(r, new)
          PROVE  /\ files' \in Seq(HistoryFile) /\ Len(files') = Len(files) /\ Grows
                 /\ \A f \in 1..Len(files) : Accounted(files'[f].lines, acked[f])
      <4>1. /\ files' \in Seq(HistoryFile) /\ Len(files') = Len(files) /\ Grows
            /\ \A f \in 1..Len(files) : f # r.file => files'[f] = files[f]
            /\ Accounted(files'[r.file].lines, acked[r.file])
        BY <3>2, CutOffStep
      <4>2. \A f \in 1..Len(files) : Accounted(files[f].lines, acked[f])
        BY DEF HistoryInv, FilesAreAccounted
      <4> QED BY <4>1, <4>2
    <3> QED BY <1>8, <3>1, <3>2 DEF H!Crash, H!Mine
  <2>2. HistoryTypes' /\ RecordsHaveFiles'
    BY <1>t, <1>6, <2>0, <2>1 DEF HistoryTypes, HistoryInv, RecordsHaveFiles
  <2>3. FilesAreAccounted'
    BY <1>6, <2>0, <2>1 DEF FilesAreAccounted, Accounted
  <2> QED BY <1>6, <2>0, <2>1, <2>2, <2>3 DEF HistoryInv
<1>9. CASE H!Start
  <2>1. records = {} /\ UNCHANGED <<open, pc, key, records, files, acked>> /\ run' = run + 1 /\ phase' = "up"
    BY <1>9 DEF H!Start, HistoryInv, DownIsDown
  <2>2. HistoryTypes' /\ RecordsHaveFiles' /\ DownIsDown' /\ RecordsAreCurrent'
    BY <1>t, <2>1 DEF HistoryTypes, HistoryInv, RecordsHaveFiles, DownIsDown, RecordsAreCurrent
  <2>3. FilesAreAccounted' /\ Grows
    BY <2>1 DEF HistoryInv, FilesAreAccounted, Accounted, Grows
  <2> QED BY <2>2, <2>3 DEF HistoryInv
<1>10. CASE UNCHANGED H!vars
  <2>1. Same /\ open' = open /\ key' = key /\ pc' = pc /\ DownIsDown'
    BY <1>10 DEF H!vars, Same, HistoryInv, DownIsDown
  <2> QED BY <1>0, <1>t, <2>1
<1> QED BY <1>1, <1>2, <1>3, <1>4, <1>5, <1>7, <1>8, <1>9, <1>10 DEF H!Next

\* recover returns every step that was answered Ok, in order, and at most one more: through
\* failed and torn writes, crashes, restarts and reopened datasets, for every size of a line
\* and of a history (session_history.rs History::append, recover).
THEOREM HistoryCorrect == H!Spec => []H!RecoveredIsRecorded
<1>1. H!Init => HistoryInv
  BY HistoryStart
<1>2. HistoryInv /\ [H!Next]_(H!vars) => HistoryInv'
  BY HistoryStep
<1>3. HistoryInv => H!RecoveredIsRecorded
  BY HistoryInvSuffices
<1> QED BY <1>1, <1>2, <1>3, PTL DEF H!Spec

\* A history loses no step that could be read from it, and a record that another run left is
\* never touched (session_history.rs end_session).
THEOREM GrowthCorrect == H!Spec => H!HistoriesOnlyGrow
<1>1. H!Init => HistoryInv
  BY HistoryStart
<1>2. HistoryInv /\ [H!Next]_(H!vars) => HistoryInv' /\ [Grows]_(H!vars)
  BY HistoryStep
<1> QED BY <1>1, <1>2, PTL DEF H!Spec, H!HistoriesOnlyGrow, Grows

-----------------------------------------------------------------------------
(* The query plan: ranges.                                                  *)

CONSTANTS MaxId, AxisCells, MaxCells, MaxIdRanges, MaxGroupRanges

Q == INSTANCE QueryPlan

IdRange == {r \in Int \X Int : r[1] <= r[2]}
Covers(ranges, p) == \E r \in Q!ToSet(ranges) : r[1] <= p[1] /\ p[2] <= r[2]

\* A range that is added is covered, and so is what was.
LEMMA AddRangeCovers ==
  ASSUME NEW ranges \in Seq(IdRange), NEW r \in IdRange
  PROVE  /\ Q!AddRange(ranges, r) \in Seq(IdRange)
         /\ Covers(Q!AddRange(ranges, r), r)
         /\ \A p \in IdRange : Covers(ranges, p) => Covers(Q!AddRange(ranges, r), p)
<1> DEFINE n == Len(ranges)
           more == Q!AddRange(ranges, r)
<1>0. n \in Nat /\ DOMAIN ranges = 1..n /\ \A i \in 1..n : ranges[i] \in IdRange
  OBVIOUS
<1>1. CASE ranges # <<>> /\ r[1] = ranges[n][2] + 1
  <2> DEFINE last == <<ranges[n][1], r[2]>>
  <2>1. more = [ranges EXCEPT ![n] = last]
    BY <1>1 DEF Q!AddRange, Q!Last
  <2>2. n \in 1..n /\ ranges[n] \in IdRange
    BY <1>0, <1>1
  <2>3. last \in IdRange /\ last[1] <= r[1] /\ r[2] <= last[2] /\ last[1] <= ranges[n][1] /\ ranges[n][2] <= last[2]
    <3>1. ranges[n][1] \in Int /\ ranges[n][2] \in Int /\ ranges[n][1] <= ranges[n][2]
      BY <2>2 DEF IdRange
    <3>2. r[1] \in Int /\ r[2] \in Int /\ r[1] <= r[2]
      BY DEF IdRange
    <3> QED BY <1>1, <3>1, <3>2 DEF IdRange
  <2> HIDE DEF last, more
  <2>4. more \in Seq(IdRange) /\ DOMAIN more = 1..n /\ more[n] = last /\ \A i \in 1..n : i # n => more[i] = ranges[i]
    <3>1. more \in Seq(IdRange) /\ Len(more) = Len(ranges)
      BY <2>1, <2>2, <2>3, ExceptSeq
    <3>2. DOMAIN more = 1..n
      BY <3>1
    <3> QED BY <1>0, <2>1, <2>2, <3>1, <3>2
  <2>5. Covers(more, r)
    BY <2>2, <2>3, <2>4 DEF Covers, Q!ToSet
  <2>6. ASSUME NEW p \in IdRange, Covers(ranges, p) PROVE Covers(more, p)
    <3>1. PICK i \in 1..n : ranges[i][1] <= p[1] /\ p[2] <= ranges[i][2]
      BY <1>0, <2>6 DEF Covers, Q!ToSet
    <3>2. CASE i = n
      <4>1. last[1] <= p[1] /\ p[2] <= last[2]
        <5>1. /\ ranges[n][1] \in Int /\ ranges[n][2] \in Int /\ p[1] \in Int /\ p[2] \in Int
              /\ last[1] \in Int /\ last[2] \in Int
          BY <2>2, <2>3 DEF IdRange
        <5> QED BY <2>3, <3>1, <3>2, <5>1
      <4> QED BY <2>2, <2>4, <4>1 DEF Covers, Q!ToSet
    <3>3. CASE i # n
      BY <2>4, <3>1, <3>3 DEF Covers, Q!ToSet
    <3> QED BY <3>2, <3>3
  <2> QED BY <2>4, <2>5, <2>6 DEF more
<1>2. CASE ~(ranges # <<>> /\ r[1] = ranges[n][2] + 1)
  <2>1. more = Append(ranges, r)
    BY <1>2 DEF Q!AddRange, Q!Last
  <2> HIDE DEF more
  <2>2. /\ more \in Seq(IdRange) /\ DOMAIN more = 1..(n + 1) /\ more[n + 1] = r
        /\ \A i \in 1..n : more[i] = ranges[i]
    BY <1>0, <2>1
  <2>3. n + 1 \in DOMAIN more /\ \A i \in 1..n : i \in DOMAIN more
    BY <1>0, <2>2
  <2>4. Covers(more, r)
    <3>1. r[1] <= r[1] /\ r[2] <= r[2]
      BY DEF IdRange
    <3> QED BY <2>2, <2>3, <3>1 DEF Covers, Q!ToSet
  <2>5. ASSUME NEW p \in IdRange, Covers(ranges, p) PROVE Covers(more, p)
    <3>1. PICK i \in 1..n : ranges[i][1] <= p[1] /\ p[2] <= ranges[i][2]
      BY <1>0, <2>5 DEF Covers, Q!ToSet
    <3> QED BY <2>2, <2>3, <3>1 DEF Covers, Q!ToSet
  <2> QED BY <2>2, <2>4, <2>5 DEF more
<1> QED BY <1>1, <1>2

\* Every range that is kept is covered by the ranges the loop leaves.
LEMMA MergedCovers ==
  ASSUME NEW kept, NEW n \in Nat, NEW range \in [1..n -> IdRange]
  PROVE  /\ Q!Merged(kept, range, n) \in Seq(IdRange)
         /\ \A i \in 1..n : i \in kept => Covers(Q!Merged(kept, range, n), range[i])
<1> DEFINE S == Seq(IdRange)
           Next(to, i) == IF i \in kept THEN Q!AddRange(to, range[i]) ELSE to
           step == [p \in S \X (1..n) |-> Next(p[1], p[2])]
           Is(h) == h = [i \in 0..n |-> IF i = 0 THEN <<>> ELSE IF i \in kept THEN Q!AddRange(h[i - 1], range[i])
                                                                ELSE h[i - 1]]
<1>1. ASSUME NEW to \in S, NEW i \in 1..n PROVE Next(to, i) \in S
  BY AddRangeCovers
<1>2. <<>> \in S
  OBVIOUS
<1>3. step \in [S \X (1..n) -> S]
  <2> SUFFICES ASSUME NEW p \in S \X (1..n) PROVE Next(p[1], p[2]) \in S
    OBVIOUS
  <2>1. p[1] \in S /\ p[2] \in 1..n
    OBVIOUS
  <2> HIDE DEF Next, S
  <2> QED BY <1>1, <2>1
<1>4. \A to \in S, i \in 1..n : step[<<to, i>>] = Next(to, i)
  OBVIOUS
<1> HIDE DEF step, S, Next
<1>5. PICK f \in [0..n -> S] : Runs(f, n, <<>>, step)
  BY <1>2, <1>3, RecursionExists
<1>6. f[0] = <<>> /\ \A i \in 1..n : f[i] = Next(f[i - 1], i)
  <2>1. ASSUME NEW i \in 1..n PROVE f[i] = Next(f[i - 1], i)
    <3>1. f[i - 1] \in S
      OBVIOUS
    <3>2. f[i] = step[<<f[i - 1], i>>]
      BY <1>5 DEF Runs
    <3> QED BY <1>4, <3>1, <3>2
  <2> QED BY <1>5, <2>1 DEF Runs
<1>7. Is(f)
  <2> DEFINE g == [i \in 0..n |-> IF i = 0 THEN <<>> ELSE IF i \in kept THEN Q!AddRange(f[i - 1], range[i])
                                                           ELSE f[i - 1]]
  <2>1. \A i \in 0..n : f[i] = g[i]
    BY <1>6 DEF Next
  <2> QED BY <2>1
<1>8. ASSUME NEW h, Is(h) PROVE h = f
  <2> DEFINE Good == {k \in Nat : k <= n => h[k] = f[k]}
  <2>0. DOMAIN h = 0..n /\ h = [i \in 0..n |-> h[i]]
    BY <1>8
  <2>1. 0 \in Good
    BY <1>6, <1>8
  <2>2. ASSUME NEW k \in Nat, k \in Good PROVE k + 1 \in Good
    <3> SUFFICES ASSUME k + 1 <= n PROVE h[k + 1] = f[k + 1]
      OBVIOUS
    <3>1. k + 1 \in 1..n /\ k + 1 \in 0..n /\ k + 1 # 0 /\ k + 1 - 1 = k /\ h[k] = f[k]
      BY <2>2
    <3>2. f[k + 1] = Next(f[k], k + 1)
      BY <1>6, <3>1
    <3>3. h[k + 1] = IF k + 1 \in kept THEN Q!AddRange(h[k], range[k + 1]) ELSE h[k]
      BY <1>8, <3>1
    <3> QED BY <3>1, <3>2, <3>3 DEF Next
  <2> HIDE DEF Good
  <2>3. Nat \subseteq Good
    BY <2>1, <2>2, Induction
  <2>4. \A k \in 0..n : h[k] = f[k]
    BY <2>3 DEF Good
  <2> QED BY <2>0, <2>4
<1>9. Q!Merged(kept, range, n) = f[n]
  <2>1. (CHOOSE h : Is(h)) = f
    BY <1>7, <1>8
  <2> QED BY <2>1 DEF Q!Merged
<1> DEFINE Good == {k \in Nat : k <= n => \A i \in 1..k : i \in kept => Covers(f[k], range[i])}
<1>10. 0 \in Good
  OBVIOUS
<1>11. ASSUME NEW k \in Nat, k \in Good PROVE k + 1 \in Good
  <2> SUFFICES ASSUME k + 1 <= n, NEW i \in 1..(k + 1), i \in kept PROVE Covers(f[k + 1], range[i])
    OBVIOUS
  <2>1. k + 1 \in 1..n /\ f[k] \in S /\ f[k + 1] = Next(f[k], k + 1)
    <3>1. k + 1 \in 1..n /\ k + 1 - 1 = k /\ k \in 0..n
      OBVIOUS
    <3> QED BY <1>6, <3>1
  <2>2. range[k + 1] \in IdRange /\ range[i] \in IdRange
    BY <2>1
  <2>3. CASE i = k + 1
    BY <2>1, <2>2, <2>3, AddRangeCovers DEF Next, S
  <2>4. CASE i # k + 1
    <3>1. Covers(f[k], range[i])
      BY <1>11, <2>4
    <3> QED BY <2>1, <2>2, <3>1, AddRangeCovers DEF Next, S
  <2> QED BY <2>3, <2>4
<1> HIDE DEF Good
<1>12. Nat \subseteq Good
  BY <1>10, <1>11, Induction
<1>13. \A i \in 1..n : i \in kept => Covers(f[n], range[i])
  BY <1>12 DEF Good
<1>14. f[n] \in S
  OBVIOUS
<1> QED BY <1>9, <1>13, <1>14 DEF S

-----------------------------------------------------------------------------
(* The query plan: what it is given.                                        *)

Box == Int \X Int \X Int \X Int
Feature == [id : {Q!NoId} \cup 0..MaxId, box : Box, matches : BOOLEAN]
Group == Seq(Feature) \ {<<>>}

\* Statistics that are off by at most a unit towards the inside.
Stats == {s \in [noise : Int \X Int, gap : {"none", "nulls", "ids", "bounds"}] : s.noise[1] <= 1 /\ s.noise[2] >= -1}

\* A finite set of numbers has a least and a greatest one.
LEMMA LeastAndGreatest ==
  ASSUME NEW S \in SUBSET Int, IsFiniteSet(S), S # {}
  PROVE  /\ Q!Min(S) \in S /\ \A x \in S : Q!Min(S) <= x
         /\ Q!Max(S) \in S /\ \A x \in S : x <= Q!Max(S)
<1>1. PICK s \in Seq(S) : \A x \in S : \E n \in 1..Len(s) : s[n] = x
  BY DEF IsFiniteSet
<1> DEFINE n == Len(s)
           Least == {k \in Nat : k + 1 <= n => \E m \in 1..(k + 1) : \A i \in 1..(k + 1) : s[m] <= s[i]}
           Most == {k \in Nat : k + 1 <= n => \E m \in 1..(k + 1) : \A i \in 1..(k + 1) : s[i] <= s[m]}
<1>2. n \in Nat /\ n # 0 /\ \A i \in 1..n : s[i] \in S /\ s[i] \in Int
  <2>1. n \in Nat /\ \A i \in 1..n : s[i] \in S
    OBVIOUS
  <2>2. \A x \in S : \E i \in 1..n : s[i] = x
    BY <1>1
  <2> HIDE DEF n
  <2>3. PICK x \in S : TRUE
    OBVIOUS
  <2>4. PICK i \in 1..n : s[i] = x
    BY <2>2, <2>3
  <2>5. n # 0
    BY <2>1, <2>4
  <2> QED BY <2>1, <2>5
<1> HIDE DEF n
<1>3. 0 \in Least /\ 0 \in Most
  <2>1. ASSUME 1 <= n PROVE 1 \in 1..1 /\ s[1] <= s[1]
    BY <1>2, <2>1
  <2> QED BY <2>1
<1>4. ASSUME NEW k \in Nat, k \in Least PROVE k + 1 \in Least
  <2> SUFFICES ASSUME k + 1 + 1 <= n
               PROVE \E m \in 1..(k + 1 + 1) : \A i \in 1..(k + 1 + 1) : s[m] <= s[i]
    OBVIOUS
  <2>1. PICK m \in 1..(k + 1) : \A i \in 1..(k + 1) : s[m] <= s[i]
    BY <1>4, <1>2
  <2>2. s[m] \in Int /\ s[k + 2] \in Int /\ \A i \in 1..(k + 1) : s[i] \in Int
    BY <1>2
  <2>3. CASE s[m] <= s[k + 2]
    <3>1. m \in 1..(k + 1 + 1) /\ \A i \in 1..(k + 1 + 1) : i \in 1..(k + 1) \/ i = k + 2
      OBVIOUS
    <3> QED BY <2>1, <2>3, <3>1
  <2>4. CASE ~(s[m] <= s[k + 2])
    <3>1. k + 2 \in 1..(k + 1 + 1) /\ \A i \in 1..(k + 1 + 1) : i \in 1..(k + 1) \/ i = k + 2
      OBVIOUS
    <3>2. \A i \in 1..(k + 1) : s[k + 2] <= s[i]
      BY <2>1, <2>2, <2>4
    <3>3. s[k + 2] <= s[k + 2]
      BY <2>2
    <3> QED BY <3>1, <3>2, <3>3
  <2> QED BY <2>3, <2>4
<1>5. ASSUME NEW k \in Nat, k \in Most PROVE k + 1 \in Most
  <2> SUFFICES ASSUME k + 1 + 1 <= n
               PROVE \E m \in 1..(k + 1 + 1) : \A i \in 1..(k + 1 + 1) : s[i] <= s[m]
    OBVIOUS
  <2>1. PICK m \in 1..(k + 1) : \A i \in 1..(k + 1) : s[i] <= s[m]
    BY <1>5, <1>2
  <2>2. s[m] \in Int /\ s[k + 2] \in Int /\ \A i \in 1..(k + 1) : s[i] \in Int
    BY <1>2
  <2>3. CASE s[k + 2] <= s[m]
    <3>1. m \in 1..(k + 1 + 1) /\ \A i \in 1..(k + 1 + 1) : i \in 1..(k + 1) \/ i = k + 2
      OBVIOUS
    <3> QED BY <2>1, <2>3, <3>1
  <2>4. CASE ~(s[k + 2] <= s[m])
    <3>1. k + 2 \in 1..(k + 1 + 1) /\ \A i \in 1..(k + 1 + 1) : i \in 1..(k + 1) \/ i = k + 2
      OBVIOUS
    <3>2. \A i \in 1..(k + 1) : s[i] <= s[k + 2]
      BY <2>1, <2>2, <2>4
    <3>3. s[k + 2] <= s[k + 2]
      BY <2>2
    <3> QED BY <3>1, <3>2, <3>3
  <2> QED BY <2>3, <2>4
<1> HIDE DEF Least, Most
<1>6. Nat \subseteq Least /\ Nat \subseteq Most
  BY <1>3, <1>4, <1>5, Induction
<1>7. n - 1 \in Nat /\ n - 1 + 1 = n /\ n <= n
  BY <1>2
<1>8. \E m \in 1..n : \A i \in 1..n : s[m] <= s[i]
  BY <1>6, <1>7 DEF Least
<1>9. \E m \in 1..n : \A i \in 1..n : s[i] <= s[m]
  BY <1>6, <1>7 DEF Most
<1>10. \A x \in S : \E i \in 1..n : s[i] = x
  BY <1>1 DEF n
<1>11. \E x \in S : \A y \in S : x <= y
  BY <1>2, <1>8, <1>10
<1>12. \E x \in S : \A y \in S : x >= y
  <2>1. PICK m \in 1..n : \A i \in 1..n : s[i] <= s[m]
    BY <1>9
  <2>2. \A i \in 1..n : s[m] >= s[i]
    BY <1>2, <2>1
  <2> QED BY <1>2, <1>10, <2>2
<1>13. Q!Min(S) \in S /\ \A x \in S : Q!Min(S) <= x
  BY <1>11 DEF Q!Min
<1>14. Q!Max(S) \in S /\ \A x \in S : Q!Max(S) >= x
  BY <1>12 DEF Q!Max
<1>15. \A x \in S : x \in Int
  OBVIOUS
<1> QED BY <1>13, <1>14, <1>15

\* The values of a function over a finite set.
LEMMA ValuesAreFinite ==
  ASSUME NEW D, IsFiniteSet(D), NEW f
  PROVE  IsFiniteSet({f[i] : i \in D})
<1>1. PICK s \in Seq(D) : \A x \in D : \E n \in 1..Len(s) : s[n] = x
  BY DEF IsFiniteSet
<1> DEFINE V == {f[i] : i \in D}
           t == [n \in 1..Len(s) |-> f[s[n]]]
<1>2. Len(s) \in Nat /\ \A n \in 1..Len(s) : s[n] \in D
  OBVIOUS
<1>3. t \in Seq(V) /\ Len(t) = Len(s)
  BY <1>2
<1>4. ASSUME NEW v \in V PROVE \E n \in 1..Len(t) : t[n] = v
  <2>1. PICK i \in D : v = f[i]
    OBVIOUS
  <2>2. PICK n \in 1..Len(s) : s[n] = i
    BY <1>1
  <2> QED BY <1>3, <2>1, <2>2
<1> HIDE DEF V, t
<1>5. IsFiniteSet(V)
  BY <1>3, <1>4 DEF IsFiniteSet
<1> QED BY <1>5 DEF V

-----------------------------------------------------------------------------
(* The query plan: row groups.                                              *)

\* A corner of the rows of a group lies within the bounds of the group.
LEMMA CornersAreBounded ==
  ASSUME NEW group \in Group, NEW k \in 1..4
  PROVE  LET S == {group[i].box[k] : i \in DOMAIN group}
         IN /\ Q!Min(S) \in Int /\ Q!Max(S) \in Int
            /\ \A i \in DOMAIN group : Q!Min(S) <= group[i].box[k] /\ group[i].box[k] <= Q!Max(S)
<1> DEFINE S == {group[i].box[k] : i \in DOMAIN group}
           D == DOMAIN group
           f == [i \in D |-> group[i].box[k]]
<1>1. D = 1..Len(group) /\ Len(group) \in Nat /\ D # {} /\ \A i \in D : group[i] \in Feature
  BY DEF Group
<1>2. ASSUME NEW i \in D PROVE group[i].box[k] \in Int
  <2>1. group[i].box \in Box
    BY <1>1 DEF Feature
  <2> QED BY <2>1 DEF Box
<1>3. S \in SUBSET Int /\ S # {}
  BY <1>1, <1>2
<1>4. IsFiniteSet(D)
  <2>1. 1 \in Int /\ Len(group) \in Int
    BY <1>1
  <2> QED BY <1>1, <2>1, FS_Interval
<1>5. S = {f[i] : i \in D}
  OBVIOUS
<1> HIDE DEF f
<1>6. IsFiniteSet(S)
  BY <1>4, <1>5, ValuesAreFinite
<1>7. \A i \in D : group[i].box[k] \in S
  OBVIOUS
<1> HIDE DEF S, D
<1>8. /\ Q!Min(S) \in S /\ \A x \in S : Q!Min(S) <= x
      /\ Q!Max(S) \in S /\ \A x \in S : x <= Q!Max(S)
  BY <1>3, <1>6, LeastAndGreatest
<1>9. Q!Min(S) \in Int /\ Q!Max(S) \in Int /\ \A i \in D : Q!Min(S) <= group[i].box[k] /\ group[i].box[k] <= Q!Max(S)
  BY <1>3, <1>7, <1>8
<1> QED BY <1>9 DEF S, D

\* A group whose ids are known to the last says between which of them they lie.
LEMMA IdsAreBounded ==
  ASSUME NEW group \in Group, NEW noise, NEW gap, Q!IdsAreKnown(Q!RawGroup(group, noise, gap))
  PROVE  LET e == Q!Entry(Q!RawGroup(group, noise, gap))
         IN /\ <<e.lo, e.hi>> \in IdRange
            /\ \A i \in DOMAIN group : group[i].id \in Int /\ e.lo <= group[i].id /\ group[i].id <= e.hi
<1> DEFINE ids == {group[i].id : i \in DOMAIN group} \ {Q!NoId}
           D == DOMAIN group
           f == [i \in D |-> group[i].id]
           raw == Q!RawGroup(group, noise, gap)
           e == Q!Entry(raw)
<1>1. D = 1..Len(group) /\ Len(group) \in Nat /\ D # {} /\ \A i \in D : group[i] \in Feature
  BY DEF Group
<1>2. raw.stats = (gap # "ids" /\ ids # {}) /\ raw.nulls = (gap = "nulls" \/ \E i \in D : group[i].id = Q!NoId)
  BY DEF Q!RawGroup
<1>3. /\ raw.lo = (IF ids = {} THEN 0 ELSE Q!Min(ids))
      /\ raw.hi = (IF ids = {} THEN 0 ELSE Q!Max(ids))
  BY DEF Q!RawGroup
<1>4. raw.stats /\ ~raw.nulls
  BY DEF Q!IdsAreKnown
<1>5. e.lo = (IF raw.stats THEN raw.lo ELSE 0) /\ e.hi = (IF raw.stats THEN raw.hi ELSE MaxId)
  BY DEF Q!Entry
<1> HIDE DEF raw, e
<1>6. ids # {} /\ \A i \in D : group[i].id # Q!NoId
  BY <1>2, <1>4
<1>7. ids = {f[i] : i \in D}
  BY <1>6
<1>8. ids \in SUBSET Int /\ \A i \in D : group[i].id \in ids
  BY <1>1, <1>6 DEF Feature, Q!NoId
<1>9. IsFiniteSet(D)
  <2>1. 1 \in Int /\ Len(group) \in Int
    BY <1>1
  <2> QED BY <1>1, <2>1, FS_Interval
<1> HIDE DEF ids, f, D
<1>10. IsFiniteSet(ids)
  BY <1>7, <1>9, ValuesAreFinite
<1>11. /\ Q!Min(ids) \in ids /\ \A x \in ids : Q!Min(ids) <= x
       /\ Q!Max(ids) \in ids /\ \A x \in ids : x <= Q!Max(ids)
  BY <1>6, <1>8, <1>10, LeastAndGreatest
<1>12. e.lo = Q!Min(ids) /\ e.hi = Q!Max(ids)
  BY <1>3, <1>4, <1>5, <1>6
<1>13. <<e.lo, e.hi>> \in IdRange
  <2>1. e.lo \in Int /\ e.hi \in Int /\ e.lo <= e.hi
    BY <1>8, <1>11, <1>12
  <2> QED BY <2>1 DEF IdRange
<1>14. \A i \in D : group[i].id \in Int /\ e.lo <= group[i].id /\ group[i].id <= e.hi
  BY <1>8, <1>11, <1>12
<1> QED BY <1>13, <1>14 DEF D, e, raw

\* A group with a row in the viewport is read: its envelope may be off by a unit and is a unit
\* wider.
LEMMA RowsInViewAreRead ==
  ASSUME NEW group \in Group, NEW stats \in Stats, NEW view \in Box,
         NEW i \in DOMAIN group, Q!Intersects(group[i].box, view)
  PROVE  Q!MustRead(Q!Entry(Q!RawGroup(group, stats.noise, stats.gap)), view)
<1> DEFINE at(k) == {group[j].box[k] : j \in DOMAIN group}
           x0 == Q!Min(at(1))
           y0 == Q!Min(at(2))
           x1 == Q!Max(at(3))
           y1 == Q!Max(at(4))
           b == group[i].box
           raw == Q!RawGroup(group, stats.noise, stats.gap)
           e == Q!Entry(raw)
           lo == stats.noise[1]
           hi == stats.noise[2]
<1>1. lo \in Int /\ hi \in Int /\ lo <= 1 /\ hi >= -1
  BY DEF Stats
<1>2. view[1] \in Int /\ view[2] \in Int /\ view[3] \in Int /\ view[4] \in Int
  BY DEF Box
<1>3. b[1] \in Int /\ b[2] \in Int /\ b[3] \in Int /\ b[4] \in Int
  <2>1. group[i] \in Feature
    BY DEF Group
  <2>2. b \in Box
    BY <2>1 DEF Feature
  <2> HIDE DEF b
  <2> QED BY <2>2 DEF Box
<1>4. b[1] <= view[3] /\ b[3] >= view[1] /\ b[2] <= view[4] /\ b[4] >= view[2]
  BY DEF Q!Intersects
<1>5. x0 \in Int /\ x0 <= b[1]
  <2>1. 1 \in 1..4
    OBVIOUS
  <2> QED BY <2>1, CornersAreBounded
<1>6. y0 \in Int /\ y0 <= b[2]
  <2>1. 2 \in 1..4
    OBVIOUS
  <2> QED BY <2>1, CornersAreBounded
<1>7. x1 \in Int /\ b[3] <= x1
  <2>1. 3 \in 1..4
    OBVIOUS
  <2> QED BY <2>1, CornersAreBounded
<1>8. y1 \in Int /\ b[4] <= y1
  <2>1. 4 \in 1..4
    OBVIOUS
  <2> QED BY <2>1, CornersAreBounded
<1>9. raw.box = <<x0 + lo, y0 + lo, x1 + hi, y1 + hi>>
  BY DEF Q!RawGroup
<1> HIDE DEF raw, b, x0, y0, x1, y1, lo, hi
<1>10. e.box = <<raw.box[1] - 1, raw.box[2] - 1, raw.box[3] + 1, raw.box[4] + 1>>
  BY DEF Q!Entry
<1> HIDE DEF e
<1>11. /\ e.box[1] = x0 + lo - 1 /\ e.box[2] = y0 + lo - 1
       /\ e.box[3] = x1 + hi + 1 /\ e.box[4] = y1 + hi + 1
  <2>1. raw.box[1] = x0 + lo /\ raw.box[2] = y0 + lo /\ raw.box[3] = x1 + hi /\ raw.box[4] = y1 + hi
    BY <1>9
  <2>2. /\ e.box[1] = raw.box[1] - 1 /\ e.box[2] = raw.box[2] - 1
        /\ e.box[3] = raw.box[3] + 1 /\ e.box[4] = raw.box[4] + 1
    BY <1>10
  <2> QED BY <1>1, <1>5, <1>6, <1>7, <1>8, <2>1, <2>2
<1>12. e.box[1] <= view[3] /\ e.box[3] >= view[1] /\ e.box[2] <= view[4] /\ e.box[4] >= view[2]
  BY <1>1, <1>2, <1>3, <1>4, <1>5, <1>6, <1>7, <1>8, <1>11
<1>13. Q!MustRead(e, view)
  BY <1>12 DEF Q!MustRead, Q!Intersects
<1> QED BY <1>13 DEF e, raw

\* The rows of a file, each in its group.
LEMMA RowFacts ==
  ASSUME NEW file \in Seq(Group), NEW p \in DOMAIN Q!Rows(file)
  PROVE  /\ p[1] \in DOMAIN file /\ file[p[1]] \in Group /\ p[2] \in DOMAIN file[p[1]]
         /\ Q!Rows(file)[p] = file[p[1]][p[2]] /\ Q!Rows(file)[p] \in Feature
<1>1. DOMAIN Q!Rows(file) = UNION {{g} \X DOMAIN file[g] : g \in DOMAIN file}
  BY DEF Q!Rows
<1>2. PICK g \in DOMAIN file : p \in {g} \X DOMAIN file[g]
  BY <1>1
<1>3. p[1] = g /\ p[2] \in DOMAIN file[g] /\ file[g] \in Group
  BY <1>2
<1>4. Q!Rows(file)[p] = file[p[1]][p[2]]
  BY <1>1 DEF Q!Rows
<1> QED BY <1>2, <1>3, <1>4 DEF Group

\* A plan whose ranges leave out no row of the viewport answers what the scan answers.
LEMMA CoveringKeeps ==
  ASSUME NEW file \in Seq(Group), NEW view, NEW filter \in BOOLEAN, NEW ranges, NEW name,
         \A p \in DOMAIN Q!Rows(file) : Q!Intersects(Q!Rows(file)[p].box, view) =>
            \E r \in Q!ToSet(ranges) : Q!Rows(file)[p].id \in r[1]..r[2]
  PROVE  Q!Answer(file, view, filter, Q!Plan(name, ranges)) = Q!Answer(file, view, filter, Q!Scan("ScanOnly"))
<1> DEFINE D == DOMAIN Q!Rows(file)
           rows == Q!Rows(file)
           plan == Q!Plan(name, ranges)
           scan == Q!Scan("ScanOnly")
<1>1. plan.every = FALSE /\ plan.ranges = ranges /\ scan.every = TRUE
  BY DEF Q!Plan, Q!Scan
<1> HIDE DEF plan, scan
<1>2. Q!Selected(file, view, filter, plan) = Q!Selected(file, view, filter, scan)
  <2> DEFINE In(p, q) == /\ Q!Intersects(rows[p].box, view)
                         /\ filter => rows[p].matches
                         /\ q.every \/ \E r \in Q!ToSet(q.ranges) : rows[p].id \in r[1]..r[2]
  <2>1. Q!Selected(file, view, filter, plan) = {p \in D : In(p, plan)}
    BY DEF Q!Selected
  <2>2. Q!Selected(file, view, filter, scan) = {p \in D : In(p, scan)}
    BY DEF Q!Selected
  <2>3. \A p \in D : Q!Intersects(rows[p].box, view) => \E r \in Q!ToSet(ranges) : rows[p].id \in r[1]..r[2]
    OBVIOUS
  <2> HIDE DEF D, rows
  <2> QED BY <1>1, <2>1, <2>2, <2>3
<1>3. Q!Answer(file, view, filter, plan) = Q!Answer(file, view, filter, scan)
  BY <1>2 DEF Q!Answer
<1> QED BY <1>3 DEF plan, scan

\* A plan that adds no ranges is the scan, whatever it is called.
LEMMA ScanKeeps ==
  ASSUME NEW file, NEW view, NEW filter, NEW name
  PROVE  Q!Answer(file, view, filter, Q!Scan(name)) = Q!Answer(file, view, filter, Q!Scan("ScanOnly"))
<1> DEFINE a == Q!Scan(name)
           b == Q!Scan("ScanOnly")
<1>1. a.every = b.every /\ a.ranges = b.ranges
  BY DEF Q!Scan
<1> HIDE DEF a, b
<1>2. Q!Selected(file, view, filter, a) = Q!Selected(file, view, filter, b)
  BY <1>1 DEF Q!Selected
<1>3. Q!Answer(file, view, filter, a) = Q!Answer(file, view, filter, b)
  BY <1>2 DEF Q!Answer
<1> QED BY <1>3 DEF a, b

\* A number in a range that is covered is in a range.
LEMMA InCovered ==
  ASSUME NEW ranges \in Seq(IdRange), NEW p \in IdRange, Covers(ranges, p),
         NEW id \in Int, p[1] <= id, id <= p[2]
  PROVE  \E r \in Q!ToSet(ranges) : id \in r[1]..r[2]
<1>1. PICK r \in Q!ToSet(ranges) : r[1] <= p[1] /\ p[2] <= r[2]
  BY DEF Covers
<1>2. r \in IdRange
  BY DEF Q!ToSet
<1>3. r[1] \in Int /\ r[2] \in Int /\ p[1] \in Int /\ p[2] \in Int
  BY <1>2 DEF IdRange
<1> QED BY <1>1, <1>3

\* The row-group index narrows and never decides.
LEMMA RowGroupsKeep ==
  ASSUME NEW file \in Seq(Group), NEW view \in Box, NEW filter \in BOOLEAN, NEW stats \in Stats
  PROVE  Q!Answer(file, view, filter, Q!RowGroupPlan(file, view, stats)) = Q!Answer(file, view, filter, Q!Scan("ScanOnly"))
<1> DEFINE raw == [g \in DOMAIN file |-> Q!RawGroup(file[g], stats.noise, stats.gap)]
           idx == Q!Admit(raw)
           sel == Q!RangesFor(idx.entries, view)
           n == Len(file)
           entry == [g \in 1..n |-> Q!Entry(Q!RawGroup(file[g], stats.noise, stats.gap))]
           kept == {i \in DOMAIN entry : Q!MustRead(entry[i], view)}
           range == [i \in DOMAIN entry |-> <<entry[i].lo, entry[i].hi>>]
           plan == Q!RowGroupPlan(file, view, stats)
<1>1. n \in Nat /\ DOMAIN file = 1..n /\ \A g \in 1..n : file[g] \in Group
  OBVIOUS
<1>2. idx.entries = entry /\ idx.ok => \A g \in 1..n : Q!IdsAreKnown(Q!RawGroup(file[g], stats.noise, stats.gap))
  BY <1>1 DEF Q!Admit
<1>3. DOMAIN entry = 1..n /\ Len(entry) = n /\ idx.entries = entry
  BY <1>1 DEF Q!Admit
<1>4. sel.ranges = Q!Merged(kept, range, n)
  <2>1. sel.ranges = Q!Merged(kept, range, Len(entry))
    BY <1>3 DEF Q!RangesFor
  <2> QED BY <1>3, <2>1
<1>5. ASSUME idx.ok
      PROVE  Q!Answer(file, view, filter, Q!Plan("RowGroupsPruned", sel.ranges)) = Q!Answer(file, view, filter, Q!Scan("ScanOnly"))
  <2>1. \A g \in 1..n : Q!IdsAreKnown(Q!RawGroup(file[g], stats.noise, stats.gap))
    BY <1>2, <1>3, <1>5
  <2>2. ASSUME NEW g \in 1..n
        PROVE  /\ range[g] = <<entry[g].lo, entry[g].hi>> /\ range[g] \in IdRange
               /\ \A i \in DOMAIN file[g] : file[g][i].id \in Int /\ entry[g].lo <= file[g][i].id
                                            /\ file[g][i].id <= entry[g].hi
    <3>1. file[g] \in Group /\ Q!IdsAreKnown(Q!RawGroup(file[g], stats.noise, stats.gap))
      BY <1>1, <2>1
    <3>2. entry[g] = Q!Entry(Q!RawGroup(file[g], stats.noise, stats.gap)) /\ range[g] = <<entry[g].lo, entry[g].hi>>
      BY <1>3
    <3> HIDE DEF entry, range
    <3> QED BY <3>1, <3>2, IdsAreBounded
  <2>3. range \in [1..n -> IdRange]
    <3>1. range = [g \in 1..n |-> range[g]]
      BY <1>3
    <3> HIDE DEF range
    <3> QED BY <2>2, <3>1
  <2>4. ASSUME NEW p \in DOMAIN Q!Rows(file), Q!Intersects(Q!Rows(file)[p].box, view)
        PROVE  \E r \in Q!ToSet(sel.ranges) : Q!Rows(file)[p].id \in r[1]..r[2]
    <3> DEFINE g == p[1]
               i == p[2]
    <3>1. g \in 1..n /\ file[g] \in Group /\ i \in DOMAIN file[g] /\ Q!Rows(file)[p] = file[g][i]
      BY <1>1, RowFacts
    <3> HIDE DEF g, i
    <3>2. Q!MustRead(Q!Entry(Q!RawGroup(file[g], stats.noise, stats.gap)), view)
      BY <2>4, <3>1, RowsInViewAreRead
    <3>3. g \in kept
      BY <1>3, <3>1, <3>2
    <3>4. range[g] \in IdRange /\ range[g][1] <= file[g][i].id /\ file[g][i].id <= range[g][2] /\ file[g][i].id \in Int
      <4>1. range[g] = <<entry[g].lo, entry[g].hi>> /\ range[g] \in IdRange
        BY <2>2, <3>1
      <4>2. file[g][i].id \in Int /\ entry[g].lo <= file[g][i].id /\ file[g][i].id <= entry[g].hi
        BY <2>2, <3>1
      <4> HIDE DEF range, entry
      <4>3. range[g][1] = entry[g].lo /\ range[g][2] = entry[g].hi
        BY <4>1
      <4> QED BY <4>1, <4>2, <4>3
    <3> HIDE DEF kept, range, sel
    <3>5. sel.ranges \in Seq(IdRange) /\ Covers(sel.ranges, range[g])
      BY <1>1, <1>4, <2>3, <3>1, <3>3, MergedCovers
    <3> QED BY <3>1, <3>4, <3>5, InCovered
  <2> HIDE DEF sel
  <2> QED BY <2>4, CoveringKeeps
<1>6. \/ \E name : plan = Q!Scan(name)
      \/ idx.ok /\ plan = Q!Plan("RowGroupsPruned", sel.ranges)
  <2> DEFINE prunable == idx.ok /\ Q!Usable(view)
             many == Len(sel.ranges) > MaxGroupRanges
  <2>1. plan = CASE ~prunable -> Q!Scan("RowGroupsNotPrunable")
                 [] prunable /\ sel.kept = 0 -> Q!Scan("RowGroupsExcludeAll")
                 [] prunable /\ sel.kept = Len(file) -> Q!Scan("RowGroupsKeptAll")
                 [] prunable /\ sel.kept \notin {0, Len(file)} ->
                       IF many THEN Q!Scan("RowGroupsTooFragmented") ELSE Q!Plan("RowGroupsPruned", sel.ranges)
    BY DEF Q!RowGroupPlan
  <2>2. prunable => idx.ok
    OBVIOUS
  <2> HIDE DEF plan, sel, idx, prunable, many
  <2> QED BY <2>1, <2>2
<1> HIDE DEF plan, sel, idx
<1>7. CASE \E name : plan = Q!Scan(name)
  BY <1>7, ScanKeeps DEF plan
<1>8. CASE idx.ok /\ plan = Q!Plan("RowGroupsPruned", sel.ranges)
  BY <1>5, <1>8 DEF plan
<1> QED BY <1>6, <1>7, <1>8

-----------------------------------------------------------------------------
(* The query plan: the grid.                                                *)

\* A coordinate further on is in no earlier column, nor a row in an earlier one.
LEMMA CellsFollow ==
  ASSUME AxisCells \in Nat \ {0}, NEW a \in Int, NEW b \in Int, a <= b, NEW o \in Int, NEW d \in Nat \ {0}
  PROVE  /\ Q!Clamp(((a - o) * (AxisCells - 1)) \div d) \in Int
         /\ Q!Clamp(((b - o) * (AxisCells - 1)) \div d) \in Int
         /\ Q!Clamp(((a - o) * (AxisCells - 1)) \div d) <= Q!Clamp(((b - o) * (AxisCells - 1)) \div d)
<1> DEFINE n == AxisCells - 1
           s == (a - o) * n
           t == (b - o) * n
           k == s \div d
           l == t \div d
<1>1. n \in Nat
  OBVIOUS
<1>2. s \in Int /\ t \in Int
  OBVIOUS
<1>3. s <= t
  <2> DEFINE u == a - o
             v == b - o
  <2>1. u \in Int /\ v \in Int /\ u <= v
    OBVIOUS
  <2> HIDE DEF u, v, n
  <2>2. u * n <= v * n
    BY <1>1, <2>1
  <2> QED BY <2>2 DEF u, v
<1> HIDE DEF s, t
<1>4. k \in Int /\ l \in Int /\ k <= l
  <2>1. k \in Int /\ l \in Int /\ s = d * k + (s % d) /\ t = d * l + (t % d)
    BY <1>2
  <2>2. s % d \in 0..(d - 1) /\ t % d \in 0..(d - 1)
    BY <1>2
  <2> DEFINE x == s % d
             y == t % d
  <2> HIDE DEF k, l, x, y
  <2>3. ASSUME l < k PROVE FALSE
    <3>1. d * (l + 1) <= d * k
      BY <2>1, <2>3
    <3>2. d * (l + 1) = d * l + d
      BY <2>1
    <3> QED BY <1>2, <1>3, <2>1, <2>2, <3>1, <3>2
  <2> QED BY <2>1, <2>3
<1> HIDE DEF k, l
<1>5. Q!Clamp(k) \in Int /\ Q!Clamp(l) \in Int /\ Q!Clamp(k) <= Q!Clamp(l)
  BY <1>4 DEF Q!Clamp
<1> QED BY <1>5 DEF k, l, s, t, n

\* Of two boxes that meet, each is in a cell of the other.
LEMMA CellsMeet ==
  ASSUME AxisCells \in Nat \ {0}, NEW e \in Box, e[1] < e[3], e[2] < e[4],
         NEW b \in Box, Q!Usable(b), NEW v \in Box, Q!Usable(v), Q!Intersects(b, v)
  PROVE  Q!CellsOf(e, b) \cap Q!CellsOf(e, v) # {}
<1> DEFINE X(x) == Q!Clamp(((x - e[1]) * (AxisCells - 1)) \div (e[3] - e[1]))
           Y(y) == Q!Clamp(((y - e[2]) * (AxisCells - 1)) \div (e[4] - e[2]))
<1>1. /\ e[1] \in Int /\ e[2] \in Int /\ e[3] - e[1] \in Nat \ {0} /\ e[4] - e[2] \in Nat \ {0}
      /\ b[1] \in Int /\ b[2] \in Int /\ b[3] \in Int /\ b[4] \in Int
      /\ v[1] \in Int /\ v[2] \in Int /\ v[3] \in Int /\ v[4] \in Int
  BY DEF Box
<1>2. b[1] <= b[3] /\ b[2] <= b[4] /\ v[1] <= v[3] /\ v[2] <= v[4]
  BY DEF Q!Usable
<1>3. b[1] <= v[3] /\ v[1] <= b[3] /\ b[2] <= v[4] /\ v[2] <= b[4]
  BY <1>1 DEF Q!Intersects
<1>4. ASSUME NEW x \in Int, NEW y \in Int, x <= y PROVE X(x) \in Int /\ X(y) \in Int /\ X(x) <= X(y)
  BY <1>1, <1>4, CellsFollow
<1>5. ASSUME NEW x \in Int, NEW y \in Int, x <= y PROVE Y(x) \in Int /\ Y(y) \in Int /\ Y(x) <= Y(y)
  BY <1>1, <1>5, CellsFollow
<1>6. /\ Q!CellsOf(e, b) = (X(b[1])..X(b[3])) \X (Y(b[2])..Y(b[4]))
      /\ Q!CellsOf(e, v) = (X(v[1])..X(v[3])) \X (Y(v[2])..Y(v[4]))
  BY DEF Q!CellsOf, Q!CellOf
<1> HIDE DEF X, Y
<1>7. \E c \in Int : c \in X(b[1])..X(b[3]) /\ c \in X(v[1])..X(v[3])
  <2>1. X(b[1]) \in Int /\ X(b[3]) \in Int /\ X(v[1]) \in Int /\ X(v[3]) \in Int
    BY <1>1, <1>2, <1>4
  <2>2. X(b[1]) <= X(b[3]) /\ X(v[1]) <= X(v[3]) /\ X(b[1]) <= X(v[3]) /\ X(v[1]) <= X(b[3])
    BY <1>1, <1>2, <1>3, <1>4
  <2>3. CASE X(b[1]) <= X(v[1])
    <3>1. X(v[1]) \in X(b[1])..X(b[3]) /\ X(v[1]) \in X(v[1])..X(v[3])
      BY <2>1, <2>2, <2>3
    <3> QED BY <2>1, <3>1
  <2>4. CASE ~(X(b[1]) <= X(v[1]))
    <3>1. X(b[1]) \in X(b[1])..X(b[3]) /\ X(b[1]) \in X(v[1])..X(v[3])
      BY <2>1, <2>2, <2>4
    <3> QED BY <2>1, <3>1
  <2> QED BY <2>3, <2>4
<1>8. \E c \in Int : c \in Y(b[2])..Y(b[4]) /\ c \in Y(v[2])..Y(v[4])
  <2>1. Y(b[2]) \in Int /\ Y(b[4]) \in Int /\ Y(v[2]) \in Int /\ Y(v[4]) \in Int
    BY <1>1, <1>2, <1>5
  <2>2. Y(b[2]) <= Y(b[4]) /\ Y(v[2]) <= Y(v[4]) /\ Y(b[2]) <= Y(v[4]) /\ Y(v[2]) <= Y(b[4])
    BY <1>1, <1>2, <1>3, <1>5
  <2>3. CASE Y(b[2]) <= Y(v[2])
    <3>1. Y(v[2]) \in Y(b[2])..Y(b[4]) /\ Y(v[2]) \in Y(v[2])..Y(v[4])
      BY <2>1, <2>2, <2>3
    <3> QED BY <2>1, <3>1
  <2>4. CASE ~(Y(b[2]) <= Y(v[2]))
    <3>1. Y(b[2]) \in Y(b[2])..Y(b[4]) /\ Y(b[2]) \in Y(v[2])..Y(v[4])
      BY <2>1, <2>2, <2>4
    <3> QED BY <2>1, <3>1
  <2> QED BY <2>3, <2>4
<1>9. PICK c \in Int, r \in Int : /\ c \in X(b[1])..X(b[3]) /\ c \in X(v[1])..X(v[3])
                                  /\ r \in Y(b[2])..Y(b[4]) /\ r \in Y(v[2])..Y(v[4])
  BY <1>7, <1>8
<1>10. <<c, r>> \in Q!CellsOf(e, b) /\ <<c, r>> \in Q!CellsOf(e, v)
  BY <1>6, <1>9
<1> QED BY <1>10

\* What is left of the index when the extent has an area: every row is in its cells or is
\* considered always.
LEMMA CandidatesCover ==
  ASSUME AxisCells \in Nat \ {0}, NEW file \in Seq(Group), NEW view \in Box,
         Q!Indexable(Q!Rows(file)), Q!Candidates(Q!Rows(file), view)[1],
         NEW p \in DOMAIN Q!Rows(file), Q!Intersects(Q!Rows(file)[p].box, view)
  PROVE  Q!IndexedId(Q!Rows(file)[p]) \in Q!Candidates(Q!Rows(file), view)[2]
<1> DEFINE rows == Q!Rows(file)
           D == DOMAIN rows
           ext == Q!Extent(rows)
           g == Q!Grid(rows)
           flat == D = {} \/ ext[1] >= ext[3] \/ ext[2] >= ext[4]
           wide == {q \in D : Q!Cardinality(Q!CellsOf(ext, rows[q].box)) > MaxCells}
           none == ~Q!Usable(view) \/ \A q \in D : g.cells[q] = {}
           ids == {Q!IndexedId(rows[q]) : q \in {j \in D : /\ j \in g.spanning \/ g.cells[j] \cap Q!CellsOf(g.extent, view) # {}
                                                           /\ Q!Intersects(rows[j].box, view)}}
<1>0. p \in D /\ \A q \in D : rows[q] \in Feature
  BY RowFacts
<1>1. g.extent = (IF D = {} THEN <<0, 0, 0, 0>> ELSE ext)
  BY DEF Q!Grid
<1>2. g.cells = [q \in D |-> IF flat THEN {} ELSE IF q \in wide THEN {} ELSE Q!CellsOf(ext, rows[q].box)]
  BY DEF Q!Grid
<1>3. g.spanning = (IF flat THEN {} ELSE wide)
  BY DEF Q!Grid
<1>4. Q!Candidates(rows, view) = IF none THEN <<FALSE, {}>> ELSE <<TRUE, ids>>
  BY DEF Q!Candidates
<1>5. Q!Usable(rows[p].box)
  BY DEF Q!Indexable
<1>6. ext \in Box
  <2>1. IsFiniteSet(D) /\ D # {}
    <3>1. D = UNION {{h} \X DOMAIN file[h] : h \in DOMAIN file}
      BY DEF Q!Rows
    <3>2. IsFiniteSet(DOMAIN file)
      <4>1. DOMAIN file = 1..Len(file) /\ 1 \in Int /\ Len(file) \in Int
        OBVIOUS
      <4> QED BY <4>1, FS_Interval
    <3> DEFINE part == [h \in DOMAIN file |-> {h} \X DOMAIN file[h]]
    <3>3. ASSUME NEW h \in DOMAIN file PROVE IsFiniteSet(part[h])
      <4>1. file[h] \in Group
        OBVIOUS
      <4>2. DOMAIN file[h] = 1..Len(file[h]) /\ 1 \in Int /\ Len(file[h]) \in Int
        BY <4>1 DEF Group
      <4>3. IsFiniteSet(DOMAIN file[h])
        BY <4>2, FS_Interval
      <4>4. IsFiniteSet({h})
        BY FS_Singleton
      <4>5. IsFiniteSet({h} \X DOMAIN file[h])
        BY <4>3, <4>4, FS_Product
      <4> QED BY <4>5
    <3>4. {part[h] : h \in DOMAIN file} = {{h} \X DOMAIN file[h] : h \in DOMAIN file}
      OBVIOUS
    <3> HIDE DEF part
    <3>5. IsFiniteSet({part[h] : h \in DOMAIN file})
      BY <3>2, ValuesAreFinite
    <3>6. IsFiniteSet(UNION {part[h] : h \in DOMAIN file})
      <4> DEFINE P == {part[h] : h \in DOMAIN file}
      <4>1. \A U \in P : IsFiniteSet(U)
        BY <3>3
      <4> HIDE DEF P
      <4>2. IsFiniteSet(P)
        BY <3>5 DEF P
      <4>3. IsFiniteSet(UNION P)
        BY <4>1, <4>2, FS_UNION
      <4> QED BY <4>3 DEF P
    <3> QED BY <1>0, <3>1, <3>4, <3>6
  <2> DEFINE at(k) == {rows[q].box[k] : q \in D}
  <2>2. ASSUME NEW k \in 1..4 PROVE Q!Min(at(k)) \in Int /\ Q!Max(at(k)) \in Int
    <3> DEFINE f == [q \in D |-> rows[q].box[k]]
    <3>1. ASSUME NEW q \in D PROVE rows[q].box[k] \in Int
      <4>1. rows[q].box \in Box
        BY <1>0 DEF Feature
      <4> HIDE DEF rows, D
      <4> QED BY <4>1 DEF Box
    <3> HIDE DEF rows, D
    <3>2. at(k) \in SUBSET Int /\ at(k) # {}
      BY <2>1, <3>1
    <3>3. at(k) = {f[q] : q \in D}
      OBVIOUS
    <3> HIDE DEF f, at
    <3>4. IsFiniteSet({f[q] : q \in D})
      BY <2>1, ValuesAreFinite
    <3>5. IsFiniteSet(at(k))
      BY <3>3, <3>4
    <3> QED BY <3>2, <3>5, LeastAndGreatest
  <2>3. ext = <<Q!Min(at(1)), Q!Min(at(2)), Q!Max(at(3)), Q!Max(at(4))>>
    BY DEF Q!Extent
  <2>4. Q!Min(at(1)) \in Int /\ Q!Min(at(2)) \in Int /\ Q!Max(at(3)) \in Int /\ Q!Max(at(4)) \in Int
    <3>1. 1 \in 1..4 /\ 2 \in 1..4 /\ 3 \in 1..4 /\ 4 \in 1..4
      OBVIOUS
    <3> HIDE DEF at
    <3> QED BY <2>2, <3>1
  <2> HIDE DEF at, ext
  <2> QED BY <2>3, <2>4 DEF Box
<1>7. rows[p].box \in Box
  BY <1>0 DEF Feature
<1>8. Q!Intersects(rows[p].box, view)
  OBVIOUS
<1>9. Q!Candidates(rows, view)[1]
  OBVIOUS
<1> HIDE DEF rows, D, ext, g, flat, wide, none
<1>10. ~none /\ Q!Candidates(rows, view)[2] = ids
  BY <1>4, <1>9
<1>11. ~flat /\ Q!Usable(view) /\ g.extent = ext
  <2>1. D # {} /\ Q!Usable(view) /\ ~(\A q \in D : g.cells[q] = {})
    BY <1>0, <1>10 DEF none
  <2> QED BY <1>1, <1>2, <2>1
<1>12. ext[1] < ext[3] /\ ext[2] < ext[4]
  <2>1. ext[1] \in Int /\ ext[2] \in Int /\ ext[3] \in Int /\ ext[4] \in Int
    BY <1>6 DEF Box
  <2> QED BY <1>11, <2>1 DEF flat
<1>13. p \in g.spanning \/ g.cells[p] \cap Q!CellsOf(g.extent, view) # {}
  <2>1. CASE p \in wide
    BY <1>3, <1>11, <2>1
  <2>2. CASE p \notin wide
    <3>1. g.cells[p] = Q!CellsOf(ext, rows[p].box)
      BY <1>0, <1>2, <1>11, <2>2
    <3>2. Q!CellsOf(ext, rows[p].box) \cap Q!CellsOf(ext, view) # {}
      BY <1>5, <1>6, <1>7, <1>8, <1>11, <1>12, CellsMeet
    <3> QED BY <1>11, <3>1, <3>2
  <2> QED BY <2>1, <2>2
<1>14. Q!IndexedId(rows[p]) \in ids
  BY <1>0, <1>8, <1>13
<1> QED BY <1>10, <1>14 DEF rows

\* The experimental index narrows and never decides, over rows that have an identity.
LEMMA IndexKeeps ==
  ASSUME MaxId \in Nat, AxisCells \in Nat \ {0},
         NEW file \in Seq(Group), NEW view \in Box, NEW filter \in BOOLEAN,
         \A p \in DOMAIN Q!Rows(file) : Q!Rows(file)[p].id # Q!NoId
  PROVE  Q!Answer(file, view, filter, Q!IndexPlan(file, view)) = Q!Answer(file, view, filter, Q!Scan("ScanOnly"))
<1> DEFINE rows == Q!Rows(file)
           found == Q!Candidates(rows, view)
           kept == {id + 1 : id \in found[2]}
           n == MaxId + 1
           range == [i \in 1..n |-> <<i - 1, i - 1>>]
           ranges == Q!Merged(kept, range, n)
           fits == Len(ranges) <= MaxIdRanges
           narrows == Q!Indexable(rows) /\ found[1] /\ found[2] # {}
           plan == Q!IndexPlan(file, view)
<1>1. n \in Nat /\ range \in [1..n -> IdRange]
  <2>1. n \in Nat
    OBVIOUS
  <2>2. ASSUME NEW i \in 1..n PROVE <<i - 1, i - 1>> \in IdRange
    <3>1. i - 1 \in Int /\ i - 1 <= i - 1
      BY <2>1
    <3> QED BY <3>1 DEF IdRange
  <2> QED BY <2>1, <2>2
<1>2. ASSUME narrows
      PROVE  Q!Answer(file, view, filter, Q!Plan("IndexNarrowed", ranges)) = Q!Answer(file, view, filter, Q!Scan("ScanOnly"))
  <2>1. ASSUME NEW p \in DOMAIN Q!Rows(file), Q!Intersects(Q!Rows(file)[p].box, view)
        PROVE  \E r \in Q!ToSet(ranges) : Q!Rows(file)[p].id \in r[1]..r[2]
    <3> DEFINE id == Q!Rows(file)[p].id
    <3>1. id \in 0..MaxId /\ Q!IndexedId(Q!Rows(file)[p]) = id
      <4>1. Q!Rows(file)[p] \in Feature /\ id # Q!NoId
        BY RowFacts
      <4> QED BY <4>1 DEF Feature, Q!IndexedId
    <3>2. id \in found[2]
      BY <1>2, <2>1, <3>1, CandidatesCover
    <3> HIDE DEF id
    <3>3. id + 1 \in 1..n /\ id + 1 \in kept /\ id \in Int
      BY <1>1, <3>1, <3>2
    <3>4. range[id + 1] = <<id, id>> /\ range[id + 1] \in IdRange
      <4>1. range[id + 1] = <<id + 1 - 1, id + 1 - 1>> /\ id + 1 - 1 = id
        BY <3>3
      <4> QED BY <1>1, <3>3, <4>1
    <3>5. range[id + 1][1] <= id /\ id <= range[id + 1][2]
      BY <3>3, <3>4
    <3> HIDE DEF kept, range, n, ranges
    <3>6. ranges \in Seq(IdRange) /\ Covers(ranges, range[id + 1])
      BY <1>1, <3>3, MergedCovers DEF ranges
    <3>7. \E r \in Q!ToSet(ranges) : id \in r[1]..r[2]
      BY <3>3, <3>4, <3>5, <3>6, InCovered
    <3> QED BY <3>7 DEF id
  <2> HIDE DEF ranges
  <2> QED BY <2>1, CoveringKeeps
<1>3. \/ \E name : plan = Q!Scan(name)
      \/ narrows /\ plan = Q!Plan("IndexNarrowed", ranges)
  <2>1. Q!CompressToRanges(found[2], MaxIdRanges) = <<fits, ranges>>
    BY DEF Q!CompressToRanges
  <2> DEFINE c == Q!CompressToRanges(found[2], MaxIdRanges)
  <2>2. plan = CASE ~narrows -> Q!Scan("ScanOnly")
                 [] narrows /\ ~c[1] -> Q!Scan("IndexTooFragmented")
                 [] narrows /\ c[1] -> Q!Plan("IndexNarrowed", c[2])
    BY DEF Q!IndexPlan
  <2> HIDE DEF plan, narrows, c, ranges, fits
  <2>3. c[2] = ranges
    BY <2>1 DEF c
  <2> QED BY <2>2, <2>3
<1> HIDE DEF plan, narrows, ranges
<1>4. CASE \E name : plan = Q!Scan(name)
  BY <1>4, ScanKeeps DEF plan
<1>5. CASE narrows /\ plan = Q!Plan("IndexNarrowed", ranges)
  BY <1>2, <1>5 DEF plan
<1> QED BY <1>3, <1>4, <1>5

\* Whatever index is in use, the query answers what the plain scan answers (stream.rs build_sql:
\* "keeping both makes the result set provably identical to the unindexed one"): for every file
\* whose groups have rows, every viewport and all ceilings, with statistics that are missing or
\* off by a unit, and with null identities, where the experimental index makes no promise.
THEOREM PlansKeepTheAnswer ==
  ASSUME MaxId \in Nat, AxisCells \in Nat \ {0},
         NEW file \in Seq(Group), NEW view \in Box, NEW use \in {"Off", "RowGroups", "Experimental"},
         NEW filter \in BOOLEAN, NEW stats \in Stats
  PROVE  Q!PlanKeepsTheAnswer(file, view, use, filter, stats)
<1>1. CASE use = "Off"
  <2>1. Q!BuildSql(file, view, use, stats) = Q!Scan("ScanOnly")
    BY <1>1 DEF Q!BuildSql
  <2> QED BY <2>1 DEF Q!PlanKeepsTheAnswer
<1>2. CASE use = "RowGroups"
  <2>1. Q!BuildSql(file, view, use, stats) = Q!RowGroupPlan(file, view, stats)
    BY <1>2 DEF Q!BuildSql
  <2> QED BY <2>1, RowGroupsKeep DEF Q!PlanKeepsTheAnswer
<1>3. CASE use = "Experimental"
  <2>1. Q!BuildSql(file, view, use, stats) = Q!IndexPlan(file, view)
    BY <1>3 DEF Q!BuildSql
  <2> QED BY <1>3, <2>1, IndexKeeps DEF Q!PlanKeepsTheAnswer
<1> QED BY <1>1, <1>2, <1>3

-----------------------------------------------------------------------------
(* The audit log's rotation.                                                *)

CONSTANTS MaxLines, Generations

L == INSTANCE AuditLog

\* A sequence and then another one.
Then(s, t) == s \o t

LEMMA ThenIsSequence ==
  ASSUME NEW S, NEW s \in Seq(S), NEW t \in Seq(S)
  PROVE  Then(s, t) \in Seq(S) /\ Then(s, <<>>) = s
<1>1. s \o t \in Seq(S) /\ s \o <<>> = s
  BY ConcatProperties, ConcatEmptySeq
<1> QED BY <1>1 DEF Then

LEMMA ThenAssociates ==
  ASSUME NEW S, NEW s \in Seq(S), NEW t \in Seq(S), NEW u \in Seq(S)
  PROVE  Then(Then(s, t), u) = Then(s, Then(t, u))
<1>1. (s \o t) \o u = s \o (t \o u)
  BY ConcatAssociative
<1> QED BY <1>1 DEF Then

\* f is the concatenations of the first sequences, up to that of all of them.
Flattens(f, n, seqs) == /\ f[1] = seqs[1] /\ \A i \in 2..n : f[i] = Then(f[i - 1], seqs[i])
                        /\ L!FlattenSeq(seqs) = f[n]

\* A concatenation as the value of its recursion.
LEMMA Flattened ==
  ASSUME NEW S, NEW n \in Nat \ {0}, NEW seqs \in [1..n -> Seq(S)]
  PROVE  \E f \in [1..n -> Seq(S)] : Flattens(f, n, seqs)
<1> DEFINE U == Seq(S)
           step == [p \in U \X (1..n) |-> IF p[2] = 1 THEN seqs[1] ELSE Then(p[1], seqs[p[2]])]
           Is(h) == h = [i \in 1..Len(seqs) |-> IF i = 1 THEN seqs[i] ELSE Then(h[i - 1], seqs[i])]
<1>0. Len(seqs) = n /\ 1 \in 1..n
  OBVIOUS
<1>1. step \in [U \X (1..n) -> U]
  <2> SUFFICES ASSUME NEW p \in U \X (1..n)
               PROVE (IF p[2] = 1 THEN seqs[1] ELSE Then(p[1], seqs[p[2]])) \in U
    OBVIOUS
  <2>1. p[1] \in Seq(S) /\ seqs[p[2]] \in Seq(S) /\ seqs[1] \in Seq(S)
    BY <1>0
  <2>2. Then(p[1], seqs[p[2]]) \in Seq(S)
    BY <2>1, ThenIsSequence
  <2> QED BY <2>1, <2>2
<1>2. \A t \in U, i \in 1..n : step[<<t, i>>] = IF i = 1 THEN seqs[1] ELSE Then(t, seqs[i])
  OBVIOUS
<1>3. <<>> \in U
  OBVIOUS
<1> HIDE DEF U, step
<1>4. PICK r \in [0..n -> U] : Runs(r, n, <<>>, step)
  BY <1>1, <1>3, RecursionExists
<1> DEFINE f == [i \in 1..n |-> r[i]]
<1>5. ASSUME NEW i \in 1..n PROVE r[i] = IF i = 1 THEN seqs[1] ELSE Then(r[i - 1], seqs[i])
  <2>1. r[i - 1] \in U
    OBVIOUS
  <2>2. r[i] = step[<<r[i - 1], i>>]
    BY <1>4 DEF Runs
  <2> QED BY <1>2, <2>1, <2>2
<1>6. /\ f \in [1..n -> U] /\ f[1] = seqs[1]
      /\ \A i \in 2..n : f[i] = Then(f[i - 1], seqs[i])
  <2>1. f \in [1..n -> U] /\ \A i \in 1..n : f[i] = r[i]
    OBVIOUS
  <2>2. \A i \in 2..n : i \in 1..n /\ i - 1 \in 1..n /\ i # 1
    OBVIOUS
  <2> HIDE DEF f
  <2> QED BY <1>0, <1>5, <2>1, <2>2
<1> HIDE DEF f
<1>7. Is(f)
  <2> DEFINE g == [i \in 1..n |-> IF i = 1 THEN seqs[i] ELSE Then(f[i - 1], seqs[i])]
  <2>1. ASSUME NEW i \in 1..n PROVE f[i] = g[i]
    <3>1. CASE i = 1
      BY <1>6, <3>1
    <3>2. CASE i # 1
      <4>1. i \in 2..n
        BY <3>2
      <4> QED BY <1>6, <3>2, <4>1
    <3> QED BY <3>1, <3>2
  <2>2. f = [i \in 1..n |-> f[i]]
    BY <1>6
  <2>3. f = g
    BY <2>1, <2>2
  <2> QED BY <1>0, <2>3
<1>8. ASSUME NEW h, Is(h) PROVE h = f
  <2> DEFINE Good == {k \in Nat : k + 1 <= n => h[k + 1] = f[k + 1]}
  <2>0. DOMAIN h = 1..n /\ h = [i \in 1..n |-> h[i]]
    BY <1>0, <1>8
  <2>1. 0 \in Good
    BY <1>0, <1>6, <1>8
  <2>2. ASSUME NEW k \in Nat, k \in Good PROVE k + 1 \in Good
    <3> SUFFICES ASSUME k + 1 + 1 <= n PROVE h[k + 1 + 1] = f[k + 1 + 1]
      OBVIOUS
    <3>1. k + 1 + 1 \in 2..n /\ k + 1 + 1 \in 1..n /\ k + 1 + 1 # 1 /\ k + 1 + 1 - 1 = k + 1 /\ h[k + 1] = f[k + 1]
      BY <2>2
    <3>2. f[k + 1 + 1] = Then(f[k + 1], seqs[k + 1 + 1])
      BY <1>6, <3>1
    <3>3. h[k + 1 + 1] = Then(h[k + 1], seqs[k + 1 + 1])
      BY <1>0, <1>8, <3>1
    <3> QED BY <3>1, <3>2, <3>3
  <2> HIDE DEF Good
  <2>3. Nat \subseteq Good
    BY <2>1, <2>2, Induction
  <2>4. ASSUME NEW i \in 1..n PROVE h[i] = f[i]
    <3>1. i - 1 \in Nat /\ i - 1 + 1 = i /\ i <= n
      OBVIOUS
    <3> QED BY <2>3, <3>1 DEF Good
  <2>5. f = [i \in 1..n |-> f[i]]
    BY <1>6
  <2> QED BY <2>0, <2>4, <2>5
<1>9. L!FlattenSeq(seqs) = f[n]
  <2>1. (CHOOSE h : Is(h)) = f
    BY <1>7, <1>8
  <2>2. Len(seqs) # 0
    BY <1>0
  <2> QED BY <1>0, <2>1, <2>2 DEF L!FlattenSeq, Then
<1> QED BY <1>6, <1>9 DEF U, Flattens

\* Every place before j takes what stood in the next one, and j is left empty.
Freed(old, new, n, j) ==
  \A i \in 1..n : new[i] = IF i < j THEN old[i + 1] ELSE IF i = j THEN <<>> ELSE old[i]

\* What stays when the first of some sequences goes and an empty one comes in at place j.
LEMMA FirstIsLost ==
  ASSUME NEW S, NEW n \in Nat \ {0}, NEW old \in [1..n -> Seq(S)], NEW new \in [1..n -> Seq(S)],
         NEW j \in 1..n,
         Freed(old, new, n, j)
  PROVE  /\ L!FlattenSeq(old) = Then(old[1], L!FlattenSeq(new))
         /\ L!FlattenSeq(new) \in Seq(S) /\ old[1] \in Seq(S)
<1>1. PICK f \in [1..n -> Seq(S)] : Flattens(f, n, old)
  BY Flattened
<1>2. PICK g \in [1..n -> Seq(S)] : Flattens(g, n, new)
  BY Flattened
<1>0. \A i \in 1..n : new[i] = IF i < j THEN old[i + 1] ELSE IF i = j THEN <<>> ELSE old[i]
  BY DEF Freed
<1>3. n \in 1..n /\ 1 \in 1..n /\ old[1] \in Seq(S) /\ g[n] \in Seq(S)
  OBVIOUS
<1> DEFINE Good == {k \in Nat : k + 1 <= n => IF k + 1 < j THEN f[k + 2] = Then(old[1], g[k + 1])
                                                           ELSE f[k + 1] = Then(old[1], g[k + 1])}
<1>4. 0 \in Good
  <2>1. CASE 1 < j
    <3>1. 2 \in 2..n /\ f[2] = Then(f[2 - 1], old[2]) /\ 2 - 1 = 1 /\ new[1] = old[1 + 1] /\ 1 + 1 = 2
      BY <1>0, <1>1, <1>3, <2>1 DEF Flattens
    <3> QED BY <1>1, <1>2, <2>1, <3>1 DEF Flattens
  <2>2. CASE ~(1 < j)
    <3>1. new[1] = <<>>
      BY <1>0, <1>3, <2>2
    <3>2. Then(old[1], <<>>) = old[1]
      BY <1>3, ThenIsSequence
    <3> QED BY <1>1, <1>2, <2>2, <3>1, <3>2 DEF Flattens
  <2> QED BY <2>1, <2>2
<1>5. ASSUME NEW k \in Nat, k \in Good PROVE k + 1 \in Good
  <2> SUFFICES ASSUME k + 2 <= n
               PROVE IF k + 2 < j THEN f[k + 3] = Then(old[1], g[k + 2]) ELSE f[k + 2] = Then(old[1], g[k + 2])
    OBVIOUS
  <2>1. /\ k + 1 \in 1..n /\ k + 2 \in 1..n /\ k + 2 \in 2..n /\ k + 2 - 1 = k + 1
        /\ g[k + 1] \in Seq(S) /\ new[k + 2] \in Seq(S)
    OBVIOUS
  <2>2. g[k + 2] = Then(g[k + 1], new[k + 2])
    BY <1>2, <2>1 DEF Flattens
  <2>3. Then(Then(old[1], g[k + 1]), new[k + 2]) = Then(old[1], g[k + 2])
    BY <1>3, <2>1, <2>2, ThenAssociates
  <2>4. CASE k + 2 < j
    <3>1. k + 1 < j /\ k + 3 \in 2..n /\ k + 3 - 1 = k + 2 /\ k + 2 + 1 = k + 3
      BY <2>4
    <3>2. f[k + 2] = Then(old[1], g[k + 1])
      BY <1>5, <2>1, <3>1
    <3>3. f[k + 3] = Then(f[k + 2], old[k + 3])
      BY <1>1, <3>1 DEF Flattens
    <3>4. new[k + 2] = old[k + 3]
      BY <1>0, <2>1, <2>4, <3>1
    <3> QED BY <2>3, <2>4, <3>2, <3>3, <3>4
  <2>5. CASE k + 2 = j
    <3>1. k + 1 < j /\ ~(k + 2 < j)
      BY <2>5
    <3>2. f[k + 2] = Then(old[1], g[k + 1])
      BY <1>5, <2>1, <3>1
    <3>3. new[k + 2] = <<>>
      BY <1>0, <2>1, <2>5
    <3>4. Then(g[k + 1], <<>>) = g[k + 1]
      BY <2>1, ThenIsSequence
    <3> QED BY <2>2, <3>1, <3>2, <3>3, <3>4
  <2>6. CASE k + 2 > j
    <3>1. ~(k + 1 < j) /\ ~(k + 2 < j)
      BY <2>6
    <3>2. f[k + 1] = Then(old[1], g[k + 1])
      BY <1>5, <2>1, <3>1
    <3>3. f[k + 2] = Then(f[k + 1], old[k + 2])
      BY <1>1, <2>1 DEF Flattens
    <3>4. new[k + 2] = old[k + 2]
      BY <1>0, <2>1, <2>6
    <3> QED BY <2>3, <3>1, <3>2, <3>3, <3>4
  <2> QED BY <2>4, <2>5, <2>6
<1> HIDE DEF Good
<1>6. Nat \subseteq Good
  BY <1>4, <1>5, Induction
<1>7. f[n] = Then(old[1], g[n])
  <2>1. n - 1 \in Nat /\ n - 1 + 1 = n /\ n <= n /\ ~(n < j)
    OBVIOUS
  <2>2. n - 1 \in Good
    BY <1>6, <2>1
  <2> QED BY <2>1, <2>2 DEF Good
<1> QED BY <1>1, <1>2, <1>3, <1>7 DEF Flattens

\* The end of a concatenation is its suffix.
LEMMA EndIsSuffix ==
  ASSUME NEW S, NEW s \in Seq(S), NEW t \in Seq(S)
  PROVE  L!IsSuffix(t, s \o t) /\ Len(s \o t) - Len(t) = Len(s) /\ (s \o t # t => s # <<>>)
<1> DEFINE w == s \o t
           m == Len(s)
           n == Len(t)
           a == L!Reverse(t)
           b == L!Reverse(w)
<1>1. m \in Nat /\ n \in Nat /\ Len(w) = m + n /\ \A i \in 1..(m + n) : w[i] = IF i <= m THEN s[i] ELSE t[i - m]
  BY ConcatProperties
<1>2. w # t => s # <<>>
  BY ConcatEmptySeq
<1> HIDE DEF w, m, n
<1>3. a = [i \in 1..n |-> t[n - i + 1]] /\ b = [i \in 1..(m + n) |-> w[m + n - i + 1]]
  BY <1>1 DEF L!Reverse, n
<1>4. Len(a) = n /\ Len(b) = m + n
  BY <1>1, <1>3
<1>5. ASSUME NEW i \in 1..n PROVE a[i] = b[i]
  <2>1. i \in 1..(m + n) /\ m + n - i + 1 \in 1..(m + n) /\ ~(m + n - i + 1 <= m) /\ m + n - i + 1 - m = n - i + 1
    BY <1>1
  <2> HIDE DEF a, b
  <2> QED BY <1>1, <1>3, <2>1
<1>6. SubSeq(a, 1, n) = [i \in 1..n |-> a[i]] /\ SubSeq(b, 1, n) = [i \in 1..n |-> b[i]]
  <2> HIDE DEF a, b
  <2> QED BY <1>1
<1>7. L!IsPrefix(a, b)
  <2> HIDE DEF a, b
  <2> QED BY <1>1, <1>4, <1>5, <1>6 DEF L!IsPrefix
<1>8. L!IsSuffix(t, w)
  BY <1>7 DEF L!IsSuffix
<1> QED BY <1>1, <1>2, <1>8 DEF w, m, n

\* The lines of a file and the logs they make, of any records.
LinesOf(R) == [recs : Seq(R), cut : BOOLEAN, newline : BOOLEAN]

Logs(R) == [live : Seq(LinesOf(R)), gens : [1..Generations -> Seq(LinesOf(R))]]

\* The records of a file are a sequence of them, empty for a file that is not there.
LEMMA RecordsOfAFile ==
  ASSUME NEW R, NEW file \in Seq(LinesOf(R))
  PROVE  /\ L!RecordsOf(file) \in Seq(R)
         /\ L!RecordsOf(<<>>) = <<>>
<1> DEFINE parts(f) == [i \in 1..Len(f) |-> f[i].recs]
<1>1. L!RecordsOf(<<>>) = <<>>
  <2>1. Len(parts(<<>>)) = 0
    OBVIOUS
  <2> HIDE DEF parts
  <2>2. L!FlattenSeq(parts(<<>>)) = parts(<<>>)
    BY <2>1 DEF L!FlattenSeq
  <2>3. parts(<<>>) = <<>>
    BY DEF parts
  <2> QED BY <2>2, <2>3 DEF L!RecordsOf, parts
<1>2. CASE Len(file) = 0
  <2>1. file = <<>>
    BY <1>2, EmptySeq
  <2>2. <<>> \in Seq(R)
    OBVIOUS
  <2> QED BY <1>1, <2>1, <2>2
<1>3. CASE Len(file) # 0
  <2>1. Len(file) \in Nat \ {0}
    BY <1>3
  <2>2. parts(file) \in [1..Len(file) -> Seq(R)]
    <3>1. ASSUME NEW i \in 1..Len(file) PROVE file[i].recs \in Seq(R)
      <4>1. file[i] \in LinesOf(R)
        OBVIOUS
      <4> QED BY <4>1 DEF LinesOf
    <3> QED BY <3>1
  <2> HIDE DEF parts
  <2>3. PICK f \in [1..Len(file) -> Seq(R)] : Flattens(f, Len(file), parts(file))
    BY <2>1, <2>2, Flattened
  <2>4. L!FlattenSeq(parts(file)) \in Seq(R)
    BY <2>1, <2>3 DEF Flattens
  <2> QED BY <1>1, <2>4 DEF L!RecordsOf, parts
<1> QED BY <1>1, <1>2, <1>3

\* The step of a rotation, whole or broken off, in the order of the files.
FreesPlace(log, other, j) == Freed(L!Files(log), L!Files(other), Generations + 1, j)

\* Such a step keeps the end of the records, and loses those of the oldest file.
LEMMA FreeingLosesTheOldest ==
  ASSUME NEW R, Generations \in Nat \ {0}, NEW log \in Logs(R), NEW other \in Logs(R),
         NEW j \in 1..(Generations + 1), FreesPlace(log, other, j)
  PROVE  /\ L!IsSuffix(L!Retained(other), L!Retained(log))
         /\ Len(L!Retained(log)) - Len(L!Retained(other))
               = Len(L!RecordsOf(log.gens[Generations]))
<1> DEFINE n == Generations + 1
           held(l) == [i \in 1..n |-> L!RecordsOf(L!Files(l)[i])]
<1>1. ASSUME NEW l \in Logs(R)
      PROVE /\ held(l) \in [1..n -> Seq(R)]
            /\ L!Files(l)[1] = l.gens[Generations]
  <2>1. \A i \in 1..n : L!Files(l)[i] \in Seq(LinesOf(R))
    BY DEF Logs, L!Files
  <2>2. L!Files(l)[1] = l.gens[Generations]
    BY DEF L!Files
  <2> QED BY <2>1, <2>2, RecordsOfAFile
<1>2. \A i \in 1..n : held(other)[i] = IF i < j THEN held(log)[i + 1]
                                       ELSE IF i = j THEN <<>> ELSE held(log)[i]
  <2>1. <<>> \in Seq(LinesOf(R))
    OBVIOUS
  <2>2. L!RecordsOf(<<>>) = <<>>
    BY <2>1, RecordsOfAFile
  <2>3. \A i \in 1..n : i < j => i + 1 \in 1..n
    OBVIOUS
  <2> QED BY <2>2, <2>3 DEF FreesPlace, Freed
<1>3. n \in Nat \ {0} /\ 1 \in 1..n /\ held(log)[1] = L!RecordsOf(log.gens[Generations])
  BY <1>1
<1>4. /\ L!Retained(log) = L!FlattenSeq(held(log))
      /\ L!Retained(other) = L!FlattenSeq(held(other))
  BY DEF L!Retained
<1> DEFINE old == held(log)
           new == held(other)
<1>5. old \in [1..n -> Seq(R)] /\ new \in [1..n -> Seq(R)]
  BY <1>1
<1> HIDE DEF held, n, old, new
<1>6. /\ L!FlattenSeq(old) = Then(old[1], L!FlattenSeq(new))
      /\ L!FlattenSeq(new) \in Seq(R) /\ old[1] \in Seq(R)
  <2>1. j \in 1..n
    BY DEF n
  <2>2. Freed(old, new, n, j)
    BY <1>2 DEF old, new, Freed
  <2> QED BY <1>3, <1>5, <2>1, <2>2, FirstIsLost
<1>7. LET w == old[1] \o L!FlattenSeq(new)
      IN L!IsSuffix(L!FlattenSeq(new), w) /\ Len(w) - Len(L!FlattenSeq(new)) = Len(old[1])
  BY <1>6, EndIsSuffix
<1> QED BY <1>3, <1>4, <1>6, <1>7 DEF Then, old, new

\* What a log is after a rotation, or after one that broke off with place k free.
LEMMA RotationFrees ==
  ASSUME NEW R, Generations \in Nat \ {0}, NEW log \in Logs(R)
  PROVE  /\ L!Rotated(log) \in Logs(R) /\ FreesPlace(log, L!Rotated(log), Generations + 1)
         /\ \A k \in 1..Generations : /\ L!Shifted(log, k) \in Logs(R)
                                      /\ FreesPlace(log, L!Shifted(log, k), Generations + 1 - k)
<1> DEFINE lines == Seq(LinesOf(R))
           gens(k) == [m \in 1..Generations |-> IF m > k THEN log.gens[m - 1]
                                                ELSE IF m = k THEN <<>> ELSE log.gens[m]]
<1>1. log.live \in lines /\ log.gens \in [1..Generations -> lines] /\ <<>> \in lines
      /\ log = [live |-> log.live, gens |-> log.gens]
  BY DEF Logs
<1> HIDE DEF lines
<1>2. ASSUME NEW k \in 1..Generations
      PROVE /\ L!Shifted(log, k) = [live |-> log.live, gens |-> gens(k)]
            /\ gens(k) \in [1..Generations -> lines]
  <2>1. gens(k) \in [1..Generations -> lines]
    BY <1>1
  <2>2. gens(k) = [m \in 1..Generations |-> CASE m > k -> log.gens[m - 1]
                                              [] m = k -> L!NoFile
                                              [] m < k -> log.gens[m]]
    BY DEF L!NoFile
  <2> HIDE DEF gens
  <2>3. L!Shifted(log, k) = [log EXCEPT !.gens = gens(k)]
    BY <2>2 DEF L!Shifted
  <2> QED BY <1>1, <2>1, <2>3
<1>3. ASSUME NEW k \in 1..Generations
      PROVE /\ L!Shifted(log, k) \in Logs(R)
            /\ FreesPlace(log, L!Shifted(log, k), Generations + 1 - k)
  <2>1. L!Shifted(log, k) \in Logs(R)
    <3> HIDE DEF gens
    <3> QED BY <1>1, <1>2 DEF Logs, lines
  <2>2. ASSUME NEW i \in 1..(Generations + 1)
        PROVE L!Files(L!Shifted(log, k))[i]
                 = IF i < Generations + 1 - k THEN L!Files(log)[i + 1]
                   ELSE IF i = Generations + 1 - k THEN <<>> ELSE L!Files(log)[i]
    <3>1. ASSUME NEW m \in 1..Generations
          PROVE gens(k)[m] = IF m > k THEN log.gens[m - 1] ELSE IF m = k THEN <<>> ELSE log.gens[m]
      OBVIOUS
    <3> HIDE DEF gens
    <3>2. CASE i = Generations + 1
      BY <1>2, <3>2 DEF L!Files
    <3>3. CASE i # Generations + 1
      <4>1. Generations + 1 - i \in 1..Generations
        BY <3>3
      <4>2. L!Files(L!Shifted(log, k))[i] = gens(k)[Generations + 1 - i]
        BY <1>2, <3>3 DEF L!Files
      <4>3. L!Files(log)[i] = log.gens[Generations + 1 - i]
        BY <3>3 DEF L!Files
      <4>4. i < Generations + 1 - k => L!Files(log)[i + 1] = log.gens[Generations + 1 - i - 1]
        BY <3>3 DEF L!Files
      <4> QED BY <3>1, <4>1, <4>2, <4>3, <4>4
    <3> QED BY <3>2, <3>3
  <2> QED BY <2>1, <2>2 DEF FreesPlace, Freed
<1> DEFINE moved == [gens(1) EXCEPT ![1] = log.live]
<1>4. L!Rotated(log) = [live |-> <<>>, gens |-> moved] /\ moved \in [1..Generations -> lines]
  <2>1. 1 \in 1..Generations
    OBVIOUS
  <2>2. L!Shifted(log, 1) = [live |-> log.live, gens |-> gens(1)] /\ gens(1) \in [1..Generations -> lines]
    BY <1>2, <2>1
  <2> HIDE DEF gens
  <2>3. moved \in [1..Generations -> lines]
    BY <1>1, <2>1, <2>2
  <2>4. L!Rotated(log) = [[[live |-> log.live, gens |-> gens(1)] EXCEPT !.gens[1] = log.live]
                             EXCEPT !.live = <<>>]
    BY <2>2 DEF L!Rotated, L!NoFile
  <2> QED BY <2>3, <2>4
<1>5. L!Rotated(log) \in Logs(R)
  <2> HIDE DEF moved
  <2> QED BY <1>1, <1>4 DEF Logs, lines
<1>6. ASSUME NEW i \in 1..(Generations + 1)
      PROVE L!Files(L!Rotated(log))[i] = IF i < Generations + 1 THEN L!Files(log)[i + 1]
                                         ELSE IF i = Generations + 1 THEN <<>> ELSE L!Files(log)[i]
  <2>1. ASSUME NEW m \in 1..Generations
        PROVE moved[m] = IF m = 1 THEN log.live ELSE log.gens[m - 1]
    OBVIOUS
  <2> HIDE DEF moved
  <2> QED BY <1>4, <2>1 DEF L!Files
<1> QED BY <1>3, <1>5, <1>6 DEF FreesPlace, Freed

\* The rotation loses the oldest generation and nothing else, wherever it breaks off: for
\* every log of any records, every ceiling and every number of generations
\* (rotate_if_needed, which deletes the last generation and only then renames the others,
\* oldest first).
THEOREM RotationKeepsTheRest ==
  ASSUME NEW R, Generations \in Nat \ {0}, NEW log \in Logs(R)
  PROVE  L!RotationLosesOnlyTheOldest(log)
<1> SUFFICES ASSUME NEW r \in L!OpenResults(log, TRUE)
             PROVE /\ L!IsSuffix(L!Retained(r.log), L!Retained(log))
                   /\ L!Retained(r.log) # L!Retained(log) =>
                         /\ L!AtCeiling(log)
                         /\ Len(L!Retained(log)) - Len(L!Retained(r.log))
                               = Len(L!RecordsOf(log.gens[Generations]))
  BY DEF L!RotationLosesOnlyTheOldest
<1>1. \/ r.log = log
      \/ L!AtCeiling(log) /\ r.log = L!Rotated(log)
      \/ L!AtCeiling(log) /\ \E k \in 1..Generations : r.log = L!Shifted(log, k)
  BY DEF L!OpenResults, L!RotationFailures
<1>2. CASE r.log = log
  <2>1. L!Retained(log) \in Seq(R)
    <3>1. Generations + 1 \in 1..(Generations + 1)
      OBVIOUS
    <3> DEFINE held == [i \in 1..(Generations + 1) |-> L!RecordsOf(L!Files(log)[i])]
    <3>2. \A i \in 1..(Generations + 1) : L!Files(log)[i] \in Seq(LinesOf(R))
      BY DEF Logs, L!Files
    <3>3. held \in [1..(Generations + 1) -> Seq(R)] /\ Generations + 1 \in Nat \ {0}
      BY <3>2, RecordsOfAFile
    <3> HIDE DEF held
    <3>4. PICK f \in [1..(Generations + 1) -> Seq(R)] : Flattens(f, Generations + 1, held)
      BY <3>3, Flattened
    <3> QED BY <3>1, <3>4 DEF Flattens, L!Retained, held
  <2>2. <<>> \in Seq(R) /\ <<>> \o L!Retained(log) = L!Retained(log)
    BY <2>1, ConcatEmptySeq
  <2>3. L!IsSuffix(L!Retained(log), <<>> \o L!Retained(log))
    BY <2>1, <2>2, EndIsSuffix
  <2> QED BY <1>2, <2>2, <2>3
<1>3. CASE L!AtCeiling(log) /\ r.log = L!Rotated(log)
  <2>1. Generations + 1 \in 1..(Generations + 1)
    OBVIOUS
  <2> QED BY <1>3, <2>1, RotationFrees, FreeingLosesTheOldest
<1>4. CASE L!AtCeiling(log) /\ \E k \in 1..Generations : r.log = L!Shifted(log, k)
  <2>1. PICK k \in 1..Generations : r.log = L!Shifted(log, k)
    BY <1>4
  <2>2. Generations + 1 - k \in 1..(Generations + 1)
    OBVIOUS
  <2>3. L!Shifted(log, k) \in Logs(R) /\ FreesPlace(log, L!Shifted(log, k), Generations + 1 - k)
    BY RotationFrees
  <2>4. /\ L!IsSuffix(L!Retained(L!Shifted(log, k)), L!Retained(log))
        /\ Len(L!Retained(log)) - Len(L!Retained(L!Shifted(log, k)))
              = Len(L!RecordsOf(log.gens[Generations]))
    BY <2>2, <2>3, FreeingLosesTheOldest
  <2> QED BY <1>4, <2>1, <2>4
<1> QED BY <1>1, <1>2, <1>3, <1>4

-----------------------------------------------------------------------------
(* What a record of the audit log may carry.                                *)

CONSTANTS MaxGrants, MaxLifetime

P == INSTANCE PathScope

\* The findings of a scan, of any classes, and the two places the environment may name.
Findings(C) == Seq([class : C, declared : BOOLEAN])

Overrides(X) == [ok : {FALSE}] \cup [ok : {TRUE}, abs : BOOLEAN, dir : Seq(X)]

DataDirs(X) == [ok : {FALSE}] \cup [ok : {TRUE}, dir : Seq(X)]

\* A place that is not inside a directory is not under it by any of its beginnings.
LEMMA OutsideIsNotUnder ==
  ASSUME NEW X, NEW path \in Seq(X), NEW root \in Seq(X), ~P!IsInside(path, root),
         NEW n \in 1..Len(path)
  PROVE  SubSeq(path, 1, n) # root
<1> SUFFICES ASSUME SubSeq(path, 1, n) = root PROVE FALSE
  OBVIOUS
<1>1. /\ n \in Nat /\ n <= Len(path)
      /\ Len(SubSeq(path, 1, n)) = n
  BY SubSeqProperties
<1>2. SubSeq(root, 1, n) = root
  <2>1. Len(root) = n
    BY <1>1
  <2> QED BY <2>1, SubSeqFull
<1>3. Len(root) = n /\ n <= Len(path) /\ SubSeq(root, 1, n) = SubSeq(path, 1, n)
  BY <1>1, <1>2
<1>4. P!IsPrefix(root, path)
  <2> HIDE DEF P!IsPrefix
  <2> QED BY <1>3 DEF P!IsPrefix
<1> QED BY <1>4 DEF P!IsInside

\* Of the findings' classes, an identity declared in its own field becomes another; the others
\* stay what they are.
LEMMA ClassesAreKept ==
  ASSUME NEW C, NEW findings \in Findings(C)
  PROVE  LET classes == {P!ClassOf(f) : f \in P!ToSet(findings)}
         IN /\ "credential" \in classes <=> \E i \in DOMAIN findings : findings[i].class = "credential"
            /\ "local-filesystem-path" \in classes
                  <=> \E i \in DOMAIN findings : findings[i].class = "local-filesystem-path"
            /\ "username" \in classes
                  <=> \E i \in DOMAIN findings : findings[i] = [class |-> "username", declared |-> FALSE]
<1> DEFINE classes == {P!ClassOf(f) : f \in P!ToSet(findings)}
           F == [class : C, declared : BOOLEAN]
<1>1. \A i \in DOMAIN findings : findings[i] \in F
  <2> HIDE DEF F
  <2>1. findings \in Seq(F)
    BY DEF Findings, F
  <2> QED BY <2>1
<1>2. \A c : c \in classes <=> \E i \in DOMAIN findings : P!ClassOf(findings[i]) = c
  BY DEF P!ToSet
<1> HIDE DEF classes
<1>3. ASSUME NEW f \in F
      PROVE /\ P!ClassOf(f) = "credential" <=> f.class = "credential"
            /\ P!ClassOf(f) = "local-filesystem-path" <=> f.class = "local-filesystem-path"
            /\ P!ClassOf(f) = "username" <=> f = [class |-> "username", declared |-> FALSE]
  <2>1. f = [class |-> f.class, declared |-> f.declared] /\ f.declared \in BOOLEAN
    OBVIOUS
  <2>2. f = [class |-> "username", declared |-> FALSE] <=> f.class = "username" /\ f.declared = FALSE
    BY <2>1
  <2> QED BY <2>1, <2>2 DEF P!ClassOf, P!AttributableClasses
<1> HIDE DEF F
<1> QED BY <1>1, <1>2, <1>3 DEF classes

\* The log stays outside the bundle it tells of, and what its records carry was looked at: for
\* all findings of a scan, wherever the log and the bundle are (log.rs, redaction.rs).
THEOREM RecordsAreFitToKeep ==
  ASSUME NEW C, NEW X, {"spatial-ide", "audit", "publish.jsonl"} \subseteq X,
         NEW findings \in Findings(C), NEW override \in Overrides(X), NEW dataDir \in DataDirs(X),
         NEW destination \in Seq(X)
  PROVE  P!RecordIsFitToKeep(findings, override, dataDir, destination)
<1> DEFINE log == P!LogPath(override, dataDir)
           verdict == P!Classify(findings)
<1>1. log.ok => log.dir \in Seq(X)
  <2>1. <<"spatial-ide", "audit", "publish.jsonl">> \in Seq(X)
    OBVIOUS
  <2>2. ASSUME NEW s \in Seq(X) PROVE s \o <<"spatial-ide", "audit", "publish.jsonl">> \in Seq(X)
    BY <2>1, ConcatProperties
  <2>3. CASE override.ok
    BY <2>3 DEF P!LogPath, P!At, P!Nowhere, Overrides
  <2>4. CASE ~override.ok
    <3>1. CASE dataDir.ok
      <4>1. dataDir.dir \in Seq(X)
        BY <3>1 DEF DataDirs
      <4> DEFINE file == dataDir.dir \o <<"spatial-ide", "audit", "publish.jsonl">>
      <4>2. file \in Seq(X)
        BY <2>2, <4>1
      <4>3. log = P!At(file)
        BY <2>4, <3>1 DEF P!LogPath
      <4> HIDE DEF file, log
      <4> QED BY <4>2, <4>3 DEF P!At
    <3>2. CASE ~dataDir.ok
      BY <2>4, <3>2 DEF P!LogPath, P!Nowhere
    <3> QED BY <3>1, <3>2
  <2> QED BY <2>3, <2>4
<1> HIDE DEF log
<1>2. log.ok /\ ~P!IsInside(log.dir, destination)
         => \A n \in 1..Len(log.dir) : SubSeq(log.dir, 1, n) # destination
  BY <1>1, OutsideIsNotUnder
<1> DEFINE classes == {P!ClassOf(f) : f \in P!ToSet(findings)}
<1>3. /\ verdict.ok <=> "credential" \notin classes
      /\ verdict.ok => verdict.residual = classes \cap P!Residual
  <2>1. verdict = IF "credential" \in classes THEN [ok |-> FALSE, residual |-> {}]
                  ELSE [ok |-> TRUE, residual |-> classes \cap P!Residual]
    BY DEF P!Classify
  <2> HIDE DEF verdict, classes
  <2> QED BY <2>1
<1>4. /\ "credential" \in classes <=> \E i \in DOMAIN findings : findings[i].class = "credential"
      /\ "local-filesystem-path" \in classes
            <=> \E i \in DOMAIN findings : findings[i].class = "local-filesystem-path"
      /\ "username" \in classes
            <=> \E i \in DOMAIN findings : findings[i] = [class |-> "username", declared |-> FALSE]
  BY ClassesAreKept
<1> HIDE DEF verdict, classes
<1>5. "local-filesystem-path" \in P!Residual /\ "username" \in P!Residual
  BY DEF P!Residual
<1> QED BY <1>2, <1>3, <1>4, <1>5 DEF P!RecordIsFitToKeep, log, verdict

-----------------------------------------------------------------------------
(* What a predicate may compare and compute.                                *)

CONSTANTS MaxIntegerDigits, MaxDecimalScale

E == INSTANCE PredicateTypes

\* Every integer DuckDB's 64-bit columns hold has at most 20 digits, and what the ceilings let
\* a literal be fits a DECIMAL of 38.
Ceilings == /\ MaxIntegerDigits \in Nat /\ MaxDecimalScale \in Nat
            /\ 20 <= MaxIntegerDigits /\ MaxIntegerDigits + MaxDecimalScale <= 38

\* The types a column, a literal or an expression can have.
IntTypes == {"Int"} \X {8, 16, 32, 64, 128} \X {0, 1}
DecimalTypes == {"Decimal"} \X Nat \X Nat
Types == IntTypes \cup DecimalTypes \cup {E!Varchar, E!Boolean, E!Real, E!Double, E!Null}

\* A number of 129 bits or more has 39 digits.
Values == {v \in [neg : BOOLEAN, bits : Nat, digits : Nat] : v.bits >= 128 => v.digits >= 39}

Operands == [ty : Types, kind : {"Column", "Expression", "Literal"}, within : BOOLEAN,
             value : Values \cup {E!NoValue}, countsAsDecimal : BOOLEAN]

\* What holds of every operand, however it was computed: what is within the ceilings is no
\* number of 128 bits without a sign, and a literal integer or decimal has the digits they allow.
Sound(t) ==
    /\ t.ty = E!IntTy(128, 0) => ~t.within
    /\ E!IsInt(t) /\ E!Literal(t) /\ t.within => t.value.digits \in Nat /\ t.value.digits <= MaxIntegerDigits
    /\ E!IsDecimal(t) /\ (E!Literal(t) \/ t.countsAsDecimal) /\ t.within
         => t.ty[3] <= MaxDecimalScale /\ t.ty[2] - t.ty[3] <= MaxIntegerDigits

Operand == {t \in Operands : Sound(t)}

\* The kinds of types, each of which excludes the others.
LEMMA TypeKinds ==
  ASSUME NEW t \in Operands
  PROVE  /\ t.ty \in IntTypes \/ t.ty \in DecimalTypes
            \/ t.ty \in {E!Varchar, E!Boolean, E!Real, E!Double, E!Null}
         /\ E!IsInt(t) <=> t.ty \in IntTypes
         /\ E!IsDecimal(t) <=> t.ty \in DecimalTypes
         /\ E!IsFloat(t) <=> t.ty \in {E!Real, E!Double}
         /\ t.ty \in IntTypes => t.ty = <<"Int", t.ty[2], t.ty[3]>> /\ t.ty[2] \in {8, 16, 32, 64, 128} /\ t.ty[3] \in {0, 1}
         /\ t.ty \in DecimalTypes => t.ty = <<"Decimal", t.ty[2], t.ty[3]>> /\ t.ty[2] \in Nat /\ t.ty[3] \in Nat
<1>1. t.ty \in Types
  BY DEF Operands
<1>2. /\ \A x \in IntTypes : x[1] = "Int" /\ x = <<"Int", x[2], x[3]>> /\ x[2] \in {8, 16, 32, 64, 128} /\ x[3] \in {0, 1}
      /\ \A x \in DecimalTypes : x[1] = "Decimal" /\ x = <<"Decimal", x[2], x[3]>> /\ x[2] \in Nat /\ x[3] \in Nat
  BY DEF IntTypes, DecimalTypes
<1>3. /\ E!Varchar[1] = "Varchar" /\ E!Boolean[1] = "Boolean" /\ E!Real[1] = "Real"
      /\ E!Double[1] = "Double" /\ E!Null[1] = "Null"
  BY DEF E!Varchar, E!Boolean, E!Real, E!Double, E!Null
<1> QED BY <1>1, <1>2, <1>3 DEF Types, E!IsInt, E!IsDecimal, E!IsFloat

\* The type two integers are promoted to holds both, unless one is of 128 bits without a sign.
LEMMA PromotionHolds ==
  ASSUME NEW a \in IntTypes, NEW b \in IntTypes, a # E!IntTy(128, 0), b # E!IntTy(128, 0)
  PROVE  /\ E!Holds(E!IntPromote(a, b), a) /\ E!Holds(E!IntPromote(a, b), b)
         /\ E!IntPromote(a, b) \in IntTypes /\ E!IntPromote(a, b) # E!IntTy(128, 0)
<1>1. /\ a = <<"Int", a[2], a[3]>> /\ a[2] \in {8, 16, 32, 64, 128} /\ a[3] \in {0, 1}
      /\ b = <<"Int", b[2], b[3]>> /\ b[2] \in {8, 16, 32, 64, 128} /\ b[3] \in {0, 1}
  BY DEF IntTypes
<1>2. /\ a[3] = 0 => a[2] <= 64
      /\ b[3] = 0 => b[2] <= 64
  BY <1>1 DEF E!IntTy
<1>3. PICK n \in {8, 16, 32, 64, 128}, s \in {0, 1} :
         /\ E!IntPromote(a, b) = <<"Int", n, s>>
         /\ IF s = a[3] THEN n >= a[2] ELSE s = 1 /\ n > a[2]
         /\ IF s = b[3] THEN n >= b[2] ELSE s = 1 /\ n > b[2]
         /\ s = 0 => n <= 64
  <2>1. CASE a[3] = b[3]
    BY <1>1, <2>1 DEF E!IntPromote, E!IntTy
  <2>2. CASE a[3] = 1 /\ b[3] = 0
    BY <1>1, <1>2, <2>2 DEF E!IntPromote, E!IntTy
  <2>3. CASE a[3] = 0 /\ b[3] = 1
    BY <1>1, <1>2, <2>3 DEF E!IntPromote, E!IntTy
  <2> QED BY <1>1, <2>1, <2>2, <2>3
<1>4. E!IntPromote(a, b) # E!IntTy(128, 0)
  BY <1>3 DEF E!IntTy
<1>5. <<"Int", n, s>> \in IntTypes
  BY DEF IntTypes
<1>6. E!Holds(<<"Int", n, s>>, a) /\ E!Holds(<<"Int", n, s>>, b)
  BY <1>1, <1>3 DEF E!Holds
<1> QED BY <1>3, <1>4, <1>5, <1>6

LEMMA PromotionCommutes ==
  ASSUME NEW a \in IntTypes, NEW b \in IntTypes
  PROVE  E!IntPromote(a, b) = E!IntPromote(b, a)
<1>1. /\ a[2] \in {8, 16, 32, 64, 128} /\ a[3] \in {0, 1}
      /\ b[2] \in {8, 16, 32, 64, 128} /\ b[3] \in {0, 1}
  BY DEF IntTypes
<1>2. CASE a[3] = b[3]
  BY <1>1, <1>2 DEF E!IntPromote, E!IntTy
<1>3. CASE a[3] # b[3]
  BY <1>1, <1>3 DEF E!IntPromote, E!IntTy
<1> QED BY <1>2, <1>3

\* Two integers within the ceilings are of types whose promotion holds both.
LEMMA IntegersPromote ==
  ASSUME NEW l \in Operand, NEW r \in Operand, E!BoundInt(l), E!BoundInt(r)
  PROVE  /\ E!Holds(E!IntPromote(l.ty, r.ty), l.ty) /\ E!Holds(E!IntPromote(l.ty, r.ty), r.ty)
         /\ E!IntPromote(l.ty, r.ty) \in IntTypes /\ E!IntPromote(l.ty, r.ty) # E!IntTy(128, 0)
<1>1. l.ty \in IntTypes /\ r.ty \in IntTypes
  BY TypeKinds DEF Operand, E!BoundInt
<1>2. l.ty # E!IntTy(128, 0) /\ r.ty # E!IntTy(128, 0)
  BY DEF Operand, Sound, E!BoundInt
<1> QED BY <1>1, <1>2, PromotionHolds

\* The names of the classes, apart.
LEMMA Apart ==
  ASSUME NEW t \in Operands
  PROVE  /\ E!IsInt(t) => ~E!IsDecimal(t) /\ ~E!IsFloat(t)
         /\ E!IsDecimal(t) => ~E!IsFloat(t)
         /\ E!IsFloat(t) <=> t.ty = E!Real \/ t.ty = E!Double
         /\ E!IsNumeric(t) => t.ty # E!Null /\ t.ty # E!Varchar /\ t.ty # E!Boolean
         /\ E!Real # E!Double
<1>1. /\ E!IsInt(t) <=> t.ty[1] = "Int"
      /\ E!IsDecimal(t) <=> t.ty[1] = "Decimal"
      /\ E!IsFloat(t) <=> t.ty[1] \in {"Real", "Double"}
      /\ E!IsNumeric(t) <=> E!IsInt(t) \/ E!IsDecimal(t) \/ E!IsFloat(t)
  BY DEF E!IsInt, E!IsDecimal, E!IsFloat, E!IsNumeric
<1>2. /\ E!Varchar[1] = "Varchar" /\ E!Boolean[1] = "Boolean" /\ E!Real[1] = "Real"
      /\ E!Double[1] = "Double" /\ E!Null[1] = "Null"
  BY DEF E!Varchar, E!Boolean, E!Real, E!Double, E!Null
<1>3. E!IsFloat(t) <=> t.ty = E!Real \/ t.ty = E!Double
  BY TypeKinds
<1> QED BY <1>1, <1>2, <1>3

\* What an admitted comparison of two types can be, one operand as it comes and the other after
\* it or before it: two integers; a decimal and a number; a float and what it holds.
OneComparison(a, b) ==
    \/ E!BoundInt(a) /\ E!BoundInt(b)
    \/ E!BoundDecimal(a) /\ E!BoundDecimal(b)
    \/ E!BoundDecimal(a) /\ E!BoundInt(b) /\ (E!Literal(b) \/ b.ty[2] <= 64)
    \/ E!IsFloat(a) /\ ((E!IsInt(b) /\ E!Literal(b)) \/ E!IsDecimal(b) \/ E!IsFloat(b))
    \/ a.ty = E!Real /\ E!NarrowInt(b, 16)
    \/ a.ty = E!Double /\ E!NarrowInt(b, 32)

LEMMA ComparisonsAdmitted ==
  ASSUME NEW l \in Operand, NEW r \in Operand, E!AdmittedComparison(l, r), l.ty # r.ty,
         E!Null \notin {l.ty, r.ty}
  PROVE  OneComparison(l, r) \/ OneComparison(r, l)
<1> l \in Operands /\ r \in Operands
  BY DEF Operand
<1>1. ASSUME NEW a \in Operands, NEW b \in Operands
      PROVE /\ E!DoubleLiteral(a) => a.ty = E!Double /\ E!IsFloat(a) /\ E!Literal(a)
            /\ E!FloatColumn(a) => E!IsFloat(a) /\ (a.ty = E!Real \/ a.ty = E!Double)
            /\ E!NumericLiteral(b) => E!Literal(b) /\ (E!IsInt(b) \/ E!IsDecimal(b) \/ E!IsFloat(b))
            /\ E!BoundInt(b) => E!IsInt(b)
            /\ E!BoundDecimal(b) => E!IsDecimal(b)
  BY Apart DEF E!DoubleLiteral, E!FloatColumn, E!NumericLiteral, E!BoundInt, E!BoundDecimal
<1> DEFINE rule4(a, b) == E!BoundDecimal(b) /\ E!BoundInt(a) /\ (E!Literal(a) \/ a.ty[2] <= 64)
           rule5(a, b) == E!DoubleLiteral(a) /\ E!NarrowInt(b, 32)
           rule6(a, b) == E!FloatColumn(a) /\ (E!NumericLiteral(b) \/ (E!BoundDecimal(b) /\ b.countsAsDecimal))
           rule6b(a, b) == E!DoubleLiteral(a) /\ ((E!BoundInt(b) /\ E!Literal(b)) \/ E!BoundDecimal(b))
           rule7(a, b) == /\ E!FloatColumn(a)
                          /\ \/ a.ty = E!Real /\ E!NarrowInt(b, 16)
                             \/ a.ty = E!Double /\ E!NarrowInt(b, 32)
                             \/ a.ty = E!Real /\ E!FloatColumn(b) /\ b.ty = E!Double
           rule(a, b) == rule4(a, b) \/ rule5(a, b) \/ rule6(a, b) \/ rule6b(a, b) \/ rule7(a, b)
<1>2. ASSUME NEW a \in Operands, NEW b \in Operands, rule(a, b)
      PROVE OneComparison(a, b) \/ OneComparison(b, a)
  BY <1>1, <1>2 DEF OneComparison
<1>3. \/ E!BoundInt(l) /\ E!BoundInt(r)
      \/ E!BoundDecimal(l) /\ E!BoundDecimal(r)
      \/ rule(l, r) \/ rule(r, l)
  BY DEF E!AdmittedComparison, E!Either
<1> HIDE DEF rule
<1> QED BY <1>2, <1>3 DEF OneComparison

\* The digits before and after the point that a comparison with a decimal needs.
Digits(t) == IF E!IsDecimal(t) THEN t.ty[2] - t.ty[3]
             ELSE IF E!Literal(t) THEN t.value.digits ELSE E!IntDigits(t.ty)
Scale(t) == IF E!IsDecimal(t) THEN t.ty[3] ELSE 0

\* A bound decimal, and an integer it may be compared with, have the digits the ceilings allow.
LEMMA DigitsAreBounded ==
  ASSUME Ceilings, NEW t \in Operand,
         \/ E!BoundDecimal(t)
         \/ E!BoundInt(t) /\ (E!Literal(t) \/ t.ty[2] <= 64)
  PROVE  Digits(t) \in Int /\ Scale(t) \in Nat /\ Digits(t) <= MaxIntegerDigits /\ Scale(t) <= MaxDecimalScale
<1> t \in Operands /\ Sound(t)
  BY DEF Operand
<1>1. CASE E!BoundDecimal(t)
  <2>1. E!IsDecimal(t) /\ (E!Literal(t) \/ t.countsAsDecimal) /\ t.within
    BY <1>1 DEF E!BoundDecimal
  <2>2. t.ty[2] \in Nat /\ t.ty[3] \in Nat
    BY <2>1, TypeKinds
  <2>3. t.ty[3] <= MaxDecimalScale /\ t.ty[2] - t.ty[3] <= MaxIntegerDigits
    BY <2>1 DEF Sound
  <2> QED BY <2>1, <2>2, <2>3 DEF Digits, Scale
<1>2. CASE E!BoundInt(t) /\ (E!Literal(t) \/ t.ty[2] <= 64)
  <2>1. E!IsInt(t) /\ t.within /\ ~E!IsDecimal(t)
    BY <1>2, Apart DEF E!BoundInt
  <2>2. CASE E!Literal(t)
    <3>1. t.value.digits \in Nat /\ t.value.digits <= MaxIntegerDigits
      BY <2>1, <2>2 DEF Sound
    <3> QED BY <2>1, <2>2, <3>1 DEF Digits, Scale, Ceilings
  <2>3. CASE ~E!Literal(t)
    <3>1. t.ty[2] \in {8, 16, 32, 64} /\ t.ty[3] \in {0, 1}
      BY <1>2, <2>1, <2>3, TypeKinds
    <3>2. E!IntDigits(t.ty) \in Nat /\ E!IntDigits(t.ty) <= 20
      BY <3>1 DEF E!IntDigits
    <3> QED BY <2>1, <2>3, <3>2 DEF Digits, Scale, Ceilings
  <2> QED BY <2>2, <2>3
<1> QED BY <1>1, <1>2

\* What one of the forms of a comparison converts, it converts exactly.
ExactlyCompared(a, b) ==
    /\ E!IsNumeric(a) /\ E!IsNumeric(b)
    /\ E!IsInt(a) /\ E!IsInt(b) => E!Holds(E!IntPromote(a.ty, b.ty), a.ty) /\ E!Holds(E!IntPromote(a.ty, b.ty), b.ty)
    /\ E!IsFloat(a) /\ E!IsInt(b) => E!Literal(b) \/ E!Holds(a.ty, b.ty)
    /\ ~(E!IsInt(a) /\ E!IsFloat(b))
    /\ ~E!IsFloat(a) /\ ~E!IsFloat(b) /\ (E!IsDecimal(a) \/ E!IsDecimal(b)) =>
         \A t, u \in {a, b} : Digits(t) + Scale(u) <= E!DuckDecimalDigits

LEMMA FormsAreExact ==
  ASSUME Ceilings, NEW a \in Operand, NEW b \in Operand, OneComparison(a, b)
  PROVE  ExactlyCompared(a, b)
<1> a \in Operands /\ b \in Operands
  BY DEF Operand
<1>0. /\ E!IsNumeric(a) <=> E!IsInt(a) \/ E!IsDecimal(a) \/ E!IsFloat(a)
      /\ E!IsNumeric(b) <=> E!IsInt(b) \/ E!IsDecimal(b) \/ E!IsFloat(b)
      /\ E!BoundInt(a) => E!IsInt(a)
      /\ E!BoundInt(b) => E!IsInt(b)
      /\ E!BoundDecimal(a) => E!IsDecimal(a)
      /\ E!BoundDecimal(b) => E!IsDecimal(b)
  BY DEF E!IsNumeric, E!BoundInt, E!BoundDecimal
<1>1. CASE E!BoundInt(a) /\ E!BoundInt(b)
  BY <1>0, <1>1, IntegersPromote, Apart DEF ExactlyCompared
<1>2. CASE E!BoundDecimal(a) /\ (E!BoundDecimal(b) \/ (E!BoundInt(b) /\ (E!Literal(b) \/ b.ty[2] <= 64)))
  <2>1. ~E!IsInt(a) /\ ~E!IsFloat(a) /\ ~E!IsFloat(b) /\ E!IsNumeric(a) /\ E!IsNumeric(b)
    BY <1>0, <1>2, Apart
  <2>2. /\ Digits(a) \in Int /\ Scale(a) \in Nat /\ Digits(a) <= MaxIntegerDigits /\ Scale(a) <= MaxDecimalScale
        /\ Digits(b) \in Int /\ Scale(b) \in Nat /\ Digits(b) <= MaxIntegerDigits /\ Scale(b) <= MaxDecimalScale
    BY <1>2, DigitsAreBounded
  <2>3. ASSUME NEW t \in {a, b}, NEW u \in {a, b} PROVE Digits(t) + Scale(u) <= E!DuckDecimalDigits
    BY <2>2 DEF Ceilings, E!DuckDecimalDigits
  <2> QED BY <2>1, <2>3 DEF ExactlyCompared
<1>3. CASE E!IsFloat(a) /\ ((E!IsInt(b) /\ E!Literal(b)) \/ E!IsDecimal(b) \/ E!IsFloat(b))
  BY <1>0, <1>3, Apart DEF ExactlyCompared
<1>4. ASSUME (a.ty = E!Real /\ E!NarrowInt(b, 16)) \/ (a.ty = E!Double /\ E!NarrowInt(b, 32))
      PROVE ExactlyCompared(a, b)
  <2>1. E!IsInt(b) /\ E!IsFloat(a) /\ ~E!IsInt(a) /\ ~E!IsFloat(b)
    BY <1>4, Apart DEF E!NarrowInt, E!BoundInt
  <2>2. b.ty[1] = "Int" /\ b.ty[2] \in Nat
    BY <2>1, TypeKinds DEF E!IsInt
  <2>3. E!Holds(a.ty, b.ty)
    <3>1. a.ty[1] \in {"Real", "Double"} /\ b.ty[2] <= a.ty[2]
      BY <1>4, <2>2 DEF E!NarrowInt, E!Real, E!Double
    <3> QED BY <2>2, <3>1 DEF E!Holds
  <2> QED BY <1>0, <2>1, <2>3 DEF ExactlyCompared
<1> QED BY <1>1, <1>2, <1>3, <1>4 DEF OneComparison

\* What the result of an admitted operation can be, in either order of the operands.
OneResult(a, b, ty) ==
    \/ a.ty = b.ty /\ E!IsFloat(a) /\ ty = a.ty
    \/ a.ty = E!Null /\ b.ty = E!Null /\ ty = E!IntTy(64, 1)
    \/ a.ty = E!Null /\ E!IsNumeric(b) /\ ty = b.ty
    \/ E!BoundInt(a) /\ E!BoundInt(b) /\ ty = E!FoldOrPromoteInteger(a, b)
    \/ E!FloatColumn(a) /\ E!NumericLiteral(b) /\ ty \in {a.ty, E!Double}
    \/ a.ty = E!Real /\ E!NarrowInt(b, 16) /\ ty = E!Real
    \/ a.ty = E!Double /\ E!NarrowInt(b, 32) /\ ty = E!Double
    \/ a.ty = E!Real /\ b.ty = E!Double /\ ty = E!Double
    \/ a.ty = E!Double /\ E!NumericLiteral(b) /\ E!Literal(a) /\ ty = E!Double

LEMMA ResultForms ==
  ASSUME NEW l \in Operand, NEW r \in Operand, E!ArithmeticResult(l, r) # E!None
  PROVE  OneResult(l, r, E!ArithmeticResult(l, r)) \/ OneResult(r, l, E!ArithmeticResult(l, r))
<1> DEFINE ty == E!ArithmeticResult(l, r)
           float(a, b) == E!FloatColumn(a) /\ E!NumericLiteral(b)
           withFloat(a, b) == IF E!DoubleLiteral(b) THEN E!Double ELSE a.ty
           widens(a, b) == \/ a.ty = E!Real /\ E!FloatColumn(a) /\ E!NarrowInt(b, 16)
                           \/ a.ty = E!Double /\ E!FloatColumn(a) /\ E!NarrowInt(b, 32)
           toDouble(a, b) == \/ a.ty = E!Real /\ E!FloatColumn(a) /\ b.ty = E!Double /\ E!FloatColumn(b)
                             \/ E!DoubleLiteral(a) /\ E!NarrowInt(b, 32)
                             \/ E!DoubleLiteral(a) /\ E!NumericLiteral(b)
<1>1. ty = IF l.ty = r.ty /\ E!IsFloat(l) THEN l.ty
           ELSE IF l.ty = E!Null /\ r.ty = E!Null THEN E!IntTy(64, 1)
           ELSE IF l.ty = E!Null /\ E!IsNumeric(r) THEN r.ty
           ELSE IF r.ty = E!Null /\ E!IsNumeric(l) THEN l.ty
           ELSE IF E!BoundInt(l) /\ E!BoundInt(r) THEN E!FoldOrPromoteInteger(l, r)
           ELSE IF float(l, r) THEN withFloat(l, r)
           ELSE IF float(r, l) THEN withFloat(r, l)
           ELSE IF widens(l, r) THEN l.ty
           ELSE IF widens(r, l) THEN r.ty
           ELSE IF toDouble(l, r) \/ toDouble(r, l) THEN E!Double
           ELSE E!None
  BY DEF E!ArithmeticResult, E!Either
<1>2. ASSUME NEW a \in Operand, NEW b \in Operand
      PROVE /\ float(a, b) => OneResult(a, b, withFloat(a, b))
            /\ widens(a, b) => OneResult(a, b, a.ty)
            /\ toDouble(a, b) => OneResult(a, b, E!Double)
  <2>1. E!DoubleLiteral(a) => a.ty = E!Double /\ E!Literal(a)
    BY DEF E!DoubleLiteral
  <2> QED BY <2>1 DEF OneResult
<1> HIDE DEF ty, float, withFloat, widens, toDouble
<1>3. \/ l.ty = r.ty /\ E!IsFloat(l) /\ ty = l.ty
      \/ l.ty = E!Null /\ r.ty = E!Null /\ ty = E!IntTy(64, 1)
      \/ l.ty = E!Null /\ E!IsNumeric(r) /\ ty = r.ty
      \/ r.ty = E!Null /\ E!IsNumeric(l) /\ ty = l.ty
      \/ E!BoundInt(l) /\ E!BoundInt(r) /\ ty = E!FoldOrPromoteInteger(l, r)
      \/ float(l, r) /\ ty = withFloat(l, r)
      \/ float(r, l) /\ ty = withFloat(r, l)
      \/ widens(l, r) /\ ty = l.ty
      \/ widens(r, l) /\ ty = r.ty
      \/ (toDouble(l, r) \/ toDouble(r, l)) /\ ty = E!Double
      \/ ty = E!None
  BY <1>1
<1>4. OneResult(l, r, ty) \/ OneResult(r, l, ty) \/ ty = E!None
  <2>1. /\ l.ty = r.ty /\ E!IsFloat(l) /\ ty = l.ty => OneResult(l, r, ty)
        /\ l.ty = E!Null /\ r.ty = E!Null /\ ty = E!IntTy(64, 1) => OneResult(l, r, ty)
        /\ l.ty = E!Null /\ E!IsNumeric(r) /\ ty = r.ty => OneResult(l, r, ty)
        /\ r.ty = E!Null /\ E!IsNumeric(l) /\ ty = l.ty => OneResult(r, l, ty)
        /\ E!BoundInt(l) /\ E!BoundInt(r) /\ ty = E!FoldOrPromoteInteger(l, r) => OneResult(l, r, ty)
    BY DEF OneResult
  <2> QED BY <1>2, <1>3, <2>1
<1> QED BY <1>4 DEF ty

\* Of two bound integers one that is a literal may take the other's type; else they promote.
LEMMA FoldForms ==
  ASSUME NEW a \in Operand, NEW b \in Operand, E!BoundInt(a), E!BoundInt(b)
  PROVE  LET ty == E!FoldOrPromoteInteger(a, b)
         IN /\ ty \in IntTypes /\ ty # E!IntTy(128, 0)
            /\ E!Literal(a) \/ E!Holds(ty, a.ty)
            /\ E!Literal(b) \/ E!Holds(ty, b.ty)
            /\ ty = E!FoldOrPromoteInteger(b, a)
<1> DEFINE ty == E!FoldOrPromoteInteger(a, b)
           taken(t, o) == E!Literal(t) /\ ~E!Literal(o) /\ E!FitsIntType(t.value, o.ty)
<1>1. /\ a.ty \in IntTypes /\ b.ty \in IntTypes
      /\ a.ty # E!IntTy(128, 0) /\ b.ty # E!IntTy(128, 0)
  BY TypeKinds DEF Operand, Sound, E!BoundInt
<1>2. /\ E!Holds(a.ty, a.ty) /\ E!Holds(b.ty, b.ty)
      /\ E!Holds(E!IntPromote(a.ty, b.ty), a.ty) /\ E!Holds(E!IntPromote(a.ty, b.ty), b.ty)
      /\ E!IntPromote(a.ty, b.ty) \in IntTypes /\ E!IntPromote(a.ty, b.ty) # E!IntTy(128, 0)
      /\ E!IntPromote(a.ty, b.ty) = E!IntPromote(b.ty, a.ty)
  <2>1. E!Holds(a.ty, a.ty) /\ E!Holds(b.ty, b.ty)
    BY DEF E!Holds
  <2> QED BY <1>1, <2>1, IntegersPromote, PromotionCommutes
<1>3. /\ ty = IF taken(a, b) THEN b.ty ELSE IF taken(b, a) THEN a.ty ELSE E!IntPromote(a.ty, b.ty)
      /\ E!FoldOrPromoteInteger(b, a)
            = IF taken(b, a) THEN a.ty ELSE IF taken(a, b) THEN b.ty ELSE E!IntPromote(b.ty, a.ty)
  BY DEF E!FoldOrPromoteInteger
<1>4. /\ taken(a, b) => E!Literal(a) /\ ~E!Literal(b)
      /\ taken(b, a) => E!Literal(b) /\ ~E!Literal(a)
  OBVIOUS
<1> HIDE DEF ty, taken
<1>5. /\ ty \in IntTypes /\ ty # E!IntTy(128, 0)
      /\ E!Literal(a) \/ E!Holds(ty, a.ty)
      /\ E!Literal(b) \/ E!Holds(ty, b.ty)
      /\ ty = E!FoldOrPromoteInteger(b, a)
  BY <1>1, <1>2, <1>3, <1>4
<1> QED BY <1>5 DEF ty

\* A result holds what is computed from, and is a type of its own.
LEMMA ResultsHold ==
  ASSUME NEW a \in Operand, NEW b \in Operand, NEW ty, OneResult(a, b, ty)
  PROVE  /\ E!Literal(a) \/ E!Holds(ty, a.ty)
         /\ E!Literal(b) \/ E!Holds(ty, b.ty)
         /\ ty \in Types
         /\ ty = E!IntTy(128, 0) => ~(a.within /\ b.within)
         /\ a.ty = E!Null /\ E!IsDecimal(b) => ty = b.ty
         /\ b.ty = E!Null /\ E!IsDecimal(a) => FALSE
<1> /\ a \in Operands /\ b \in Operands /\ Sound(a) /\ Sound(b)
    /\ a.ty \in Types /\ b.ty \in Types /\ E!Real \in Types /\ E!Double \in Types
  BY DEF Operand, Operands, Types
<1>0. /\ \A x : E!Holds(x, x) /\ E!Holds(x, E!Null)
      /\ E!Holds(E!Double, E!Real)
      /\ E!Real # E!IntTy(128, 0) /\ E!Double # E!IntTy(128, 0) /\ E!Null # E!IntTy(128, 0)
      /\ E!IntTy(64, 1) # E!IntTy(128, 0) /\ E!IntTy(64, 1) \in Types
      /\ E!Real # E!Null /\ E!Double # E!Null
  BY DEF E!Holds, E!Real, E!Double, E!Null, E!IntTy, Types, IntTypes
<1>1. /\ E!IsFloat(a) => a.ty = E!Real \/ a.ty = E!Double
      /\ E!IsInt(a) => ~E!IsDecimal(a) /\ ~E!IsFloat(a) /\ a.ty # E!Null
      /\ E!IsInt(b) => ~E!IsDecimal(b) /\ ~E!IsFloat(b) /\ b.ty # E!Null
      /\ E!IsDecimal(a) => ~E!IsFloat(a) /\ a.ty # E!Null /\ a.ty # E!Real /\ a.ty # E!Double
      /\ E!IsDecimal(b) => ~E!IsFloat(b) /\ b.ty # E!Null /\ b.ty # E!Real /\ b.ty # E!Double
      /\ E!IsNumeric(b) => b.ty # E!Null
      /\ E!NumericLiteral(b) => E!Literal(b) /\ E!IsNumeric(b)
      /\ E!FloatColumn(a) => E!IsFloat(a)
      /\ E!BoundInt(a) => E!IsInt(a)
      /\ E!BoundInt(b) => E!IsInt(b)
      /\ \A n : E!NarrowInt(b, n) => E!IsInt(b) /\ b.ty[2] <= n
  <2>1. /\ E!IsNumeric(a) <=> E!IsInt(a) \/ E!IsDecimal(a) \/ E!IsFloat(a)
        /\ E!IsNumeric(b) <=> E!IsInt(b) \/ E!IsDecimal(b) \/ E!IsFloat(b)
        /\ E!NumericLiteral(b) => E!Literal(b) /\ (E!IsInt(b) \/ E!IsDecimal(b) \/ b.ty = E!Double)
        /\ E!FloatColumn(a) => E!IsFloat(a)
        /\ E!BoundInt(a) => E!IsInt(a)
        /\ E!BoundInt(b) => E!IsInt(b)
        /\ \A n : E!NarrowInt(b, n) => E!BoundInt(b) /\ b.ty[2] <= n
    BY DEF E!IsNumeric, E!NumericLiteral, E!FloatColumn, E!BoundInt, E!NarrowInt
  <2> QED BY <2>1, Apart
<1>2. ASSUME E!IsInt(b), NEW n \in Nat, b.ty[2] <= n, NEW f \in {E!Real, E!Double}, n <= f[2]
      PROVE E!Holds(f, b.ty)
  <2>1. b.ty[1] = "Int" /\ b.ty[2] \in Nat
    BY <1>2, TypeKinds DEF E!IsInt
  <2>2. f[1] \in {"Real", "Double"} /\ f[2] \in Nat
    BY DEF E!Real, E!Double
  <2> QED BY <1>2, <2>1, <2>2 DEF E!Holds
<1>3. E!Real[2] = 24 /\ E!Double[2] = 53
  BY DEF E!Real, E!Double
<1>4. CASE E!BoundInt(a) /\ E!BoundInt(b) /\ ty = E!FoldOrPromoteInteger(a, b)
  <2>1. /\ ty \in IntTypes /\ ty # E!IntTy(128, 0)
        /\ E!Literal(a) \/ E!Holds(ty, a.ty)
        /\ E!Literal(b) \/ E!Holds(ty, b.ty)
    BY <1>4, FoldForms
  <2> QED BY <1>1, <1>4, <2>1 DEF Types
<1>5. CASE a.ty = E!Real /\ E!NarrowInt(b, 16) /\ ty = E!Real
  BY <1>0, <1>1, <1>2, <1>3, <1>5
<1>6. CASE a.ty = E!Double /\ E!NarrowInt(b, 32) /\ ty = E!Double
  BY <1>0, <1>1, <1>2, <1>3, <1>6
<1>7. CASE a.ty = b.ty /\ E!IsFloat(a) /\ ty = a.ty
  BY <1>0, <1>1, <1>7
<1>8. CASE a.ty = E!Null /\ b.ty = E!Null /\ ty = E!IntTy(64, 1)
  BY <1>0, <1>1, <1>8
<1>9. CASE a.ty = E!Null /\ E!IsNumeric(b) /\ ty = b.ty
  BY <1>0, <1>1, <1>9 DEF Sound
<1>10. CASE E!FloatColumn(a) /\ E!NumericLiteral(b) /\ ty \in {a.ty, E!Double}
  BY <1>0, <1>1, <1>10
<1>11. CASE a.ty = E!Real /\ b.ty = E!Double /\ ty = E!Double
  BY <1>0, <1>1, <1>11
<1>12. CASE a.ty = E!Double /\ E!NumericLiteral(b) /\ E!Literal(a) /\ ty = E!Double
  BY <1>0, <1>1, <1>12
<1> QED BY <1>4, <1>5, <1>6, <1>7, <1>8, <1>9, <1>10, <1>11, <1>12 DEF OneResult

\* The order of the operands makes no difference.
LEMMA ResultCommutes ==
  ASSUME NEW l \in Operand, NEW r \in Operand
  PROVE  E!ArithmeticResult(l, r) = E!ArithmeticResult(r, l)
<1> DEFINE float(a, b) == E!FloatColumn(a) /\ E!NumericLiteral(b)
           withFloat(a, b) == IF E!DoubleLiteral(b) THEN E!Double ELSE a.ty
           widens(a, b) == \/ a.ty = E!Real /\ E!FloatColumn(a) /\ E!NarrowInt(b, 16)
                           \/ a.ty = E!Double /\ E!FloatColumn(a) /\ E!NarrowInt(b, 32)
           toDouble(a, b) == \/ a.ty = E!Real /\ E!FloatColumn(a) /\ b.ty = E!Double /\ E!FloatColumn(b)
                             \/ E!DoubleLiteral(a) /\ E!NarrowInt(b, 32)
                             \/ E!DoubleLiteral(a) /\ E!NumericLiteral(b)
           both == E!BoundInt(l) /\ E!BoundInt(r)
           one(a, b) == a.ty = E!Null /\ E!IsNumeric(b)
           same == l.ty = r.ty /\ E!IsFloat(l)
           nulls == l.ty = E!Null /\ r.ty = E!Null
<1>1. /\ E!ArithmeticResult(l, r) =
             IF same THEN l.ty ELSE IF nulls THEN E!IntTy(64, 1)
             ELSE IF one(l, r) THEN r.ty ELSE IF one(r, l) THEN l.ty
             ELSE IF both THEN E!FoldOrPromoteInteger(l, r)
             ELSE IF float(l, r) THEN withFloat(l, r) ELSE IF float(r, l) THEN withFloat(r, l)
             ELSE IF widens(l, r) THEN l.ty ELSE IF widens(r, l) THEN r.ty
             ELSE IF toDouble(l, r) \/ toDouble(r, l) THEN E!Double ELSE E!None
      /\ E!ArithmeticResult(r, l) =
             IF r.ty = l.ty /\ E!IsFloat(r) THEN r.ty ELSE IF r.ty = E!Null /\ l.ty = E!Null THEN E!IntTy(64, 1)
             ELSE IF one(r, l) THEN l.ty ELSE IF one(l, r) THEN r.ty
             ELSE IF E!BoundInt(r) /\ E!BoundInt(l) THEN E!FoldOrPromoteInteger(r, l)
             ELSE IF float(r, l) THEN withFloat(r, l) ELSE IF float(l, r) THEN withFloat(l, r)
             ELSE IF widens(r, l) THEN r.ty ELSE IF widens(l, r) THEN l.ty
             ELSE IF toDouble(r, l) \/ toDouble(l, r) THEN E!Double ELSE E!None
  BY DEF E!ArithmeticResult, E!Either
<1>2. /\ (r.ty = l.ty /\ E!IsFloat(r)) <=> same
      /\ same => l.ty = r.ty
  BY DEF E!IsFloat
<1>3. ~(one(l, r) /\ one(r, l))
  BY Apart DEF Operand
<1>4. both => E!FoldOrPromoteInteger(l, r) = E!FoldOrPromoteInteger(r, l)
  BY FoldForms
<1>5. ~(float(l, r) /\ float(r, l))
  BY DEF E!FloatColumn, E!NumericLiteral
<1>6. ~(widens(l, r) /\ widens(r, l))
  <2>1. ~(E!IsFloat(l) /\ E!IsInt(l)) /\ ~(E!IsFloat(r) /\ E!IsInt(r))
    BY Apart DEF Operand
  <2> QED BY <2>1 DEF E!FloatColumn, E!NarrowInt, E!BoundInt
<1>7. (E!BoundInt(r) /\ E!BoundInt(l)) <=> both
  OBVIOUS
<1>8. (r.ty = E!Null /\ l.ty = E!Null) <=> nulls
  OBVIOUS
<1> HIDE DEF float, withFloat, widens, toDouble, both, one, same, nulls
<1> QED BY <1>1, <1>2, <1>3, <1>4, <1>5, <1>6, <1>7, <1>8

LEMMA VerdictsCommute ==
  ASSUME NEW l \in Operand, NEW r \in Operand
  PROVE  /\ E!AdmittedComparison(l, r) = E!AdmittedComparison(r, l)
         /\ E!DecimalArithmeticPair(l, r) = E!DecimalArithmeticPair(r, l)
         /\ \A arithmetic \in BOOLEAN : E!DetermineReason(l, r, arithmetic) = E!DetermineReason(r, l, arithmetic)
<1>1. E!AdmittedComparison(l, r) = E!AdmittedComparison(r, l)
  <2> DEFINE rule4(a, b) == E!BoundDecimal(b) /\ E!BoundInt(a) /\ (E!Literal(a) \/ a.ty[2] <= 64)
             rule5(a, b) == E!DoubleLiteral(a) /\ E!NarrowInt(b, 32)
             rule6(a, b) == E!FloatColumn(a) /\ (E!NumericLiteral(b) \/ (E!BoundDecimal(b) /\ b.countsAsDecimal))
             rule6b(a, b) == E!DoubleLiteral(a) /\ ((E!BoundInt(b) /\ E!Literal(b)) \/ E!BoundDecimal(b))
             rule7(a, b) == /\ E!FloatColumn(a)
                            /\ \/ a.ty = E!Real /\ E!NarrowInt(b, 16)
                               \/ a.ty = E!Double /\ E!NarrowInt(b, 32)
                               \/ a.ty = E!Real /\ E!FloatColumn(b) /\ b.ty = E!Double
             rules(a, b) == \/ a.ty = b.ty
                            \/ a.ty = E!Null \/ b.ty = E!Null
                            \/ E!BoundInt(a) /\ E!BoundInt(b)
                            \/ E!BoundDecimal(a) /\ E!BoundDecimal(b)
                            \/ (rule4(a, b) \/ rule4(b, a)) \/ (rule5(a, b) \/ rule5(b, a))
                            \/ (rule6(a, b) \/ rule6(b, a)) \/ (rule6b(a, b) \/ rule6b(b, a))
                            \/ (rule7(a, b) \/ rule7(b, a))
  <2>1. E!AdmittedComparison(l, r) = rules(l, r) /\ E!AdmittedComparison(r, l) = rules(r, l)
    BY DEF E!AdmittedComparison, E!Either
  <2>2. rules(l, r) = rules(r, l)
    <3> HIDE DEF rule4, rule5, rule6, rule6b, rule7
    <3> QED OBVIOUS
  <2> HIDE DEF rules
  <2> QED BY <2>1, <2>2
<1>2. E!DecimalArithmeticPair(l, r) = E!DecimalArithmeticPair(r, l)
  BY DEF E!DecimalArithmeticPair, E!Either
<1>3. ASSUME NEW arithmetic \in BOOLEAN
      PROVE  E!DetermineReason(l, r, arithmetic) = E!DetermineReason(r, l, arithmetic)
  <2> DEFINE one(ty, a, b) == a.ty = ty /\ b.ty # ty /\ b.ty # E!Null
             wide(a, b) == /\ E!IsDecimal(a) /\ (E!Literal(a) \/ a.countsAsDecimal)
                           /\ E!IsInt(b) /\ ~E!Literal(b) /\ b.ty[2] > 64
             reason(a, b) == IF one(E!Varchar, a, b) \/ one(E!Varchar, b, a) THEN "TextWithNonText"
                             ELSE IF one(E!Boolean, a, b) \/ one(E!Boolean, b, a) THEN "BooleanConversion"
                             ELSE IF ~a.within \/ ~b.within THEN "LiteralOutOfBounds"
                             ELSE IF wide(a, b) \/ wide(b, a) \/ (arithmetic /\ E!DecimalArithmeticPair(a, b))
                                  THEN "ConversionCanFail"
                             ELSE "ConversionRounds"
  <2>1. E!DetermineReason(l, r, arithmetic) = reason(l, r) /\ E!DetermineReason(r, l, arithmetic) = reason(r, l)
    BY DEF E!DetermineReason, E!Either
  <2>2. reason(l, r) = reason(r, l)
    <3> HIDE DEF one, wide
    <3> QED BY <1>2
  <2> HIDE DEF reason
  <2> QED BY <2>1, <2>2
<1> QED BY <1>1, <1>2, <1>3

LEMMA TypesCommute ==
  ASSUME NEW l \in Operand, NEW r \in Operand
  PROVE  /\ E!TypeOfArithmetic(l, r) = E!TypeOfArithmetic(r, l)
         /\ E!TypeOfDivision(l, r) = E!TypeOfDivision(r, l)
         /\ E!CheckPair(l, r) = E!CheckPair(r, l)
<1> DEFINE decimal(a, b) == a.ty = E!Null /\ E!IsDecimal(b) /\ ((E!Literal(b) /\ b.within) \/ b.countsAsDecimal)
           counts(a, b) == decimal(a, b) \/ decimal(b, a)
           within(a, b) == a.within /\ b.within
           pair(a, b) == E!DecimalArithmeticPair(a, b)
<1>1. ASSUME NEW a \in Operand, NEW b \in Operand
      PROVE E!TypeOfArithmetic(a, b)
               = IF E!ArithmeticResult(a, b) = E!None THEN E!Refused(E!DetermineReason(a, b, pair(a, b)))
                 ELSE E!Admitted([E!Expression(E!ArithmeticResult(a, b))
                                    EXCEPT !.within = within(a, b), !.countsAsDecimal = counts(a, b)])
  BY DEF E!TypeOfArithmetic, E!Either
<1>2. counts(l, r) = counts(r, l) /\ within(l, r) = within(r, l)
  <2> HIDE DEF decimal
  <2>1. l.within \in BOOLEAN /\ r.within \in BOOLEAN
    BY DEF Operand, Operands
  <2> QED BY <2>1
<1>3. pair(l, r) = pair(r, l) /\ pair(l, r) \in BOOLEAN
  <2>1. pair(l, r) \in BOOLEAN
    BY DEF E!DecimalArithmeticPair, E!Either
  <2> QED BY <2>1, VerdictsCommute
<1>4. E!DetermineReason(l, r, pair(l, r)) = E!DetermineReason(r, l, pair(r, l))
  <2> HIDE DEF pair
  <2> QED BY <1>3, VerdictsCommute
<1> HIDE DEF counts, within, pair
<1>5. E!TypeOfArithmetic(l, r) = E!TypeOfArithmetic(r, l)
  BY <1>1, <1>2, <1>4, ResultCommutes, ZenonT(60)
<1>6. E!TypeOfDivision(l, r) = E!TypeOfDivision(r, l)
  <2>1. {l.ty, r.ty} = {r.ty, l.ty}
    OBVIOUS
  <2>2. E!DetermineReason(l, r, FALSE) = E!DetermineReason(r, l, FALSE)
    BY VerdictsCommute
  <2> QED BY <2>1, <2>2, Zenon DEF E!TypeOfDivision
<1>7. E!CheckPair(l, r) = E!CheckPair(r, l)
  <2>1. /\ E!DetermineReason(l, r, FALSE) = E!DetermineReason(r, l, FALSE)
        /\ E!AdmittedComparison(l, r) = E!AdmittedComparison(r, l)
    BY VerdictsCommute
  <2> QED BY <2>1, Zenon DEF E!CheckPair
<1> QED BY <1>5, <1>6, <1>7

\* Operands field by field.
Fields(ty, kind, within, value, counts) ==
    [ty |-> ty, kind |-> kind, within |-> within, value |-> value, countsAsDecimal |-> counts]

\* The changes the type rules make to an operand.
AsKind(t, kind) == [t EXCEPT !.kind = kind]
AsComputed(t, within, counts) == [t EXCEPT !.within = within, !.countsAsDecimal = counts]
AsInteger(t, kind, v, within) == [t EXCEPT !.kind = kind, !.value = v, !.within = within]
AsDecimal(t, kind, within) == [t EXCEPT !.kind = kind, !.within = within]

LEMMA FieldsChange ==
  ASSUME NEW ty, NEW kind, NEW w, NEW v, NEW c,
         NEW kind2, NEW w2, NEW v2, NEW c2
  PROVE  /\ AsKind(Fields(ty, kind, w, v, c), kind2) = Fields(ty, kind2, w, v, c)
         /\ AsComputed(Fields(ty, kind, w, v, c), w2, c2) = Fields(ty, kind, w2, v, c2)
         /\ AsInteger(Fields(ty, kind, w, v, c), kind2, v2, w2) = Fields(ty, kind2, w2, v2, c)
         /\ AsDecimal(Fields(ty, kind, w, v, c), kind2, w2) = Fields(ty, kind2, w2, v, c)
<1> DEFINE t == Fields(ty, kind, w, v, c)
<1>1. [Fields(ty, kind, w, v, c) EXCEPT !.kind = kind2] = Fields(ty, kind2, w, v, c)
  BY DEF Fields
<1>2. [Fields(ty, kind, w, v, c) EXCEPT !.within = w2] = Fields(ty, kind, w2, v, c)
  BY DEF Fields
<1>3. [Fields(ty, kind, w2, v, c) EXCEPT !.countsAsDecimal = c2] = Fields(ty, kind, w2, v, c2)
  BY DEF Fields
<1>4. [Fields(ty, kind2, w, v, c) EXCEPT !.value = v2] = Fields(ty, kind2, w, v2, c)
  BY DEF Fields
<1>5. [Fields(ty, kind2, w, v2, c) EXCEPT !.within = w2] = Fields(ty, kind2, w2, v2, c)
  BY DEF Fields
<1>6. [Fields(ty, kind2, w, v, c) EXCEPT !.within = w2] = Fields(ty, kind2, w2, v, c)
  BY DEF Fields
<1>7. /\ [t EXCEPT !.within = w2, !.countsAsDecimal = c2] = [[t EXCEPT !.within = w2] EXCEPT !.countsAsDecimal = c2]
      /\ [t EXCEPT !.kind = kind2, !.value = v2, !.within = w2]
            = [[[t EXCEPT !.kind = kind2] EXCEPT !.value = v2] EXCEPT !.within = w2]
      /\ [t EXCEPT !.kind = kind2, !.within = w2] = [[t EXCEPT !.kind = kind2] EXCEPT !.within = w2]
  OBVIOUS
<1>8. [t EXCEPT !.kind = kind2] = Fields(ty, kind2, w, v, c)
  BY <1>1
<1>9. [t EXCEPT !.within = w2, !.countsAsDecimal = c2] = Fields(ty, kind, w2, v, c2)
  BY <1>2, <1>3, <1>7
<1>10. [t EXCEPT !.kind = kind2, !.value = v2, !.within = w2] = Fields(ty, kind2, w2, v2, c)
  BY <1>4, <1>5, <1>7, <1>8
<1>11. [t EXCEPT !.kind = kind2, !.within = w2] = Fields(ty, kind2, w2, v, c)
  BY <1>6, <1>7, <1>8
<1> QED BY <1>8, <1>9, <1>10, <1>11 DEF AsKind, AsComputed, AsInteger, AsDecimal

LEMMA PlainFields ==
  ASSUME NEW ty
  PROVE  /\ E!Column(ty) = Fields(ty, "Column", TRUE, E!NoValue, FALSE)
         /\ E!Expression(ty) = Fields(ty, "Expression", TRUE, E!NoValue, FALSE)
         /\ E!OtherLiteral(ty) = Fields(ty, "Literal", TRUE, E!NoValue, FALSE)
<1>1. E!Column(ty) = Fields(ty, "Column", TRUE, E!NoValue, FALSE)
  BY DEF E!Column, Fields
<1>2. E!Expression(ty) = AsKind(E!Column(ty), "Expression") /\ E!OtherLiteral(ty) = AsKind(E!Column(ty), "Literal")
  BY DEF E!Expression, E!OtherLiteral, AsKind
<1>3. /\ AsKind(E!Column(ty), "Expression") = Fields(ty, "Expression", TRUE, E!NoValue, FALSE)
      /\ AsKind(E!Column(ty), "Literal") = Fields(ty, "Literal", TRUE, E!NoValue, FALSE)
  <2> DEFINE yes == TRUE
             no == FALSE
  <2> HIDE DEF yes, no
  <2>1. /\ AsKind(Fields(ty, "Column", yes, E!NoValue, no), "Expression") = Fields(ty, "Expression", yes, E!NoValue, no)
        /\ AsKind(Fields(ty, "Column", yes, E!NoValue, no), "Literal") = Fields(ty, "Literal", yes, E!NoValue, no)
    BY FieldsChange
  <2> QED BY <1>1, <2>1 DEF yes, no
<1> QED BY <1>1, <1>2, <1>3

LEMMA ChangedFields ==
  ASSUME NEW ty, NEW v, NEW w, NEW c
  PROVE  /\ AsComputed(E!Expression(ty), w, c) = Fields(ty, "Expression", w, E!NoValue, c)
         /\ AsInteger(E!Column(ty), "Literal", v, w) = Fields(ty, "Literal", w, v, FALSE)
         /\ AsDecimal(E!Column(ty), "Literal", w) = Fields(ty, "Literal", w, E!NoValue, FALSE)
<1>1. /\ E!Expression(ty) = Fields(ty, "Expression", TRUE, E!NoValue, FALSE)
      /\ E!Column(ty) = Fields(ty, "Column", TRUE, E!NoValue, FALSE)
  BY PlainFields
<1> DEFINE yes == TRUE
           no == FALSE
<1> HIDE DEF yes, no
<1>2. AsComputed(Fields(ty, "Expression", yes, E!NoValue, no), w, c) = Fields(ty, "Expression", w, E!NoValue, c)
  BY FieldsChange
<1>3. AsInteger(Fields(ty, "Column", yes, E!NoValue, no), "Literal", v, w) = Fields(ty, "Literal", w, v, no)
  BY FieldsChange
<1>4. AsDecimal(Fields(ty, "Column", yes, E!NoValue, no), "Literal", w) = Fields(ty, "Literal", w, E!NoValue, no)
  BY FieldsChange
<1> QED BY <1>1, <1>2, <1>3, <1>4 DEF yes, no

\* An expression that is within the ceilings and does not count as a decimal is left as it is.
LEMMA ExpressionsArePlain ==
  ASSUME NEW ty
  PROVE  E!Expression(ty) = AsComputed(E!Expression(ty), TRUE, FALSE)
<1> DEFINE e == E!Expression(ty)
           yes == TRUE
           no == FALSE
<1>1. e = Fields(ty, "Expression", yes, E!NoValue, no)
  BY PlainFields
<1> HIDE DEF e, yes, no
<1>2. AsComputed(Fields(ty, "Expression", yes, E!NoValue, no), yes, no) = Fields(ty, "Expression", yes, E!NoValue, no)
  BY FieldsChange
<1>3. AsComputed(e, yes, no) = e
  BY <1>1, <1>2
<1> QED BY <1>3 DEF e, yes, no

\* What a computed operand is: of a type of its own, and within the ceilings only if what it is
\* computed from is.
LEMMA ComputedAreOperands ==
  ASSUME NEW ty \in Types, NEW within \in BOOLEAN, NEW counts \in BOOLEAN,
         ty = E!IntTy(128, 0) => ~within,
         ty \in DecimalTypes /\ counts /\ within
           => ty[3] <= MaxDecimalScale /\ ty[2] - ty[3] <= MaxIntegerDigits
  PROVE  AsComputed(E!Expression(ty), within, counts) \in Operand
<1> DEFINE t == [ty |-> ty, kind |-> "Expression", within |-> within, value |-> E!NoValue,
                 countsAsDecimal |-> counts]
<1>1. AsComputed(E!Expression(ty), within, counts) = t
  BY ChangedFields DEF Fields
<1>2. t \in Operands
  BY DEF Operands
<1>3. ~E!Literal(t)
  BY DEF E!Literal
<1>4. E!IsDecimal(t) => t.ty \in DecimalTypes
  BY <1>2, TypeKinds
<1>5. t.ty = ty /\ t.within = within /\ t.countsAsDecimal = counts
  OBVIOUS
<1> HIDE DEF t
<1>6. Sound(t)
  BY <1>3, <1>4, <1>5 DEF Sound
<1> QED BY <1>1, <1>2, <1>6 DEF Operand

\* Columns and literals are operands, and so is what is computed from operands: a filter is made
\* of operands however deep it is (predicate.rs, literal_typed and the type rules; the columns of
\* a dataset have at most 64 bits).
THEOREM FiltersAreMadeOfOperands ==
  ASSUME Ceilings
  PROVE  /\ \A ty \in Types \ {E!IntTy(128, 0)} : E!Column(ty) \in Operand
         /\ \A v \in Values : E!IntegerLiteral(v) \in Operand
         /\ \A width, scale \in Nat : E!DecimalLiteral(width, scale) \in Operand
         /\ \A ty \in {E!Double, E!Varchar, E!Boolean, E!Null} : E!OtherLiteral(ty) \in Operand
         /\ \A t \in Operand : E!TypeOfUnary(t).ok => E!TypeOfUnary(t).t \in Operand
         /\ \A l, r \in Operand :
              /\ E!TypeOfArithmetic(l, r).ok => E!TypeOfArithmetic(l, r).t \in Operand
              /\ E!TypeOfDivision(l, r).ok => E!TypeOfDivision(l, r).t \in Operand
              /\ E!CheckPair(l, r).ok => E!CheckPair(l, r).t \in Operand
<1>0. /\ {E!Varchar, E!Boolean, E!Real, E!Double, E!Null} \subseteq Types
      /\ \A n \in {32, 64, 128} : E!IntTy(n, 1) \in Types
      /\ E!IntTy(128, 0) \in Types
      /\ \A w, s \in Nat : E!Decimal(w, s) \in Types
      /\ \A n \in {32, 64, 128} : E!IntTy(n, 1) # E!IntTy(128, 0)
      /\ \A ty \in {E!Varchar, E!Boolean, E!Real, E!Double, E!Null} :
            ty # E!IntTy(128, 0) /\ ty \notin DecimalTypes
      /\ \A w, s \in Nat : E!Decimal(w, s) # E!IntTy(128, 0)
  BY DEF Types, IntTypes, DecimalTypes, E!IntTy, E!Decimal, E!Varchar, E!Boolean, E!Real, E!Double, E!Null
<1>1. ASSUME NEW ty \in Types \ {E!IntTy(128, 0)} PROVE E!Column(ty) \in Operand
  <2>1. E!Column(ty) \in Operands /\ E!Column(ty).ty = ty
    BY DEF E!Column, Operands
  <2>2. ~E!Literal(E!Column(ty)) /\ ~E!Column(ty).countsAsDecimal
    BY DEF E!Literal, E!Column
  <2> QED BY <2>1, <2>2 DEF Operand, Sound
<1>2. ASSUME NEW v \in Values PROVE E!IntegerLiteral(v) \in Operand
  <2> DEFINE ty == CASE v.bits <= 31 -> E!IntTy(32, 1) [] v.bits \in 32..63 -> E!IntTy(64, 1)
                     [] v.bits \in 64..127 -> E!IntTy(128, 1) [] v.bits >= 128 -> E!IntTy(128, 0)
             within == v.digits <= MaxIntegerDigits
             t == [ty |-> ty, kind |-> "Literal", within |-> within, value |-> v, countsAsDecimal |-> FALSE]
  <2>1. E!IntegerLiteral(v) = t
    <3>1. E!IntegerLiteral(v) = [E!Column(ty) EXCEPT !.kind = "Literal", !.value = v, !.within = within]
      BY DEF E!IntegerLiteral
    <3> HIDE DEF ty, within
    <3>2. E!IntegerLiteral(v) = AsInteger(E!Column(ty), "Literal", v, within)
      BY <3>1 DEF AsInteger
    <3> QED BY <3>2, ChangedFields DEF Fields
  <2>2. v.bits \in Nat /\ v.digits \in Nat /\ (v.bits >= 128 => v.digits >= 39)
    BY DEF Values
  <2>3. ty \in Types /\ (ty = E!IntTy(128, 0) => v.bits >= 128) /\ ty \in IntTypes
    <3>1. \/ v.bits <= 31 /\ ty = E!IntTy(32, 1)
          \/ v.bits \in 32..63 /\ ty = E!IntTy(64, 1)
          \/ v.bits \in 64..127 /\ ty = E!IntTy(128, 1)
          \/ v.bits >= 128 /\ ty = E!IntTy(128, 0)
      <4>1. v.bits <= 31 \/ v.bits \in 32..63 \/ v.bits \in 64..127 \/ v.bits >= 128
        BY <2>2
      <4>2. /\ v.bits <= 31 => ty = E!IntTy(32, 1)
            /\ v.bits \in 32..63 => ty = E!IntTy(64, 1)
            /\ v.bits \in 64..127 => ty = E!IntTy(128, 1)
            /\ v.bits >= 128 => ty = E!IntTy(128, 0)
        BY <2>2
      <4> HIDE DEF ty
      <4> QED BY <4>1, <4>2
    <3>2. \A n \in {32, 64, 128} : E!IntTy(n, 1) \in IntTypes
      BY DEF IntTypes, E!IntTy
    <3>3. E!IntTy(128, 0) \in IntTypes
      BY DEF IntTypes, E!IntTy
    <3> HIDE DEF ty
    <3> QED BY <1>0, <3>1, <3>2, <3>3
  <2> HIDE DEF ty
  <2>4. t \in Operands
    BY <2>3 DEF Operands
  <2>5. ~E!IsDecimal(t)
    BY <2>3, <2>4, TypeKinds, Apart
  <2>6. t.ty = ty /\ t.value = v /\ (t.within <=> v.digits <= MaxIntegerDigits)
    OBVIOUS
  <2> HIDE DEF t
  <2>7. Sound(t)
    BY <2>2, <2>3, <2>5, <2>6 DEF Sound, Ceilings
  <2> QED BY <2>1, <2>4, <2>7 DEF Operand
<1>3. ASSUME NEW width \in Nat, NEW scale \in Nat PROVE E!DecimalLiteral(width, scale) \in Operand
  <2> DEFINE within == scale <= MaxDecimalScale /\ width - scale <= MaxIntegerDigits
             t == [ty |-> E!Decimal(width, scale), kind |-> "Literal", within |-> within,
                   value |-> E!NoValue, countsAsDecimal |-> FALSE]
  <2>1. E!DecimalLiteral(width, scale) = t
    BY ChangedFields DEF E!DecimalLiteral, AsDecimal, Fields
  <2>2. E!Decimal(width, scale) \in DecimalTypes
        /\ E!Decimal(width, scale)[2] = width /\ E!Decimal(width, scale)[3] = scale
    BY DEF DecimalTypes, E!Decimal
  <2>3. t \in Operands
    BY <1>0 DEF Operands
  <2>4. ~E!IsInt(t)
    BY <2>2, <2>3, TypeKinds, Apart
  <2>5. t.ty = E!Decimal(width, scale) /\ (t.within => within)
    OBVIOUS
  <2> HIDE DEF t
  <2>6. Sound(t)
    BY <1>0, <2>2, <2>4, <2>5 DEF Sound
  <2> QED BY <2>1, <2>3, <2>6 DEF Operand
<1>4. ASSUME NEW ty \in {E!Double, E!Varchar, E!Boolean, E!Null} PROVE E!OtherLiteral(ty) \in Operand
  <2> DEFINE t == [ty |-> ty, kind |-> "Literal", within |-> TRUE, value |-> E!NoValue, countsAsDecimal |-> FALSE]
  <2>1. E!OtherLiteral(ty) = t
    BY PlainFields, ChangedFields DEF Fields
  <2>2. t \in Operands
    BY <1>0 DEF Operands
  <2>3. ~E!IsInt(t) /\ ~E!IsDecimal(t)
    <3>1. ty[1] \in {"Double", "Varchar", "Boolean", "Null"}
      BY DEF E!Double, E!Varchar, E!Boolean, E!Null
    <3> QED BY <3>1 DEF E!IsInt, E!IsDecimal
  <2>4. t.ty # E!IntTy(128, 0)
    BY <1>0
  <2> HIDE DEF t
  <2> QED BY <2>1, <2>2, <2>3, <2>4 DEF Operand, Sound
<1>5. ASSUME NEW t \in Operand, E!TypeOfUnary(t).ok PROVE E!TypeOfUnary(t).t \in Operand
  <2>0. E!Expression(E!IntTy(64, 1)) \in Operand
    <3>1. E!Expression(E!IntTy(64, 1)) = AsComputed(E!Expression(E!IntTy(64, 1)), TRUE, FALSE)
      BY ExpressionsArePlain
    <3>2. E!IntTy(64, 1) \in Types /\ E!IntTy(64, 1) # E!IntTy(128, 0)
      BY <1>0
    <3> QED BY <3>1, <3>2, ComputedAreOperands
  <2>1. CASE t.ty = E!Null
    BY <2>0, <2>1 DEF E!TypeOfUnary, E!Admitted
  <2>2. CASE t.ty # E!Null /\ E!IsNumeric(t)
    <3> DEFINE u == [t EXCEPT !.kind = "Expression"]
    <3>1. E!TypeOfUnary(t).t = u
      BY <2>2 DEF E!TypeOfUnary, E!Admitted
    <3>2. u \in Operands /\ u.ty = t.ty /\ u.within = t.within /\ u.countsAsDecimal = t.countsAsDecimal
          /\ u.kind = "Expression"
      BY DEF Operand, Operands
    <3> HIDE DEF u
    <3>3. ~E!Literal(u) /\ (E!IsDecimal(u) <=> E!IsDecimal(t)) /\ (E!IsInt(u) <=> E!IsInt(t))
      BY <3>2 DEF E!Literal, E!IsDecimal, E!IsInt
    <3>4. Sound(t)
      BY DEF Operand
    <3>5. Sound(u)
      BY <3>2, <3>3, <3>4 DEF Sound
    <3> QED BY <3>1, <3>2, <3>5 DEF Operand
  <2>3. CASE t.ty # E!Null /\ ~E!IsNumeric(t)
    BY <1>5, <2>3 DEF E!TypeOfUnary, E!Refused
  <2> QED BY <2>1, <2>2, <2>3
<1>6. ASSUME NEW l \in Operand, NEW r \in Operand, E!TypeOfArithmetic(l, r).ok
      PROVE E!TypeOfArithmetic(l, r).t \in Operand
  <2> DEFINE ty == E!ArithmeticResult(l, r)
             decimal(a, b) == a.ty = E!Null /\ E!IsDecimal(b) /\ ((E!Literal(b) /\ b.within) \/ b.countsAsDecimal)
             within == l.within /\ r.within
             counts == decimal(l, r) \/ decimal(r, l)
  <2>1. E!TypeOfArithmetic(l, r)
           = IF ty = E!None THEN E!Refused(E!DetermineReason(l, r, E!DecimalArithmeticPair(l, r)))
             ELSE E!Admitted([E!Expression(ty) EXCEPT !.within = within, !.countsAsDecimal = counts])
    BY DEF E!TypeOfArithmetic, E!Either
  <2>2. ty # E!None
    BY <1>6, <2>1 DEF E!Refused
  <2>3. OneResult(l, r, ty) \/ OneResult(r, l, ty)
    BY <2>2, ResultForms
  <2>4. /\ l.within \in BOOLEAN /\ r.within \in BOOLEAN
        /\ l.countsAsDecimal \in BOOLEAN /\ r.countsAsDecimal \in BOOLEAN
        /\ l \in Operands /\ r \in Operands /\ Sound(l) /\ Sound(r)
    BY DEF Operand, Operands
  <2>5. /\ ty \in Types
        /\ ty = E!IntTy(128, 0) => ~within
        /\ l.ty = E!Null /\ E!IsDecimal(r) => ty = r.ty
        /\ r.ty = E!Null /\ E!IsDecimal(l) => ty = l.ty
    BY <2>3, ResultsHold
  <2>6. ASSUME counts, within
        PROVE  ty[3] <= MaxDecimalScale /\ ty[2] - ty[3] <= MaxIntegerDigits
    <3>1. ASSUME NEW a \in Operand, Sound(a), E!IsDecimal(a), E!Literal(a) \/ a.countsAsDecimal, a.within
          PROVE  a.ty[3] <= MaxDecimalScale /\ a.ty[2] - a.ty[3] <= MaxIntegerDigits
      BY <3>1 DEF Sound
    <3> HIDE DEF ty
    <3> QED BY <2>4, <2>5, <2>6, <3>1
  <2>7. counts \in BOOLEAN /\ within \in BOOLEAN
    BY <2>4
  <2>8. E!TypeOfArithmetic(l, r).t = AsComputed(E!Expression(ty), within, counts)
    BY <2>1, <2>2 DEF E!Admitted, AsComputed
  <2> HIDE DEF ty, within, counts
  <2> QED BY <2>5, <2>6, <2>7, <2>8, ComputedAreOperands
<1>7. ASSUME NEW ty \in {E!Real, E!Double, E!Boolean} PROVE E!Expression(ty) \in Operand
  <2>1. E!Expression(ty) = AsComputed(E!Expression(ty), TRUE, FALSE)
    BY ExpressionsArePlain
  <2>2. ty \in Types /\ ty # E!IntTy(128, 0)
    BY <1>0
  <2> QED BY <2>1, <2>2, ComputedAreOperands
<1>8. ASSUME NEW l \in Operand, NEW r \in Operand
      PROVE /\ E!TypeOfDivision(l, r).ok => E!TypeOfDivision(l, r).t \in Operand
            /\ E!CheckPair(l, r).ok => E!CheckPair(l, r).t \in Operand
  BY <1>7 DEF E!TypeOfDivision, E!CheckPair, E!Admitted, E!Refused
<1> QED BY <1>1, <1>2, <1>3, <1>4, <1>5, <1>6, <1>8

\* What a predicate's user relies on, of every pair of operands: an admitted comparison or
\* operation converts no value of a column, or computed from one, to a type that cannot hold it,
\* and neither the verdict nor its reason depends on the order ("every value from any two of
\* these fits a signed 128-bit integer, which is exactly what section 7's declared bounds exist
\* to guarantee", predicate.rs on int_bits_signed).
THEOREM ConversionsStayExact ==
  ASSUME Ceilings, NEW l \in Operand, NEW r \in Operand
  PROVE  E!ConversionsAreExact(l, r)
<1> DEFINE moving == {t \in {l, r} : ~E!Literal(t) /\ ~t.countsAsDecimal}
           float == {t \in {l, r} : E!IsFloat(t)}
<1> l \in Operands /\ r \in Operands
  BY DEF Operand
<1>1. ASSUME E!AdmittedComparison(l, r), l.ty # r.ty, E!Null \notin {l.ty, r.ty}
      PROVE /\ \A t \in {l, r} : E!IsNumeric(t)
            /\ E!IsInt(l) /\ E!IsInt(r) => \A t \in {l, r} : E!Holds(E!IntPromote(l.ty, r.ty), t.ty)
            /\ float # {} => \A t \in moving : E!IsInt(t) => \E f \in float : E!Holds(f.ty, t.ty)
            /\ float = {} /\ (E!IsDecimal(l) \/ E!IsDecimal(r)) =>
                 \A t, u \in {l, r} : Digits(t) + Scale(u) <= E!DuckDecimalDigits
  <2>1. ExactlyCompared(l, r) \/ ExactlyCompared(r, l)
    BY <1>1, ComparisonsAdmitted, FormsAreExact
  <2>2. E!IsInt(l) /\ E!IsInt(r) => E!IntPromote(l.ty, r.ty) = E!IntPromote(r.ty, l.ty)
    BY TypeKinds, PromotionCommutes
  <2>3. /\ E!IsInt(l) => ~E!IsFloat(l)
        /\ E!IsInt(r) => ~E!IsFloat(r)
    BY Apart
  <2>4. \A t \in {l, r} : E!IsNumeric(t)
    BY <2>1 DEF ExactlyCompared
  <2>5. E!IsInt(l) /\ E!IsInt(r) => \A t \in {l, r} : E!Holds(E!IntPromote(l.ty, r.ty), t.ty)
    BY <2>1, <2>2 DEF ExactlyCompared
  <2>6. ASSUME float # {}, NEW t \in moving, E!IsInt(t) PROVE \E f \in float : E!Holds(f.ty, t.ty)
    <3>1. CASE t = l
      BY <2>1, <2>3, <2>6, <3>1 DEF ExactlyCompared
    <3>2. CASE t = r
      BY <2>1, <2>3, <2>6, <3>2 DEF ExactlyCompared
    <3> QED BY <3>1, <3>2
  <2>7. ASSUME float = {}, E!IsDecimal(l) \/ E!IsDecimal(r)
        PROVE  \A t, u \in {l, r} : Digits(t) + Scale(u) <= E!DuckDecimalDigits
    <3>1. ~E!IsFloat(l) /\ ~E!IsFloat(r)
      BY <2>7
    <3> QED BY <2>1, <2>7, <3>1 DEF ExactlyCompared
  <2> QED BY <2>4, <2>5, <2>6, <2>7
<1>2. E!ArithmeticResult(l, r) # E!None => \A t \in moving : E!Holds(E!ArithmeticResult(l, r), t.ty)
  <2> SUFFICES ASSUME E!ArithmeticResult(l, r) # E!None, NEW t \in moving
               PROVE  E!Holds(E!ArithmeticResult(l, r), t.ty)
    OBVIOUS
  <2> DEFINE ty == E!ArithmeticResult(l, r)
  <2>1. OneResult(l, r, ty) \/ OneResult(r, l, ty)
    BY ResultForms
  <2> HIDE DEF ty
  <2>2. /\ E!Literal(l) \/ E!Holds(ty, l.ty)
        /\ E!Literal(r) \/ E!Holds(ty, r.ty)
    BY <2>1, ResultsHold
  <2>3. E!Holds(ty, t.ty)
    BY <2>2
  <2> QED BY <2>3 DEF ty
<1>3. /\ E!AdmittedComparison(l, r) = E!AdmittedComparison(r, l)
      /\ E!TypeOfArithmetic(l, r) = E!TypeOfArithmetic(r, l)
      /\ E!TypeOfDivision(l, r) = E!TypeOfDivision(r, l)
      /\ E!CheckPair(l, r) = E!CheckPair(r, l)
  BY VerdictsCommute, TypesCommute
<1> QED BY <1>1, <1>2, <1>3 DEF E!ConversionsAreExact, Digits, Scale

-----------------------------------------------------------------------------
(* The parts together.                                                      *)

\* A step of the books is a step of each part or leaves it alone.
LEMMA BooksStep ==
  ASSUME [BooksNext]_bookVars
  PROVE  /\ [T!Next]_(T!vars) /\ [W!Next]_(W!vars)
         /\ [N!Next]_(N!vars) /\ [H!Next]_(H!vars)
<1> USE DEF traceVars, pollVars, viewVars, historyVars
<1>1. [T!Next]_(T!vars)
  BY DEF BooksNext, bookVars, T!vars
<1>2. [W!Next]_(W!vars)
  BY DEF BooksNext, bookVars, W!vars
<1>3. [N!Next]_(N!vars)
  BY DEF BooksNext, bookVars, N!vars
<1>4. [H!Next]_(H!vars)
  BY DEF BooksNext, bookVars, H!vars
<1> QED BY <1>1, <1>2, <1>3, <1>4

\* What is proved of a part's own specification holds of the books: each part runs as if it
\* were alone.
THEOREM BooksRefineTheirParts == BooksSpec => T!Spec /\ W!Spec /\ N!Spec /\ H!Spec
<1>1. BooksInit => T!Init /\ W!Init /\ N!Init /\ H!Init
  BY DEF BooksInit
<1>2. [BooksNext]_bookVars => /\ [T!Next]_(T!vars) /\ [W!Next]_(W!vars)
                              /\ [N!Next]_(N!vars) /\ [H!Next]_(H!vars)
  BY BooksStep
<1> QED BY <1>1, <1>2, PTL DEF BooksSpec, T!Spec, W!Spec, N!Spec, H!Spec

\* The desktop shell's two books are right, whatever number of polls and requests there is
\* (pool_poll.rs, viewportStreamManager.ts).
THEOREM ShellCorrect == BooksSpec => []ShellKeepsItsBooks
<1>1. W!PollMapIsExact /\ N!TicketsAreAccountedFor => ShellKeepsItsBooks
  BY DEF ShellKeepsItsBooks
<1> QED BY <1>1, BooksRefineTheirParts, PollsCorrect, TicketsCorrect, PTL

\* A finished trace stays as it is, in the books too (trace.rs TraceGuard::drop).
THEOREM FinishedCorrect == BooksSpec => FinishedTracesAreFinal
BY BooksRefineTheirParts, FinalCorrect, PTL DEF FinishedTracesAreFinal

\* A trace is true as far as it goes, in the books too (trace.rs Trace::push, events, spans).
THEOREM TracesCorrect == BooksSpec => []TracesAreTrue
<1>1. T!TraceIsTrue => TracesAreTrue
  BY DEF TracesAreTrue
<1> QED BY <1>1, BooksRefineTheirParts, TruthCorrect, PTL

\* A history that can be recovered is recovered as it was recorded, in the books too
\* (session_history.rs append, recover_bytes).
THEOREM RecoveryCorrect == BooksSpec => []RecoveredIsRecorded
<1>1. H!RecoveredIsRecorded => RecoveredIsRecorded
  BY DEF RecoveredIsRecorded
<1> QED BY <1>1, BooksRefineTheirParts, HistoryCorrect, PTL

\* A history only grows, in the books too (session_history.rs append, clear).
THEOREM OnlyGrowthCorrect == BooksSpec => HistoriesOnlyGrow
BY BooksRefineTheirParts, GrowthCorrect, PTL DEF HistoriesOnlyGrow
=============================================================================
