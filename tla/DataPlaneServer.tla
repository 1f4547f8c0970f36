---------------------------- MODULE DataPlaneServer ----------------------------
(***************************************************************************)
(* The data plane's connections (protocol/data-plane/src/server.rs): the   *)
(* idle ceiling, the admission of streams, the handler of one connection   *)
(* on all its paths, and the bounded registry of streams, composed with    *)
(* the ceiling on stream leases of the engine's pool (engine/src/pool.rs). *)
(*                                                                         *)
(* A stream that is being driven is one step here (DataPlaneDrive has its  *)
(* inside): it ends when its source ended, which the engine reports only   *)
(* after it resolved the lease (EngineStream!EndMeansLeaseResolved), or it *)
(* is cut by its peer or its transport, and then the lease outlives it.    *)
(* Every connection opens streams on the same dataset, the worst case for  *)
(* the pool.                                                               *)
(***************************************************************************)
EXTENDS Naturals, FiniteSets, Sequences, Functions

CONSTANTS Conn,         \* the connections the server sees
          MaxStreams,   \* MAX_CONCURRENT_STREAMS
          MaxIdle,      \* MAX_IDLE_CONNECTIONS
          MaxRecords,   \* MAX_TERMINAL_RECORDS
          MaxLeases     \* the engine's MAX_STREAM_CONNECTIONS

ASSUME CeilingAssumption ==
    /\ MaxStreams \in Nat \ {0} /\ MaxIdle \in Nat \ {0}
    /\ MaxRecords \in Nat /\ MaxRecords >= MaxStreams
    /\ MaxLeases = MaxStreams
ASSUME ConnAssumption == IsFiniteSet(Conn)

VARIABLES conn,       \* where each connection's handler is
          idle,       \* connections holding an idle permit
          slots,      \* connections holding an admission permit
          idleFree, slotsFree,  \* the two semaphores
          refusals,
          leased,     \* connections whose stream holds a lease of the pool
          resolved,   \* streams whose producer gave its lease back
          cut,        \* streams that ended before their source did
          exhausted,  \* connections the pool refused a lease
          streams,    \* StreamRegistryState.streams: the entries of each stream
          terminals,  \* StreamRegistryState.terminals: the records, by place in ended
          ended,      \* every stream in the order its terminal was recorded
          aged        \* how many of those are older than TERMINAL_RECORD_MAX_AGE

permitVars == <<idle, slots, idleFree, slotsFree, refusals>>
engineVars == <<leased, resolved, cut, exhausted>>
registryVars == <<streams, terminals, ended, aged>>
vars == <<conn, permitVars, engineVars, registryVars>>

\* A stream is one for which record has run and no terminal was recorded.
Streaming == {"spawning", "driving", "ending"}
ConnState == {"absent", "waiting", "refusing", "admitting", "creating", "draining",
              "closed"} \cup Streaming

Init == /\ conn = [c \in Conn |-> "absent"]
        /\ idle = {} /\ slots = {}
        /\ idleFree = MaxIdle /\ slotsFree = MaxStreams
        /\ refusals = 0
        /\ leased = {} /\ resolved = {} /\ cut = {} /\ exhausted = {}
        /\ streams = [c \in Conn |-> 0] /\ terminals = {} /\ ended = <<>> /\ aged = 0

goTo(c, place) == conn' = [conn EXCEPT ![c] = place]

dropIdle(c) == /\ idle' = idle \ {c}
               /\ idleFree' = IF c \in idle THEN idleFree + 1 ELSE idleFree

dropSlot(c) == /\ slots' = slots \ {c}
               /\ slotsFree' = slotsFree + 1

-----------------------------------------------------------------------------
(* The registry.                                                            *)

\* A record carries the time it was pushed, so records age in their order.
isAged(i) == i <= aged

\* Aged records go first, then the earliest beyond the ceiling.
keptTerminals(ts) ==
    LET young == {i \in ts : ~isAged(i)}
    IN {i \in young : Cardinality({j \in young : j >= i}) <= MaxRecords}

\* prune_locked: every evicted record takes its stream's entry with it.
prune(entries, records, history) ==
    LET kept == keptTerminals(records)
        evicted == {history[i] : i \in records \ kept}
    IN /\ terminals' = kept
       /\ streams' = [c \in Conn |-> IF c \in evicted THEN 0 ELSE entries[c]]

recordTerminal(c) == /\ ended' = Append(ended, c)
                     /\ prune(streams, terminals \cup {Len(ended) + 1}, Append(ended, c))
                     /\ UNCHANGED aged

\* Time passes: the oldest record not yet too old becomes so.
Age == /\ aged < Len(ended)
       /\ aged' = aged + 1
       /\ UNCHANGED <<conn, permitVars, engineVars, streams, terminals, ended>>

-----------------------------------------------------------------------------
(* The handler of one connection.                                           *)

\* Every authenticated connection is admitted; the idle permit decides only
\* how long it may wait.
Connect(c) ==
    /\ conn[c] = "absent"
    /\ goTo(c, "waiting")
    /\ IF idleFree > 0
       THEN idle' = idle \cup {c} /\ idleFree' = idleFree - 1
       ELSE UNCHANGED <<idle, idleFree>>
    /\ UNCHANGED <<slots, slotsFree, refusals, engineVars, registryVars>>

\* A START frame was read: the connection is no longer idle.
ReadStart(c) ==
    /\ conn[c] = "waiting"
    /\ goTo(c, "admitting")
    /\ dropIdle(c)
    /\ UNCHANGED <<slots, slotsFree, refusals, engineVars, registryVars>>

\* The peer left before starting anything: the handler returns.
PeerLeft(c) ==
    /\ conn[c] = "waiting"
    /\ goTo(c, "closed")
    /\ dropIdle(c)
    /\ UNCHANGED <<slots, slotsFree, refusals, engineVars, registryVars>>

\* A START that does not parse, or none within the budget: a terminal frame and
\* the drain, with the idle permit still in the handler's hands.
NotStarted(c) ==
    /\ conn[c] = "waiting"
    /\ goTo(c, "refusing")
    /\ UNCHANGED <<permitVars, engineVars, registryVars>>

Admit(c) ==
    /\ conn[c] = "admitting" /\ slotsFree > 0
    /\ goTo(c, "creating")
    /\ slots' = slots \cup {c}
    /\ slotsFree' = slotsFree - 1
    /\ UNCHANGED <<idle, idleFree, refusals, engineVars, registryVars>>

\* Refused, not queued.
RefuseAdmission(c) ==
    /\ conn[c] = "admitting" /\ slotsFree = 0
    /\ goTo(c, "draining")
    /\ refusals' = refusals + 1
    /\ UNCHANGED <<idle, slots, idleFree, slotsFree, engineVars, registryVars>>

\* A bug: the slot is kept until the handler returns.
CreateRefusedKeepsSlot(c) ==
    /\ conn[c] = "creating"
    /\ goTo(c, "draining")
    /\ exhausted' = IF Cardinality(leased) >= MaxLeases THEN exhausted \cup {c} ELSE exhausted
    /\ UNCHANGED <<permitVars, leased, resolved, cut, registryVars>>

\* The factory refused, for want of a lease or for a reason of its own, or
\* panicked: no stream started and the slot goes back before the drain.
CreateRefused(c) ==
    /\ conn[c] = "creating"
    /\ goTo(c, "draining")
    /\ exhausted' = IF Cardinality(leased) >= MaxLeases THEN exhausted \cup {c} ELSE exhausted
    /\ dropSlot(c)
    /\ UNCHANGED <<idle, idleFree, refusals, leased, resolved, cut, registryVars>>

\* The factory's stream took a lease; the registry records it.
Create(c) ==
    /\ conn[c] = "creating" /\ Cardinality(leased) < MaxLeases
    /\ goTo(c, "spawning")
    /\ leased' = leased \cup {c}
    /\ prune([streams EXCEPT ![c] = @ + 1], terminals, ended)
    /\ UNCHANGED <<permitVars, resolved, cut, exhausted, ended, aged>>

\* The pump has its thread and the connection is driven.
SpawnPump(c) ==
    /\ conn[c] = "spawning"
    /\ goTo(c, "driving")
    /\ UNCHANGED <<permitVars, engineVars, registryVars>>

\* A bug: the stream that never got its pump is recorded and never ended.
SpawnPumpFailsUnrecorded(c) ==
    /\ conn[c] = "spawning"
    /\ goTo(c, "draining")
    /\ dropSlot(c)
    /\ cut' = cut \cup {c}
    /\ UNCHANGED <<idle, idleFree, refusals, leased, resolved, exhausted, registryVars>>

\* No thread for the pump: its source is dropped, which cancels the query, and
\* the slot goes back before the drain.
SpawnPumpFails(c) ==
    /\ conn[c] = "spawning"
    /\ goTo(c, "ending")
    /\ dropSlot(c)
    /\ cut' = cut \cup {c}
    /\ UNCHANGED <<idle, idleFree, refusals, leased, resolved, exhausted, registryVars>>

\* The engine's producer resolved its lease: it ended by itself, or after the
\* stream was cut.
ResolveLease(c) ==
    /\ c \in leased
    /\ leased' = leased \ {c}
    /\ resolved' = resolved \cup {c}
    /\ UNCHANGED <<conn, permitVars, cut, exhausted, registryVars>>

\* A bug: the source's end reaches the binding before its lease is back.
SourceEndedEarly(c) == conn[c] = "driving"

\* The source's end reaches the binding after its lease is back.
SourceEnded(c) == conn[c] = "driving" /\ c \in resolved

\* drive handed over its terminal frame after its source ended.
DriveEnds(c) ==
    /\ SourceEnded(c)
    /\ goTo(c, "ending")
    /\ dropSlot(c)
    /\ UNCHANGED <<idle, idleFree, refusals, engineVars, registryVars>>

\* drive ended because its peer cancelled, left or broke.
DriveCut(c) ==
    /\ conn[c] = "driving"
    /\ goTo(c, "ending")
    /\ dropSlot(c)
    /\ cut' = cut \cup {c}
    /\ UNCHANGED <<idle, idleFree, refusals, leased, resolved, exhausted, registryVars>>

\* The peer drained or the drain timed out: the terminal is recorded and the
\* handler returns.
Ended(c) ==
    /\ conn[c] = "ending"
    /\ goTo(c, "closed")
    /\ recordTerminal(c)
    /\ UNCHANGED <<permitVars, engineVars>>

\* The drain of a connection that never had a stream ends; returning drops
\* what the handler still holds.
Returned(c) ==
    /\ conn[c] \in {"draining", "refusing"}
    /\ goTo(c, "closed")
    /\ dropIdle(c)
    /\ UNCHANGED <<slots, slotsFree, refusals, engineVars, registryVars>>

Quiet == /\ \A c \in Conn : conn[c] = "closed"
         /\ UNCHANGED vars

Next == \/ \E c \in Conn : \/ Connect(c) \/ ReadStart(c) \/ PeerLeft(c) \/ NotStarted(c)
                           \/ Admit(c) \/ RefuseAdmission(c) \/ Create(c) \/ CreateRefused(c)
                           \/ SpawnPump(c) \/ SpawnPumpFails(c) \/ ResolveLease(c)
                           \/ DriveEnds(c) \/ DriveCut(c) \/ Ended(c) \/ Returned(c)
        \/ Age
        \/ Quiet

Spec == Init /\ [][Next]_vars

-----------------------------------------------------------------------------
TypeOK ==
    /\ conn \in [Conn -> ConnState]
    /\ {idle, slots, leased, resolved, cut, exhausted} \subseteq SUBSET Conn
    /\ idleFree \in 0..MaxIdle /\ slotsFree \in 0..MaxStreams
    /\ refusals \in 0..Cardinality(Conn)
    /\ streams \in [Conn -> Nat] /\ ended \in Seq(Conn) /\ terminals \subseteq 1..Len(ended)
    /\ aged \in 0..Len(ended)

(* Both semaphores account for every permit on every path out of the        *)
(* handler, and a slot stands for a stream that is being served: no idle    *)
(* connection, no refused one and no peer that is slow to close holds one   *)
(* (server.rs, "a function of client timing rather than of load").          *)
SlotsMeanWork ==
    /\ slotsFree + Cardinality(slots) = MaxStreams
    /\ idleFree + Cardinality(idle) = MaxIdle
    /\ slots = {c \in Conn : conn[c] \in {"creating", "spawning", "driving"}}
    /\ idle \cap slots = {}

\* The streams a terminal is kept for.
recorded == {ended[i] : i \in terminals}

(* The registry holds the live streams and the finished ones it has a       *)
(* terminal for, each once, and nothing else: no path leaves a stream in it *)
(* for ever, no eviction takes a live one, no stream's end is recorded      *)
(* twice, and eviction takes the earliest records, so what is left is the   *)
(* latest part of the history.                                              *)
RegistryIsExact ==
    /\ streams = [c \in Conn |-> IF conn[c] \in Streaming \/ c \in recorded THEN 1 ELSE 0]
    /\ IsInjective(ended)
    /\ Cardinality(terminals) <= MaxRecords
    /\ \E k \in 0..Len(ended) : terminals = (k + 1)..Len(ended)

(* Whatever way a handler takes, what it took comes back: its permits and   *)
(* its place among the live streams.                                        *)
HandlersGiveBack == SlotsMeanWork /\ RegistryIsExact

(* pool.rs: with equal ceilings the pool never refuses a lease to a stream  *)
(* the binding admitted while every stream ran to its end; only a stream    *)
(* cut short leaves its lease behind its slot.                              *)
ExhaustionNeedsACut == exhausted # {} => cut # {}
=============================================================================
