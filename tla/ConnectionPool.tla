--------------------------- MODULE ConnectionPool ---------------------------
(***************************************************************************)
(* The bounded, per-dataset pool of DuckDB connections                     *)
(* (engine/src/pool.rs).                                                   *)
(*                                                                         *)
(* A holder is one thread's attempt to hold one lease.  The pool's mutex   *)
(* makes every step that reads or writes idle, live or active atomic; what *)
(* the code does between two critical sections (creating and configuring a *)
(* connection, verifying one, closing one) is a state of its own in pc, so *)
(* the other holders' critical sections interleave with it.                *)
(***************************************************************************)
EXTENDS Naturals, Sequences, FiniteSets

CONSTANTS Holder,           \* threads that ask for a lease
          MaxStream,        \* MAX_STREAM_CONNECTIONS
          MaxMaintenance,   \* MAX_MAINTENANCE_CONNECTIONS
          MaxAdmission,     \* MAX_ADMISSION_CONNECTIONS
          MaxIdle,          \* PoolConfig::max_idle
          MaxCreated,       \* bound: connections ever created
          MaxIssued         \* bound: leases ever issued

ASSUME HolderAssumption == IsFiniteSet(Holder)

\* The compile-time assertions on the ceilings (pool.rs:139-141).
ASSUME CapacityAssumption == /\ MaxStream \in Nat \ {0}
                             /\ MaxMaintenance \in Nat \ {0}
                             /\ MaxAdmission \in Nat \ {0}

ASSUME BoundsAssumption == /\ MaxIdle \in Nat
                           /\ MaxCreated \in Nat
                           /\ MaxIssued \in Nat

LeaseClass == {"stream", "maintenance", "admission"}

capacity(c) == CASE c = "stream"      -> MaxStream
                 [] c = "maintenance" -> MaxMaintenance
                 [] c = "admission"   -> MaxAdmission

MaxPhysical == MaxStream + MaxMaintenance + MaxAdmission

VARIABLES idle,             \* the Vec of idle connections, popped at its end
          live,             \* connections the pool accounts for
          active,           \* leases outstanding, per class
          nextPhysicalId,
          leases,           \* leases[p]: uses of connection p so far
          leasesIssued,
          pc,               \* where each holder is
          class,            \* the class of each holder's slot; "none" without one
          physical,         \* the connection each holder owns; 0 for none
          generation,       \* Lease::generation; 0 for none
          refusal           \* the last refusal a holder was given

poolVars == <<idle, live, active, nextPhysicalId, leases, leasesIssued>>
vars == <<idle, live, active, nextPhysicalId, leases, leasesIssued,
          pc, class, physical, generation, refusal>>

PhysicalId == 1 .. MaxCreated

\* "out": no lease.  "creating": slot reserved, connection being created and
\* configured outside the lock.  "verifying": release_healthy runs SELECT 1.
\* "closing": the slot is given back and the connection is being dropped.
HolderState == {"out", "creating", "leased", "verifying", "closing"}

Refusal == {"none", "class", "physical", "setup"}

Init == /\ idle = <<>>
        /\ live = 0
        /\ active = [c \in LeaseClass |-> 0]
        /\ nextPhysicalId = 1
        /\ leases = [p \in PhysicalId |-> 0]
        /\ leasesIssued = 0
        /\ pc = [h \in Holder |-> "out"]
        /\ class = [h \in Holder |-> "none"]
        /\ physical = [h \in Holder |-> 0]
        /\ generation = [h \in Holder |-> 0]
        /\ refusal = [h \in Holder |-> "none"]

-----------------------------------------------------------------------------
(***************************************************************************)
(* acquire                                                                 *)
(***************************************************************************)

AtCapacity(c) == active[c] >= capacity(c)

NoConnectionLeft == idle = <<>> /\ live >= MaxPhysical

\* Both early returns of acquire: typed refusals, nothing waits and nothing of
\* the pool changes.  The second is asserted unreachable by a comment
\* (pool.rs:381-382).
Refuse(h, c) ==
  /\ pc[h] = "out"
  /\ AtCapacity(c) \/ NoConnectionLeft
  /\ refusal' = [refusal EXCEPT ![h] = IF AtCapacity(c) THEN "class" ELSE "physical"]
  /\ UNCHANGED <<poolVars, pc, class, physical, generation>>

\* The lease a holder is given: physical.leases and leases_issued go up.
Issue(h, p) ==
  /\ leasesIssued < MaxIssued
  /\ leases' = [leases EXCEPT ![p] = @ + 1]
  /\ leasesIssued' = leasesIssued + 1
  /\ pc' = [pc EXCEPT ![h] = "leased"]
  /\ physical' = [physical EXCEPT ![h] = p]
  /\ generation' = [generation EXCEPT ![h] = leases[p] + 1]

\* A bug: the idle connection is read and not removed.
TakeExistingWithoutPop(h, c) ==
  /\ pc[h] = "out"
  /\ ~AtCapacity(c)
  /\ idle # <<>>
  /\ active' = [active EXCEPT ![c] = @ + 1]
  /\ Issue(h, idle[Len(idle)])
  /\ class' = [class EXCEPT ![h] = c]
  /\ refusal' = [refusal EXCEPT ![h] = "none"]
  /\ UNCHANGED <<idle, live, nextPhysicalId>>

TakeExisting(h, c) ==
  /\ pc[h] = "out"
  /\ ~AtCapacity(c)
  /\ idle # <<>>
  /\ idle' = SubSeq(idle, 1, Len(idle) - 1)
  /\ active' = [active EXCEPT ![c] = @ + 1]
  /\ Issue(h, idle[Len(idle)])
  /\ class' = [class EXCEPT ![h] = c]
  /\ refusal' = [refusal EXCEPT ![h] = "none"]
  /\ UNCHANGED <<live, nextPhysicalId>>

\* The slot and the id are reserved under the lock; the lock is then released
\* and the connection created.
ReserveNew(h, c) ==
  /\ pc[h] = "out"
  /\ nextPhysicalId <= MaxCreated
  /\ ~AtCapacity(c)
  /\ idle = <<>>
  /\ ~NoConnectionLeft
  /\ active' = [active EXCEPT ![c] = @ + 1]
  /\ live' = live + 1
  /\ nextPhysicalId' = nextPhysicalId + 1
  /\ pc' = [pc EXCEPT ![h] = "creating"]
  /\ class' = [class EXCEPT ![h] = c]
  /\ physical' = [physical EXCEPT ![h] = nextPhysicalId]
  /\ refusal' = [refusal EXCEPT ![h] = "none"]
  /\ UNCHANGED <<idle, leases, leasesIssued, generation>>

\* configure_new returns a configured connection: its first lease.
ConfigureOk(h) ==
  /\ pc[h] = "creating"
  /\ Issue(h, physical[h])
  /\ UNCHANGED <<idle, live, active, nextPhysicalId, class, refusal>>

\* A bug: the error path gives back the physical slot and not the class slot.
ConfigureErrKeepsSlot(h) ==
  /\ pc[h] = "creating"
  /\ live' = live - 1
  /\ pc' = [pc EXCEPT ![h] = "out"]
  /\ physical' = [physical EXCEPT ![h] = 0]
  /\ class' = [class EXCEPT ![h] = "none"]
  /\ refusal' = [refusal EXCEPT ![h] = "setup"]
  /\ UNCHANGED <<idle, active, nextPhysicalId, leases, leasesIssued, generation>>

\* configure_new fails: both reservations are undone under the lock.
ConfigureErr(h) ==
  /\ pc[h] = "creating"
  /\ active' = [active EXCEPT ![class[h]] = @ - 1]
  /\ live' = live - 1
  /\ pc' = [pc EXCEPT ![h] = "out"]
  /\ physical' = [physical EXCEPT ![h] = 0]
  /\ class' = [class EXCEPT ![h] = "none"]
  /\ refusal' = [refusal EXCEPT ![h] = "setup"]
  /\ UNCHANGED <<idle, nextPhysicalId, leases, leasesIssued, generation>>

-----------------------------------------------------------------------------
(***************************************************************************)
(* Ending a lease                                                          *)
(***************************************************************************)

\* release_healthy verifies while the lease still owns the connection.
BeginRelease(h) ==
  /\ pc[h] = "leased"
  /\ pc' = [pc EXCEPT ![h] = "verifying"]
  /\ UNCHANGED <<poolVars, class, physical, generation, refusal>>

RoomForIdle == Len(idle) < MaxIdle

\* return_healthy: one critical section gives the slot back and either keeps
\* the connection or makes it surplus, which is closed outside the lock.
ReturnHealthy(h) ==
  /\ pc[h] = "verifying"
  /\ active' = [active EXCEPT ![class[h]] = @ - 1]
  /\ class' = [class EXCEPT ![h] = "none"]
  /\ generation' = [generation EXCEPT ![h] = 0]
  /\ \/ /\ RoomForIdle
        /\ idle' = Append(idle, physical[h])
        /\ pc' = [pc EXCEPT ![h] = "out"]
        /\ physical' = [physical EXCEPT ![h] = 0]
        /\ live' = live
     \/ /\ ~RoomForIdle
        /\ live' = live - 1
        /\ pc' = [pc EXCEPT ![h] = "closing"]
        /\ UNCHANGED <<idle, physical>>
  /\ UNCHANGED <<nextPhysicalId, leases, leasesIssued, refusal>>

\* A bug: Drop forgets the physical count when the verification failed.
DiscardKeepsLive(h) ==
  /\ pc[h] \in {"leased", "verifying"}
  /\ active' = [active EXCEPT ![class[h]] = @ - 1]
  /\ live' = IF pc[h] = "leased" THEN live - 1 ELSE live
  /\ pc' = [pc EXCEPT ![h] = "closing"]
  /\ class' = [class EXCEPT ![h] = "none"]
  /\ generation' = [generation EXCEPT ![h] = 0]
  /\ UNCHANGED <<idle, nextPhysicalId, leases, leasesIssued, physical, refusal>>

\* Drop, reached from a holder that never released and from a verification
\* that failed or unwound.
Discard(h) ==
  /\ pc[h] \in {"leased", "verifying"}
  /\ active' = [active EXCEPT ![class[h]] = @ - 1]
  /\ live' = live - 1
  /\ pc' = [pc EXCEPT ![h] = "closing"]
  /\ class' = [class EXCEPT ![h] = "none"]
  /\ generation' = [generation EXCEPT ![h] = 0]
  /\ UNCHANGED <<idle, nextPhysicalId, leases, leasesIssued, physical, refusal>>

\* drop(p) / drop(surplus): after the critical section, without the lock.
Close(h) ==
  /\ pc[h] = "closing"
  /\ pc' = [pc EXCEPT ![h] = "out"]
  /\ physical' = [physical EXCEPT ![h] = 0]
  /\ UNCHANGED <<poolVars, class, generation, refusal>>

HolderNext(h) ==
  \/ \E c \in LeaseClass : \/ Refuse(h, c)
                           \/ TakeExisting(h, c)
                           \/ ReserveNew(h, c)
  \/ ConfigureOk(h)
  \/ ConfigureErr(h)
  \/ BeginRelease(h)
  \/ ReturnHealthy(h)
  \/ Discard(h)
  \/ Close(h)

Next == \E h \in Holder : HolderNext(h)

Spec == Init /\ [][Next]_vars

-----------------------------------------------------------------------------
(***************************************************************************)
(* Properties                                                              *)
(***************************************************************************)

\* Every variable of the pool and of its holders has its type.
TypeOK == /\ idle \in Seq(PhysicalId)
          /\ live \in Nat
          /\ active \in [LeaseClass -> Nat]
          /\ nextPhysicalId \in 1 .. MaxCreated + 1
          /\ leases \in [PhysicalId -> Nat]
          /\ leasesIssued \in Nat
          /\ pc \in [Holder -> HolderState]
          /\ class \in [Holder -> LeaseClass \cup {"none"}]
          /\ physical \in [Holder -> PhysicalId \cup {0}]
          /\ generation \in [Holder -> Nat]
          /\ refusal \in [Holder -> Refusal]

\* The holders whose slot the pool has counted and not taken back.
SlotState == {"creating", "leased", "verifying"}

Counted(c) == {h \in Holder : pc[h] \in SlotState /\ class[h] = c}

\* The three class counts together.
ActiveSum == active["stream"] + active["maintenance"] + active["admission"]

\* No capacity leaks and none is invented: whatever path a lease ended by
\* (returned, surplus, discarded, never configured), each class counts exactly
\* the holders that have a slot of it and live is those plus the idle ones, so
\* a quiescent pool has its whole capacity back.
PoolAccounting ==
  /\ \A c \in LeaseClass : active[c] = Cardinality(Counted(c))
  /\ live = Len(idle) + ActiveSum

\* The declared ceilings hold at every interleaving of acquire's two critical
\* sections with the releases.
CeilingsHold == /\ \A c \in LeaseClass : active[c] <= capacity(c)
                /\ live <= MaxPhysical

\* A connection has one owner: two leases never share one, and a leased one is
\* not also waiting in idle, where the next acquire would pop it.  This is what
\* makes an interrupt handle address one query (pool.rs:501-505).
ExclusiveLease ==
  /\ \A g, h \in Holder : (physical[g] = physical[h] /\ physical[g] # 0) => g = h
  /\ \A h \in Holder : \A i \in 1 .. Len(idle) : idle[i] # physical[h]
  /\ \A i, j \in 1 .. Len(idle) : idle[i] = idle[j] => i = j

\* A lease's (physical id, generation) names one use of one connection: a
\* holder's generation is always the newest one of the connection it owns.
GenerationNamesOneUse ==
  \A h \in Holder : pc[h] \in {"leased", "verifying"} => generation[h] = leases[physical[h]]

\* The classes are isolated: an acquire is refused only because its own class is
\* full, never because other classes or idle connections used up the physical
\* ceiling ("Unreachable while the class capacities sum to this ceiling").
ClassesAreIsolated == \A h \in Holder : refusal[h] # "physical"
=============================================================================
