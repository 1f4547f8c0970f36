------------------------ MODULE DataPlaneServerProofs ------------------------
(***************************************************************************)
(* What the data plane's admission guarantees for any number of            *)
(* connections and every choice of the ceilings.                           *)
(*                                                                         *)
(* ExhaustionNeedsACut is about two counters of two components: the        *)
(* binding's slots and the pool's leases.  It holds because a lease lies   *)
(* within a slot until the lease is resolved or the stream is cut          *)
(* (LeasesAreCovered), and because slots are counted on every path         *)
(* (SlotsMeanWork).                                                        *)
(***************************************************************************)
EXTENDS DataPlaneServer, FiniteSetTheorems, SequenceTheorems, TLAPS

PermitTypes ==
    /\ conn \in [Conn -> ConnState]
    /\ idle \subseteq Conn /\ slots \subseteq Conn
    /\ idleFree \in Nat /\ slotsFree \in Nat

\* Only a connection that has not started a stream holds an idle permit.
IdleIsWaiting == idle \subseteq {c \in Conn : conn[c] \in {"waiting", "refusing"}}

\* A lease is one stream's, and while no stream was cut it lies within that stream's slot.
LeasesAreCovered ==
    /\ leased \subseteq {c \in Conn : conn[c] \in Streaming \cup {"closed"}}
    /\ resolved \subseteq {c \in Conn : conn[c] \in Streaming \cup {"closed"}}
    /\ leased \cap resolved = {}
    /\ leased \subseteq slots \cup cut

\* The inductive invariant.
IInv == PermitTypes /\ IdleIsWaiting /\ SlotsMeanWork /\ LeasesAreCovered /\ ExhaustionNeedsACut

-----------------------------------------------------------------------------
\* Sets of connections are finite.
LEMMA ConnSubset ==
  ASSUME NEW S \in SUBSET Conn
  PROVE  /\ IsFiniteSet(S) /\ Cardinality(S) \in Nat
         /\ \A c \in Conn \ S : Cardinality(S \cup {c}) = Cardinality(S) + 1
         /\ \A c \in S : Cardinality(S \ {c}) = Cardinality(S) - 1
BY ConnAssumption, FS_Subset, FS_CardinalityType, FS_AddElement, FS_RemoveElement

\* Giving an idle permit back, or not having one, keeps the count.
LEMMA DropIdleCounts ==
  ASSUME PermitTypes, idleFree + Cardinality(idle) = MaxIdle, NEW c \in Conn, dropIdle(c)
  PROVE  /\ idleFree' + Cardinality(idle') = MaxIdle
         /\ idleFree' \in Nat /\ idle' = idle \ {c}
<1>1. CASE c \in idle
  BY <1>1, ConnSubset, CeilingAssumption DEF PermitTypes, dropIdle
<1>2. CASE c \notin idle
  <2>1. idle \ {c} = idle
    BY <1>2
  <2> QED BY <1>2, <2>1 DEF PermitTypes, dropIdle
<1> QED BY <1>1, <1>2

\* Giving a slot back keeps the count.
LEMMA DropSlotCounts ==
  ASSUME PermitTypes, SlotsMeanWork, NEW c \in slots, dropSlot(c)
  PROVE  /\ slotsFree' + Cardinality(slots') = MaxStreams
         /\ slotsFree' \in Nat /\ slots' = slots \ {c}
BY ConnSubset, CeilingAssumption DEF PermitTypes, SlotsMeanWork, dropSlot

\* The pool has a lease left for an admitted stream, as long as no stream was cut.
LEMMA LeaseIsLeft ==
  ASSUME IInv, NEW c \in Conn, conn[c] = "creating", cut = {}
  PROVE  Cardinality(leased) < MaxLeases
<1>1. c \in slots /\ c \notin leased /\ leased \subseteq slots \ {c}
  BY DEF IInv, SlotsMeanWork, LeasesAreCovered, Streaming
<1>2. Cardinality(slots \ {c}) = Cardinality(slots) - 1 /\ Cardinality(slots) \in Nat
      /\ IsFiniteSet(slots \ {c})
  BY <1>1, ConnSubset DEF IInv, PermitTypes
<1>3. Cardinality(leased) <= Cardinality(slots \ {c}) /\ Cardinality(leased) \in Nat
  BY <1>1, <1>2, FS_Subset, FS_CardinalityType
<1>4. Cardinality(slots) <= MaxStreams
  BY <1>2, CeilingAssumption DEF IInv, SlotsMeanWork, PermitTypes
<1> QED BY <1>2, <1>3, <1>4, CeilingAssumption

\* Every step keeps the invariant.
LEMMA Step == IInv /\ [Next]_vars => IInv'
<1> SUFFICES ASSUME IInv, [Next]_vars PROVE IInv'
  OBVIOUS
<1> USE DEF IInv
<1>1. ASSUME NEW c \in Conn, Connect(c) PROVE IInv'
  <2>1. /\ conn[c] = "absent" /\ conn' = [conn EXCEPT ![c] = "waiting"]
        /\ UNCHANGED <<slots, slotsFree, engineVars>>
        /\ c \notin idle /\ c \notin slots
    BY <1>1 DEF Connect, goTo, PermitTypes, IdleIsWaiting, SlotsMeanWork
  <2>2. /\ idleFree' + Cardinality(idle') = MaxIdle
        /\ idleFree' \in Nat /\ idle' \subseteq idle \cup {c}
    BY <1>1, <2>1, ConnSubset, CeilingAssumption DEF Connect, PermitTypes, SlotsMeanWork
  <2>3. PermitTypes' /\ IdleIsWaiting'
    BY <2>1, <2>2 DEF PermitTypes, ConnState, IdleIsWaiting
  <2>4. SlotsMeanWork'
    BY <2>1, <2>2 DEF PermitTypes, SlotsMeanWork
  <2>5. LeasesAreCovered' /\ ExhaustionNeedsACut'
    BY <2>1 DEF PermitTypes, LeasesAreCovered, ExhaustionNeedsACut, Streaming, engineVars
  <2> QED BY <2>3, <2>4, <2>5
<1>2. ASSUME NEW c \in Conn, ReadStart(c) \/ PeerLeft(c) \/ Returned(c) PROVE IInv'
  <2>1. /\ conn[c] \in {"waiting", "draining", "refusing"}
        /\ conn' = [conn EXCEPT ![c] = "admitting"] \/ conn' = [conn EXCEPT ![c] = "closed"]
        /\ UNCHANGED <<slots, slotsFree, engineVars>>
        /\ dropIdle(c) /\ c \notin slots /\ c \notin leased /\ c \notin resolved
    BY <1>2 DEF ReadStart, PeerLeft, Returned, goTo, SlotsMeanWork, LeasesAreCovered, Streaming
  <2>2. /\ idleFree' + Cardinality(idle') = MaxIdle
        /\ idleFree' \in Nat /\ idle' = idle \ {c}
    BY <2>1, DropIdleCounts DEF SlotsMeanWork
  <2>3. PermitTypes' /\ IdleIsWaiting'
    BY <2>1, <2>2 DEF PermitTypes, ConnState, IdleIsWaiting
  <2>4. SlotsMeanWork'
    BY <2>1, <2>2 DEF PermitTypes, SlotsMeanWork
  <2>5. LeasesAreCovered' /\ ExhaustionNeedsACut'
    BY <2>1 DEF PermitTypes, LeasesAreCovered, ExhaustionNeedsACut, Streaming, engineVars
  <2> QED BY <2>3, <2>4, <2>5
<1>3. ASSUME NEW c \in Conn, NotStarted(c) \/ RefuseAdmission(c) PROVE IInv'
  <2>1. /\ \/ conn[c] = "waiting" /\ conn' = [conn EXCEPT ![c] = "refusing"]
           \/ conn[c] = "admitting" /\ conn' = [conn EXCEPT ![c] = "draining"]
        /\ UNCHANGED <<idle, idleFree, slots, slotsFree, engineVars>>
    BY <1>3 DEF NotStarted, RefuseAdmission, goTo, permitVars
  <2>2. PermitTypes' /\ IdleIsWaiting'
    BY <2>1 DEF PermitTypes, ConnState, IdleIsWaiting
  <2>3. SlotsMeanWork'
    BY <2>1 DEF PermitTypes, SlotsMeanWork
  <2>4. LeasesAreCovered' /\ ExhaustionNeedsACut'
    BY <2>1 DEF PermitTypes, LeasesAreCovered, ExhaustionNeedsACut, Streaming, engineVars
  <2> QED BY <2>2, <2>3, <2>4
<1>4. ASSUME NEW c \in Conn, Admit(c) PROVE IInv'
  <2>1. /\ conn[c] = "admitting" /\ conn' = [conn EXCEPT ![c] = "creating"]
        /\ slots' = slots \cup {c} /\ slotsFree > 0 /\ slotsFree' = slotsFree - 1
        /\ UNCHANGED <<idle, idleFree, engineVars>>
        /\ c \notin slots /\ c \notin idle
    BY <1>4 DEF Admit, goTo, SlotsMeanWork, IdleIsWaiting
  <2>2. slotsFree' + Cardinality(slots') = MaxStreams /\ slotsFree' \in Nat
    BY <2>1, ConnSubset, CeilingAssumption DEF PermitTypes, SlotsMeanWork
  <2>3. PermitTypes' /\ IdleIsWaiting'
    BY <2>1, <2>2 DEF PermitTypes, ConnState, IdleIsWaiting
  <2>4. SlotsMeanWork'
    BY <2>1, <2>2 DEF PermitTypes, SlotsMeanWork
  <2>5. LeasesAreCovered' /\ ExhaustionNeedsACut'
    BY <2>1 DEF PermitTypes, LeasesAreCovered, ExhaustionNeedsACut, Streaming, engineVars
  <2> QED BY <2>3, <2>4, <2>5
<1>5. ASSUME NEW c \in Conn, CreateRefused(c) PROVE IInv'
  <2>1. /\ conn[c] = "creating" /\ conn' = [conn EXCEPT ![c] = "draining"]
        /\ dropSlot(c) /\ c \in slots /\ c \notin leased /\ c \notin resolved
        /\ UNCHANGED <<idle, idleFree, leased, resolved, cut>>
        /\ exhausted' = IF Cardinality(leased) >= MaxLeases THEN exhausted \cup {c} ELSE exhausted
    BY <1>5 DEF CreateRefused, goTo, SlotsMeanWork, LeasesAreCovered, Streaming
  <2>2. /\ slotsFree' + Cardinality(slots') = MaxStreams
        /\ slotsFree' \in Nat /\ slots' = slots \ {c}
    BY <2>1, DropSlotCounts
  <2>3. PermitTypes' /\ IdleIsWaiting'
    BY <2>1, <2>2 DEF PermitTypes, ConnState, IdleIsWaiting
  <2>4. SlotsMeanWork'
    BY <2>1, <2>2 DEF PermitTypes, SlotsMeanWork
  <2>5. LeasesAreCovered'
    BY <2>1, <2>2 DEF PermitTypes, LeasesAreCovered, Streaming
  <2>6. ExhaustionNeedsACut'
    <3>1. CASE cut = {}
      <4>1. Cardinality(leased) < MaxLeases
        BY <2>1, <3>1, LeaseIsLeft
      <4>2. Cardinality(leased) \in Nat
        BY ConnSubset DEF LeasesAreCovered
      <4>3. ~(Cardinality(leased) >= MaxLeases)
        BY <4>1, <4>2, CeilingAssumption
      <4> QED BY <2>1, <4>3 DEF ExhaustionNeedsACut
    <3>2. CASE cut # {}
      BY <2>1, <3>2 DEF ExhaustionNeedsACut
    <3> QED BY <3>1, <3>2
  <2> QED BY <2>3, <2>4, <2>5, <2>6
<1>6. ASSUME NEW c \in Conn, Create(c) PROVE IInv'
  <2>1. /\ conn[c] = "creating" /\ conn' = [conn EXCEPT ![c] = "spawning"]
        /\ leased' = leased \cup {c} /\ c \in slots /\ c \notin resolved
        /\ UNCHANGED <<idle, idleFree, slots, slotsFree, resolved, cut, exhausted>>
    BY <1>6 DEF Create, goTo, permitVars, SlotsMeanWork, LeasesAreCovered, Streaming
  <2>2. PermitTypes' /\ IdleIsWaiting'
    BY <2>1 DEF PermitTypes, ConnState, Streaming, IdleIsWaiting
  <2>3. SlotsMeanWork'
    BY <2>1 DEF PermitTypes, SlotsMeanWork
  <2>4. LeasesAreCovered' /\ ExhaustionNeedsACut'
    BY <2>1 DEF PermitTypes, LeasesAreCovered, ExhaustionNeedsACut, Streaming
  <2> QED BY <2>2, <2>3, <2>4
<1>7. ASSUME NEW c \in Conn, SpawnPump(c) PROVE IInv'
  <2>1. /\ conn[c] = "spawning" /\ conn' = [conn EXCEPT ![c] = "driving"]
        /\ UNCHANGED <<idle, idleFree, slots, slotsFree, engineVars>>
    BY <1>7 DEF SpawnPump, goTo, permitVars
  <2>2. PermitTypes' /\ IdleIsWaiting'
    BY <2>1 DEF PermitTypes, ConnState, Streaming, IdleIsWaiting
  <2>3. SlotsMeanWork'
    BY <2>1 DEF PermitTypes, SlotsMeanWork
  <2>4. LeasesAreCovered' /\ ExhaustionNeedsACut'
    BY <2>1 DEF PermitTypes, LeasesAreCovered, ExhaustionNeedsACut, Streaming, engineVars
  <2> QED BY <2>2, <2>3, <2>4
<1>8. ASSUME NEW c \in Conn, SpawnPumpFails(c) \/ DriveCut(c) \/ DriveEnds(c) PROVE IInv'
  <2>1. /\ conn[c] \in {"spawning", "driving"} /\ conn' = [conn EXCEPT ![c] = "ending"]
        /\ dropSlot(c) /\ c \in slots
        /\ \/ cut' = cut \cup {c}
           \/ cut' = cut /\ c \in resolved
        /\ UNCHANGED <<idle, idleFree, leased, resolved, exhausted>>
    BY <1>8 DEF SpawnPumpFails, DriveCut, DriveEnds, SourceEnded, goTo, engineVars, SlotsMeanWork
  <2>2. /\ slotsFree' + Cardinality(slots') = MaxStreams
        /\ slotsFree' \in Nat /\ slots' = slots \ {c}
    BY <2>1, DropSlotCounts
  <2>3. PermitTypes' /\ IdleIsWaiting'
    BY <2>1, <2>2 DEF PermitTypes, ConnState, Streaming, IdleIsWaiting
  <2>4. SlotsMeanWork'
    BY <2>1, <2>2 DEF PermitTypes, SlotsMeanWork
  <2>5. LeasesAreCovered'
    BY <2>1, <2>2 DEF PermitTypes, LeasesAreCovered, Streaming
  <2>6. ExhaustionNeedsACut'
    BY <2>1 DEF ExhaustionNeedsACut
  <2> QED BY <2>3, <2>4, <2>5, <2>6
<1>9. ASSUME NEW c \in Conn, ResolveLease(c) PROVE IInv'
  <2>1. /\ leased' = leased \ {c} /\ resolved' = resolved \cup {c} /\ c \in leased
        /\ UNCHANGED <<conn, idle, idleFree, slots, slotsFree, cut, exhausted>>
    BY <1>9 DEF ResolveLease, permitVars
  <2> QED BY <2>1 DEF PermitTypes, IdleIsWaiting, SlotsMeanWork, LeasesAreCovered, ExhaustionNeedsACut
<1>10. ASSUME NEW c \in Conn, Ended(c) PROVE IInv'
  <2>1. /\ conn[c] = "ending" /\ conn' = [conn EXCEPT ![c] = "closed"]
        /\ UNCHANGED <<idle, idleFree, slots, slotsFree, engineVars>>
    BY <1>10 DEF Ended, goTo, permitVars
  <2>2. PermitTypes' /\ IdleIsWaiting'
    BY <2>1 DEF PermitTypes, ConnState, IdleIsWaiting
  <2>3. SlotsMeanWork'
    BY <2>1 DEF PermitTypes, SlotsMeanWork
  <2>4. LeasesAreCovered' /\ ExhaustionNeedsACut'
    BY <2>1 DEF PermitTypes, LeasesAreCovered, ExhaustionNeedsACut, Streaming, engineVars
  <2> QED BY <2>2, <2>3, <2>4
<1>11. CASE Age \/ Quiet \/ UNCHANGED vars
  <2>1. UNCHANGED <<conn, idle, idleFree, slots, slotsFree, leased, resolved, cut, exhausted>>
    BY <1>11 DEF Age, Quiet, vars, permitVars, engineVars
  <2> QED BY <2>1 DEF PermitTypes, IdleIsWaiting, SlotsMeanWork, LeasesAreCovered, ExhaustionNeedsACut
<1> QED
  BY <1>1, <1>2, <1>3, <1>4, <1>5, <1>6, <1>7, <1>8, <1>9, <1>10, <1>11 DEF Next

\* The invariant holds at the start.
LEMMA Start == Init => IInv
BY FS_EmptySet, CeilingAssumption
   DEF Init, IInv, PermitTypes, ConnState, IdleIsWaiting, SlotsMeanWork, LeasesAreCovered,
       ExhaustionNeedsACut

\* Every permit of both semaphores comes back on every path out of a handler, and a slot stands
\* for a stream that is being served (server.rs handle_socket), for any number of connections
\* and all ceilings.
THEOREM PermitsCorrect == Spec => []SlotsMeanWork
<1>1. IInv => SlotsMeanWork
  BY DEF IInv
<1> QED BY <1>1, Start, Step, PTL DEF Spec

\* With equal ceilings the pool never refuses a lease to an admitted stream unless a stream was
\* cut short before (pool.rs MAX_STREAM_CONNECTIONS), for any number of connections.
THEOREM ExhaustionCorrect == Spec => []ExhaustionNeedsACut
<1>1. IInv => ExhaustionNeedsACut
  BY DEF IInv
<1> QED BY <1>1, Start, Step, PTL DEF Spec

-----------------------------------------------------------------------------
(* The registry.  Records age and are evicted in the order they were made,  *)
(* so the ones kept are always the last part of the history; and only the   *)
(* stream of a closed connection has a record, so no eviction takes a live  *)
(* stream's entry.                                                          *)

RegistryTypes ==
    /\ ended \in Seq(Conn) /\ aged \in Nat
    /\ \A i \in 1..Len(ended) : conn[ended[i]] = "closed"

\* The inductive invariant of the registry.
RInv == RegistryTypes /\ RegistryIsExact

\* The number of positions from a to b: what a count of recorded ends is compared with.
LEMMA IntervalSize ==
  ASSUME NEW n \in Nat, NEW i \in Int, i <= n + 1
  PROVE  Cardinality(i..n) = n - i + 1
<1>1. n \in Int
  OBVIOUS
<1>2. Cardinality(i..n) = IF i > n THEN 0 ELSE n - i + 1
  BY <1>1, FS_Interval
<1> QED BY <1>2

\* Pruning leaves the last part of the records, no longer than the ceiling.
LEMMA PruneInterval ==
  ASSUME NEW n \in Nat, NEW k \in 0..n, aged \in Nat
  PROVE  \E m \in 0..n : /\ keptTerminals((k + 1)..n) = (m + 1)..n
                         /\ Cardinality((m + 1)..n) <= MaxRecords
                         /\ (m + 1)..n \subseteq (k + 1)..n
<1> DEFINE y == IF aged >= n THEN n ELSE IF aged > k THEN aged ELSE k
           young == {i \in (k + 1)..n : ~isAged(i)}
           m == IF n - y > MaxRecords THEN n - MaxRecords ELSE y
<1>0. MaxRecords \in Nat
  BY CeilingAssumption
<1>1. young = (y + 1)..n /\ y \in 0..n /\ y >= k
  BY DEF isAged
<1>2. m \in 0..n /\ m >= y /\ n - m <= MaxRecords
  BY <1>0, <1>1
<1>3. \A i \in young : Cardinality({j \in young : j >= i}) = n - i + 1
  <2> SUFFICES ASSUME NEW i \in young PROVE Cardinality({j \in young : j >= i}) = n - i + 1
    OBVIOUS
  <2>1. {j \in young : j >= i} = i..n /\ i \in Int /\ i <= n
    BY <1>1
  <2>2. Cardinality(i..n) = n - i + 1
    BY <2>1, IntervalSize
  <2>3. Cardinality({j \in young : j >= i}) = Cardinality(i..n)
    BY <2>1
  <2> QED BY <2>2, <2>3
<1>4. keptTerminals((k + 1)..n) = {i \in young : n - i + 1 <= MaxRecords}
  BY <1>3 DEF keptTerminals
<1>5. {i \in young : n - i + 1 <= MaxRecords} = (m + 1)..n
  <2>1. CASE n - y > MaxRecords
    BY <1>0, <1>1, <2>1
  <2>2. CASE ~(n - y > MaxRecords)
    BY <1>0, <1>1, <2>2
  <2> QED BY <2>1, <2>2
<1>6. Cardinality((m + 1)..n) = n - (m + 1) + 1
  <2>1. m + 1 \in Int /\ m + 1 <= n + 1
    BY <1>2
  <2> HIDE DEF m
  <2> QED BY <2>1, IntervalSize
<1>7. Cardinality((m + 1)..n) <= MaxRecords
  <2> HIDE DEF m
  <2> QED BY <1>0, <1>2, <1>6
<1>8. (m + 1)..n \subseteq (k + 1)..n
  BY <1>1, <1>2
<1> QED BY <1>2, <1>4, <1>5, <1>7, <1>8

\* Pruning takes the entries of the records it takes, and no others.
LEMMA PruneKeeps ==
  ASSUME ended' \in Seq(Conn), aged \in Nat, IsInjective(ended'),
         \A i \in 1..Len(ended') : conn'[ended'[i]] = "closed",
         NEW k \in 0..Len(ended'), NEW entries,
         \A c \in Conn :
            entries[c] = IF conn'[c] \in Streaming \/ c \in {ended'[i] : i \in (k + 1)..Len(ended')}
                         THEN 1 ELSE 0,
         prune(entries, (k + 1)..Len(ended'), ended')
  PROVE  RegistryIsExact'
<1> DEFINE n == Len(ended')
           records == (k + 1)..n
           kept == keptTerminals(records)
           evicted == {ended'[i] : i \in records \ kept}
<1>1. n \in Nat /\ DOMAIN ended' = 1..n
  BY LenProperties
<1>2. PICK m \in 0..n : /\ kept = (m + 1)..n /\ Cardinality((m + 1)..n) <= MaxRecords
                        /\ (m + 1)..n \subseteq records
  BY <1>1, PruneInterval
<1>3. /\ terminals' = kept
      /\ streams' = [c \in Conn |-> IF c \in evicted THEN 0 ELSE entries[c]]
  BY DEF prune
<1>4. records \subseteq 1..n
  BY <1>1
<1> HIDE DEF kept, records, n
<1>5. recorded' = {ended'[i] : i \in kept}
  BY <1>3 DEF recorded
<1>6. ASSUME NEW c \in Conn
      PROVE  (IF c \in evicted THEN 0 ELSE entries[c])
                = IF conn'[c] \in Streaming \/ c \in recorded' THEN 1 ELSE 0
  <2>1. CASE c \in evicted
    <3>1. PICK i \in records \ kept : c = ended'[i]
      BY <2>1
    <3>2. conn'[c] \notin Streaming
      BY <3>1, <1>4 DEF Streaming, n
    <3>3. c \notin recorded'
      <4>1. SUFFICES ASSUME NEW j \in kept, c = ended'[j] PROVE FALSE
        BY <1>5
      <4>2. j \in records
        BY <1>2
      <4>3. j = i
        BY <1>1, <1>4, <3>1, <4>1, <4>2 DEF IsInjective
      <4> QED BY <3>1, <4>3
    <3> QED BY <2>1, <3>2, <3>3
  <2>2. CASE c \notin evicted
    <3>1. c \in {ended'[i] : i \in records} <=> c \in recorded'
      BY <1>2, <1>5, <2>2
    <3> QED BY <2>2, <3>1 DEF records, n
  <2> QED BY <2>1, <2>2
<1>7. streams' = [c \in Conn |-> IF conn'[c] \in Streaming \/ c \in recorded' THEN 1 ELSE 0]
  BY <1>3, <1>6
<1> QED BY <1>1, <1>2, <1>3, <1>7 DEF RegistryIsExact, n

\* A step that leaves the registry alone and neither starts nor ends a stream.
LEMMA RegistryUntouched ==
  ASSUME RInv, UNCHANGED <<streams, terminals, ended>>, aged' \in Nat,
         \A c \in Conn : /\ conn'[c] \in Streaming <=> conn[c] \in Streaming
                         /\ conn[c] = "closed" => conn'[c] = "closed"
  PROVE  RInv'
<1>1. recorded' = recorded
  BY DEF recorded
<1>2. RegistryTypes'
  <2>1. \A i \in 1..Len(ended) : ended[i] \in Conn
    BY DEF RInv, RegistryTypes
  <2> QED BY <2>1 DEF RInv, RegistryTypes
<1>3. [c \in Conn |-> IF conn'[c] \in Streaming \/ c \in recorded' THEN 1 ELSE 0]
        = [c \in Conn |-> IF conn[c] \in Streaming \/ c \in recorded THEN 1 ELSE 0]
  BY <1>1
<1>4. RegistryIsExact'
  BY <1>1, <1>3 DEF RInv, RegistryIsExact
<1> QED BY <1>2, <1>4 DEF RInv

\* Every step keeps the registry exact.
LEMMA RegistryStep == IInv /\ RInv /\ [Next]_vars => RInv'
<1> SUFFICES ASSUME IInv, RInv, [Next]_vars PROVE RInv'
  OBVIOUS
<1>0. conn \in [Conn -> ConnState] /\ aged \in Nat /\ ended \in Seq(Conn) /\ Len(ended) \in Nat
  BY LenProperties DEF IInv, PermitTypes, RInv, RegistryTypes
<1>1. ASSUME NEW c \in Conn,
             \/ Connect(c) \/ ReadStart(c) \/ PeerLeft(c) \/ NotStarted(c) \/ Admit(c)
             \/ RefuseAdmission(c) \/ CreateRefused(c) \/ Returned(c)
      PROVE  RInv'
  <2>1. /\ conn[c] \notin Streaming \cup {"closed"}
        /\ \E place \in ConnState \ Streaming : conn' = [conn EXCEPT ![c] = place]
    BY <1>1 DEF Connect, ReadStart, PeerLeft, NotStarted, Admit, RefuseAdmission, CreateRefused,
                Returned, goTo, ConnState, Streaming
  <2>2. UNCHANGED registryVars
    BY <1>1 DEF Connect, ReadStart, PeerLeft, NotStarted, Admit, RefuseAdmission, CreateRefused, Returned
  <2> QED BY <1>0, <2>1, <2>2, RegistryUntouched DEF registryVars
<1>2. ASSUME NEW c \in Conn, SpawnPump(c) \/ SpawnPumpFails(c) \/ DriveEnds(c) \/ DriveCut(c)
      PROVE  RInv'
  <2>1. /\ conn[c] \in Streaming
        /\ \E place \in Streaming : conn' = [conn EXCEPT ![c] = place]
        /\ UNCHANGED registryVars
    BY <1>2 DEF SpawnPump, SpawnPumpFails, DriveEnds, DriveCut, SourceEnded, goTo, Streaming
  <2> QED BY <1>0, <2>1, RegistryUntouched DEF registryVars, Streaming
<1>3. ASSUME NEW c \in Conn, ResolveLease(c) PROVE RInv'
  BY <1>0, <1>3, RegistryUntouched DEF ResolveLease, registryVars
<1>4. CASE Age \/ Quiet \/ UNCHANGED vars
  BY <1>0, <1>4, RegistryUntouched DEF Age, Quiet, vars, registryVars
<1>5. ASSUME NEW c \in Conn, Create(c) PROVE RInv'
  <2>1. /\ conn[c] = "creating" /\ conn' = [conn EXCEPT ![c] = "spawning"]
        /\ ended' = ended /\ aged' = aged
        /\ prune([streams EXCEPT ![c] = @ + 1], terminals, ended)
    BY <1>5 DEF Create, goTo
  <2>2. PICK k \in 0..Len(ended) : terminals = (k + 1)..Len(ended)
    BY DEF RInv, RegistryIsExact
  <2>3. \A i \in 1..Len(ended) : ended[i] \in Conn /\ conn[ended[i]] = "closed" /\ ended[i] # c
    BY <2>1 DEF RInv, RegistryTypes
  <2>4. RegistryTypes'
    BY <1>0, <2>1, <2>3 DEF RegistryTypes
  <2>5. c \notin recorded /\ terminals \subseteq 1..Len(ended)
    BY <1>0, <2>2, <2>3 DEF recorded
  <2>6. streams = [x \in Conn |-> IF conn[x] \in Streaming \/ x \in recorded THEN 1 ELSE 0]
    BY DEF RInv, RegistryIsExact
  <2>7. ASSUME NEW x \in Conn
        PROVE  [streams EXCEPT ![c] = @ + 1][x]
                 = IF conn'[x] \in Streaming \/ x \in recorded THEN 1 ELSE 0
    <3>1. CASE x = c
      BY <1>0, <2>1, <2>5, <2>6, <3>1 DEF Streaming
    <3>2. CASE x # c
      BY <1>0, <2>1, <2>6, <3>2
    <3> QED BY <3>1, <3>2
  <2>8. RegistryIsExact'
    <3>1. recorded = {ended'[i] : i \in (k + 1)..Len(ended')}
      BY <2>1, <2>2 DEF recorded
    <3>2. IsInjective(ended')
      BY <2>1 DEF RInv, RegistryIsExact
    <3>3. \A i \in 1..Len(ended') : conn'[ended'[i]] = "closed"
      BY <1>0, <2>1, <2>3
    <3>4. ended' \in Seq(Conn) /\ aged \in Nat /\ k \in 0..Len(ended')
      BY <1>0, <2>1, <2>2
    <3>5. prune([streams EXCEPT ![c] = @ + 1], (k + 1)..Len(ended'), ended')
      BY <2>1, <2>2
    <3> DEFINE entries == [streams EXCEPT ![c] = @ + 1]
    <3>6. \A x \in Conn :
            entries[x] = IF conn'[x] \in Streaming \/ x \in {ended'[i] : i \in (k + 1)..Len(ended')} THEN 1 ELSE 0
      BY <2>7, <3>1
    <3>7. prune(entries, (k + 1)..Len(ended'), ended')
      BY <3>5
    <3> HIDE DEF entries
    <3> QED BY <3>2, <3>3, <3>4, <3>6, <3>7, PruneKeeps, Zenon
  <2> QED BY <2>4, <2>8 DEF RInv
<1>6. ASSUME NEW c \in Conn, Ended(c) PROVE RInv'
  <2>1. /\ conn[c] = "ending" /\ conn' = [conn EXCEPT ![c] = "closed"]
        /\ ended' = Append(ended, c) /\ aged' = aged
        /\ prune(streams, terminals \cup {Len(ended) + 1}, ended')
    BY <1>6 DEF Ended, goTo, recordTerminal
  <2>2. PICK k \in 0..Len(ended) : terminals = (k + 1)..Len(ended)
    BY DEF RInv, RegistryIsExact
  <2>3. \A i \in 1..Len(ended) : ended[i] \in Conn /\ conn[ended[i]] = "closed" /\ ended[i] # c
    BY <2>1 DEF RInv, RegistryTypes
  <2>4. /\ ended' \in Seq(Conn) /\ Len(ended') = Len(ended) + 1 /\ DOMAIN ended' = 1..Len(ended')
        /\ \A i \in 1..Len(ended) : ended'[i] = ended[i]
        /\ ended'[Len(ended')] = c
    BY <1>0, <2>1
  <2>5. \A i \in 1..Len(ended') : conn'[ended'[i]] = "closed"
    BY <1>0, <2>1, <2>3, <2>4
  <2>6. IsInjective(ended')
    <3>1. \A i, j \in 1..Len(ended) : ended[i] = ended[j] => i = j
      BY <1>0 DEF RInv, RegistryIsExact, IsInjective
    <3>2. SUFFICES ASSUME NEW i \in 1..Len(ended'), NEW j \in 1..Len(ended'), ended'[i] = ended'[j]
                   PROVE  i = j
      BY <2>4 DEF IsInjective
    <3>3. CASE i \in 1..Len(ended) /\ j \in 1..Len(ended)
      BY <2>4, <3>1, <3>2, <3>3
    <3>4. CASE i \in 1..Len(ended) /\ j = Len(ended')
      BY <2>3, <2>4, <3>2, <3>4
    <3>5. CASE i = Len(ended') /\ j \in 1..Len(ended)
      BY <2>3, <2>4, <3>2, <3>5
    <3> QED BY <1>0, <2>4, <3>3, <3>4, <3>5
  <2>7. k \in 0..Len(ended') /\ terminals \cup {Len(ended) + 1} = (k + 1)..Len(ended')
    BY <1>0, <2>2, <2>4
  <2>8. {ended'[i] : i \in (k + 1)..Len(ended')} = recorded \cup {c}
    <3>1. terminals \subseteq 1..Len(ended)
      BY <1>0, <2>2
    <3>2. {ended'[i] : i \in terminals} = recorded
      BY <2>4, <3>1 DEF recorded
    <3>3. {ended'[i] : i \in terminals \cup {Len(ended) + 1}}
            = {ended'[i] : i \in terminals} \cup {ended'[Len(ended) + 1]}
      OBVIOUS
    <3> QED BY <2>4, <2>7, <3>2, <3>3
  <2>9. ASSUME NEW x \in Conn
        PROVE  streams[x] = IF conn'[x] \in Streaming \/ x \in recorded \cup {c} THEN 1 ELSE 0
    <3>1. streams[x] = IF conn[x] \in Streaming \/ x \in recorded THEN 1 ELSE 0
      BY DEF RInv, RegistryIsExact
    <3>2. CASE x = c
      BY <2>1, <3>1, <3>2 DEF Streaming
    <3>3. CASE x # c
      BY <1>0, <2>1, <3>1, <3>3
    <3> QED BY <3>2, <3>3
  <2>10. RegistryIsExact'
    <3>1. prune(streams, (k + 1)..Len(ended'), ended')
      BY <2>1, <2>7
    <3>2. \A x \in Conn :
             streams[x] = IF conn'[x] \in Streaming \/ x \in {ended'[i] : i \in (k + 1)..Len(ended')}
                          THEN 1 ELSE 0
      BY <2>8, <2>9
    <3>3. ended' \in Seq(Conn) /\ aged \in Nat /\ k \in 0..Len(ended')
      BY <1>0, <2>4, <2>7
    <3> QED BY <2>5, <2>6, <3>1, <3>2, <3>3, PruneKeeps, Zenon
  <2> QED BY <1>0, <2>1, <2>4, <2>5, <2>10 DEF RInv, RegistryTypes
<1> QED BY <1>1, <1>2, <1>3, <1>4, <1>5, <1>6 DEF Next

LEMMA RegistryStart == Init => RInv
<1> SUFFICES ASSUME Init PROVE RInv
  OBVIOUS
<1>1. ended = <<>> /\ Len(ended) = 0 /\ ended \in Seq(Conn) /\ terminals = {} /\ recorded = {}
  BY DEF Init, recorded
<1>2. terminals = (0 + 1)..Len(ended) /\ Cardinality(terminals) = 0
  BY <1>1, FS_EmptySet
<1>3. IsInjective(ended)
  BY <1>1 DEF IsInjective
<1>4. \E k \in 0..Len(ended) : terminals = (k + 1)..Len(ended)
  BY <1>1, <1>2
<1>5. streams = [c \in Conn |-> IF conn[c] \in Streaming \/ c \in recorded THEN 1 ELSE 0]
  BY <1>1 DEF Init, Streaming
<1> QED
  BY <1>1, <1>2, <1>3, <1>4, <1>5, CeilingAssumption DEF Init, RInv, RegistryTypes, RegistryIsExact

\* Whatever way a handler takes, its permits come back, and the registry holds exactly the live
\* streams and the latest finished ones, each once (server.rs handle_socket, prune_locked), for
\* any number of connections, all ceilings, and records aging at any time.
THEOREM HandlersCorrect == Spec => []HandlersGiveBack
<1>1. IInv /\ RInv => HandlersGiveBack
  BY DEF IInv, RInv, HandlersGiveBack
<1> QED BY <1>1, Start, Step, RegistryStart, RegistryStep, PTL DEF Spec
=============================================================================
