------------------------ MODULE ConnectionPoolProofs ------------------------
(***************************************************************************)
(* What the connection pool guarantees for every number of threads, every  *)
(* choice of the class ceilings and every max_idle.                        *)
(*                                                                         *)
(* PoolAccounting is not inductive alone: that a slot is counted once needs*)
(* to know which holders have one (Ownership), and that a new connection's *)
(* id is nobody else's needs the counter to be ahead of every id in use    *)
(* (IdsAreFresh).                                                          *)
(***************************************************************************)
EXTENDS ConnectionPool, FiniteSetTheorems, SequenceTheorems, TLAPS

Ownership == \A h \in Holder : /\ pc[h] \in SlotState <=> class[h] # "none"
                               /\ pc[h] = "out" <=> physical[h] = 0

IdsAreFresh == /\ \A h \in Holder : physical[h] < nextPhysicalId
               /\ \A i \in 1 .. Len(idle) : idle[i] < nextPhysicalId

\* The inductive invariant.
IInv == /\ TypeOK
        /\ Ownership
        /\ IdsAreFresh
        /\ PoolAccounting
        /\ CeilingsHold
        /\ ExclusiveLease
        /\ GenerationNamesOneUse
        /\ ClassesAreIsolated

-----------------------------------------------------------------------------
\* A ceiling of a class is a natural number, and they sum to the physical one.
LEMMA CapacityType ==
  /\ \A c \in LeaseClass : capacity(c) \in Nat
  /\ MaxPhysical \in Nat
  /\ MaxPhysical = capacity("stream") + capacity("maintenance") + capacity("admission")
BY CapacityAssumption DEF capacity, LeaseClass, MaxPhysical

\* The holders counted for a class are finitely many.
LEMMA CountedFinite ==
  \A c : IsFiniteSet(Counted(c)) /\ Cardinality(Counted(c)) \in Nat
BY HolderAssumption, FS_Subset, FS_CardinalityType DEF Counted

\* A holder that takes a slot of class c adds itself to c and to no other class.
LEMMA SlotTaken ==
  ASSUME NEW h \in Holder, NEW c \in LeaseClass, TypeOK, Ownership, PoolAccounting,
         pc[h] = "out",
         NEW q \in SlotState,
         pc' = [pc EXCEPT ![h] = q],
         class' = [class EXCEPT ![h] = c],
         active' = [active EXCEPT ![c] = @ + 1]
  PROVE  \A d \in LeaseClass : active'[d] = Cardinality(Counted(d)')
<1> TAKE d \in LeaseClass
<1>1. CASE d = c
  <2>1. Counted(d)' = Counted(d) \cup {h}
    BY <1>1 DEF TypeOK, Counted, SlotState
  <2>2. h \notin Counted(d)
    BY DEF Counted, SlotState
  <2>3. Cardinality(Counted(d)') = Cardinality(Counted(d)) + 1
    BY <2>1, <2>2, CountedFinite, FS_AddElement
  <2> QED BY <1>1, <2>3 DEF PoolAccounting, TypeOK
<1>2. CASE d # c
  <2>1. Counted(d)' = Counted(d)
    BY <1>2 DEF TypeOK, Ownership, Counted, SlotState
  <2> QED BY <1>2, <2>1 DEF PoolAccounting, TypeOK
<1> QED BY <1>1, <1>2

\* A holder that gives its slot back leaves its class and no other one, and the
\* class counted at least that slot.
LEMMA SlotFreed ==
  ASSUME NEW h \in Holder, TypeOK, Ownership, PoolAccounting,
         pc[h] \in SlotState,
         NEW q \in {"out", "closing"},
         pc' = [pc EXCEPT ![h] = q],
         class' = [class EXCEPT ![h] = "none"],
         active' = [active EXCEPT ![class[h]] = @ - 1]
  PROVE  /\ \A d \in LeaseClass : active'[d] = Cardinality(Counted(d)')
         /\ active[class[h]] >= 1
         /\ class[h] \in LeaseClass
<1>1. class[h] \in LeaseClass
  BY DEF TypeOK, Ownership
<1>2. \A d \in LeaseClass : active'[d] = Cardinality(Counted(d)')
  <2> TAKE d \in LeaseClass
  <2>1. CASE d = class[h]
    <3>1. Counted(d)' = Counted(d) \ {h}
      BY <2>1, <1>1 DEF TypeOK, Counted, SlotState, LeaseClass
    <3>2. h \in Counted(d)
      BY <2>1 DEF Counted
    <3>3. Cardinality(Counted(d)') = Cardinality(Counted(d)) - 1
      BY <3>1, <3>2, CountedFinite, FS_RemoveElement
    <3> QED BY <2>1, <3>3, <1>1 DEF PoolAccounting, TypeOK
  <2>2. CASE d # class[h]
    <3>1. Counted(d)' = Counted(d)
      BY <2>2, <1>1 DEF TypeOK, Counted, SlotState, LeaseClass
    <3> QED BY <2>2, <3>1, <1>1 DEF PoolAccounting, TypeOK
  <2> QED BY <2>1, <2>2
<1>3. active[class[h]] >= 1
  <2>1. h \in Counted(class[h])
    BY DEF Counted
  <2>2. Cardinality(Counted(class[h])) # 0
    BY <2>1, CountedFinite, FS_EmptySet
  <2> QED BY <2>2, <1>1, CountedFinite DEF PoolAccounting, TypeOK
<1> QED BY <1>1, <1>2, <1>3

\* A step that moves a holder between two states with a slot, or between two
\* without one, changes no count.
LEMMA SlotKept ==
  ASSUME NEW h \in Holder, TypeOK, PoolAccounting,
         NEW q,
         pc[h] \in SlotState <=> q \in SlotState,
         pc' = [pc EXCEPT ![h] = q],
         UNCHANGED <<class, active>>
  PROVE  \A d \in LeaseClass : active'[d] = Cardinality(Counted(d)')
<1> TAKE d \in LeaseClass
<1>1. Counted(d)' = Counted(d)
  BY DEF TypeOK, Counted
<1> QED BY <1>1 DEF PoolAccounting, TypeOK

\* Counting one class up or down moves the sum by one.
LEMMA SumUp ==
  ASSUME NEW c \in LeaseClass, active \in [LeaseClass -> Nat],
         active' = [active EXCEPT ![c] = @ + 1]
  PROVE  /\ ActiveSum \in Nat
         /\ ActiveSum' = ActiveSum + 1
<1>1. c = "stream" \/ c = "maintenance" \/ c = "admission"
  BY DEF LeaseClass
<1> QED BY <1>1 DEF LeaseClass, ActiveSum

LEMMA SumDown ==
  ASSUME NEW c \in LeaseClass, active \in [LeaseClass -> Nat], active[c] >= 1,
         active' = [active EXCEPT ![c] = @ - 1]
  PROVE  /\ ActiveSum \in Nat
         /\ ActiveSum >= 1
         /\ ActiveSum' = ActiveSum - 1
         /\ active' \in [LeaseClass -> Nat]
<1>1. c = "stream" \/ c = "maintenance" \/ c = "admission"
  BY DEF LeaseClass
<1> QED BY <1>1 DEF LeaseClass, ActiveSum

-----------------------------------------------------------------------------
\* The pool's initial state satisfies the inductive invariant.
LEMMA InitInv == Init => IInv
<1> SUFFICES ASSUME Init PROVE IInv
  OBVIOUS
<1>1. TypeOK
  BY BoundsAssumption DEF Init, TypeOK, PhysicalId, LeaseClass, HolderState, Refusal
<1>2. Ownership /\ IdsAreFresh /\ ExclusiveLease /\ GenerationNamesOneUse
  BY DEF Init, Ownership, IdsAreFresh, ExclusiveLease, GenerationNamesOneUse, SlotState
<1>3. PoolAccounting
  <2>1. \A c \in LeaseClass : Counted(c) = {}
    BY DEF Init, Counted, SlotState
  <2>2. \A c \in LeaseClass : Cardinality(Counted(c)) = 0
    BY <2>1, FS_EmptySet
  <2>3. Len(idle) = 0
    BY DEF Init
  <2> QED BY <2>2, <2>3 DEF Init, PoolAccounting, ActiveSum, LeaseClass
<1>4. CeilingsHold /\ ClassesAreIsolated
  BY CapacityType DEF Init, CeilingsHold, ClassesAreIsolated, LeaseClass
<1> QED BY <1>1, <1>2, <1>3, <1>4 DEF IInv

\* A refusal changes nothing of the pool, and it is never the physical one: with
\* no idle connection, live is the three class counts, one of which is below
\* its ceiling.
LEMMA RefuseInv ==
  ASSUME NEW h \in Holder, NEW c \in LeaseClass, IInv, Refuse(h, c)
  PROVE  IInv'
<1> USE DEF IInv, Refuse, poolVars
<1>1. ~NoConnectionLeft \/ AtCapacity(c)
  <2> SUFFICES ASSUME NoConnectionLeft, ~AtCapacity(c) PROVE FALSE
    OBVIOUS
  <2>1. live = active["stream"] + active["maintenance"] + active["admission"]
    BY DEF NoConnectionLeft, PoolAccounting, ActiveSum, TypeOK, LeaseClass
  <2>2. active[c] < capacity(c)
    BY CapacityType DEF AtCapacity, TypeOK
  <2>3. live < MaxPhysical
    BY <2>1, <2>2, CapacityType DEF CeilingsHold, TypeOK, LeaseClass
  <2> QED BY <2>3, CapacityType DEF NoConnectionLeft, TypeOK
<1>2. refusal' = [refusal EXCEPT ![h] = "class"]
  BY <1>1
<1>3. TypeOK' /\ ClassesAreIsolated'
  BY <1>2 DEF TypeOK, ClassesAreIsolated, Refusal
<1>4. \A d \in LeaseClass : Counted(d)' = Counted(d)
  BY DEF Counted
<1>5. PoolAccounting' /\ CeilingsHold'
  BY <1>4 DEF PoolAccounting, ActiveSum, CeilingsHold
<1>6. Ownership' /\ IdsAreFresh' /\ ExclusiveLease' /\ GenerationNamesOneUse'
  BY DEF Ownership, IdsAreFresh, ExclusiveLease, GenerationNamesOneUse
<1> QED BY <1>3, <1>5, <1>6

\* Popping the last idle connection: what is left of idle, and the connection
\* taken is one nobody owns.
LEMMA PopFacts ==
  ASSUME IInv, idle # <<>>
  PROVE  /\ Len(idle) \in Nat \ {0}
         /\ idle[Len(idle)] \in PhysicalId
         /\ SubSeq(idle, 1, Len(idle) - 1) \in Seq(PhysicalId)
         /\ Len(SubSeq(idle, 1, Len(idle) - 1)) = Len(idle) - 1
         /\ \A i \in 1 .. Len(idle) - 1 :
              /\ SubSeq(idle, 1, Len(idle) - 1)[i] = idle[i]
              /\ idle[i] # idle[Len(idle)]
         /\ \A g \in Holder : physical[g] # idle[Len(idle)]
<1>1. Len(idle) \in Nat \ {0}
  BY EmptySeq DEF IInv, TypeOK
<1>2. \A i \in 1 .. Len(idle) : idle[i] \in PhysicalId
  BY ElementOfSeq DEF IInv, TypeOK
<1>3. /\ SubSeq(idle, 1, Len(idle) - 1) \in Seq(PhysicalId)
      /\ Len(SubSeq(idle, 1, Len(idle) - 1)) = Len(idle) - 1
      /\ \A i \in 1 .. Len(idle) - 1 : SubSeq(idle, 1, Len(idle) - 1)[i] = idle[i]
  <2>1. \A i \in 1 .. Len(idle) - 1 : idle[i] \in PhysicalId
    BY <1>1, <1>2
  <2>2. /\ SubSeq(idle, 1, Len(idle) - 1) \in Seq(PhysicalId)
        /\ Len(SubSeq(idle, 1, Len(idle) - 1))
             = IF 1 <= Len(idle) - 1 THEN Len(idle) - 1 - 1 + 1 ELSE 0
        /\ \A i \in 1 .. Len(idle) - 1 - 1 + 1 :
             SubSeq(idle, 1, Len(idle) - 1)[i] = idle[1 + i - 1]
    BY <1>1, <2>1, SubSeqProperties
  <2>3. Len(idle) - 1 - 1 + 1 = Len(idle) - 1 /\ \A i \in Nat : 1 + i - 1 = i
    BY <1>1
  <2>4. Len(SubSeq(idle, 1, Len(idle) - 1)) = Len(idle) - 1
    <3>1. \A n \in Nat \ {0} : (IF 1 <= n - 1 THEN n - 1 - 1 + 1 ELSE 0) = n - 1
      OBVIOUS
    <3> QED BY <1>1, <2>2, <3>1, Zenon
  <2>5. \A i \in 1 .. Len(idle) - 1 : SubSeq(idle, 1, Len(idle) - 1)[i] = idle[i]
    BY <1>1, <2>2, <2>3
  <2> QED BY <2>2, <2>4, <2>5
<1>4. \A i \in 1 .. Len(idle) - 1 : idle[i] # idle[Len(idle)]
  BY <1>1 DEF IInv, ExclusiveLease
<1>5. \A g \in Holder : physical[g] # idle[Len(idle)]
  BY <1>1 DEF IInv, ExclusiveLease
<1> QED BY <1>1, <1>2, <1>3, <1>4, <1>5

\* Taking an idle connection keeps the invariant.
LEMMA TakeExistingInv ==
  ASSUME NEW h \in Holder, NEW c \in LeaseClass, IInv, TakeExisting(h, c)
  PROVE  IInv'
<1> USE DEF IInv
<1> DEFINE p == idle[Len(idle)]
<1>1. /\ Len(idle) \in Nat \ {0}
      /\ p \in PhysicalId
      /\ idle' \in Seq(PhysicalId)
      /\ Len(idle') = Len(idle) - 1
      /\ \A i \in 1 .. Len(idle) - 1 : idle'[i] = idle[i] /\ idle[i] # p
      /\ \A g \in Holder : physical[g] # p
  BY PopFacts DEF TakeExisting
<1>a. /\ pc[h] = "out"
      /\ active[c] < capacity(c)
      /\ active' = [active EXCEPT ![c] = @ + 1]
      /\ leases' = [leases EXCEPT ![p] = @ + 1]
      /\ leasesIssued' = leasesIssued + 1
      /\ pc' = [pc EXCEPT ![h] = "leased"]
      /\ physical' = [physical EXCEPT ![h] = p]
      /\ generation' = [generation EXCEPT ![h] = leases[p] + 1]
      /\ class' = [class EXCEPT ![h] = c]
      /\ refusal' = [refusal EXCEPT ![h] = "none"]
      /\ UNCHANGED <<live, nextPhysicalId>>
  BY CapacityType DEF TakeExisting, Issue, AtCapacity, TypeOK
<1> HIDE DEF p
<1>2. TypeOK'
  BY <1>1, <1>a DEF TypeOK, HolderState, Refusal
<1>3. Ownership'
  BY <1>1, <1>a, BoundsAssumption DEF TypeOK, Ownership, SlotState, LeaseClass, PhysicalId
<1>4. IdsAreFresh'
  <2>1. p < nextPhysicalId
    BY <1>1 DEF IdsAreFresh, p
  <2>2. \A g \in Holder : physical'[g] < nextPhysicalId'
    BY <1>a, <2>1 DEF TypeOK, IdsAreFresh
  <2>3. \A i \in 1 .. Len(idle') : i \in 1 .. Len(idle) /\ idle'[i] = idle[i]
    BY <1>1
  <2>4. \A i \in 1 .. Len(idle') : idle'[i] < nextPhysicalId'
    BY <1>a, <2>3 DEF IdsAreFresh
  <2> QED BY <2>2, <2>4 DEF IdsAreFresh
<1>5. PoolAccounting'
  <2>1. \A d \in LeaseClass : active'[d] = Cardinality(Counted(d)')
    BY <1>a, SlotTaken DEF SlotState
  <2>2. ActiveSum \in Nat /\ ActiveSum' = ActiveSum + 1
    BY <1>a, SumUp DEF TypeOK
  <2>3. live' = Len(idle') + ActiveSum'
    BY <1>1, <1>a, <2>2 DEF PoolAccounting
  <2> QED BY <2>1, <2>3 DEF PoolAccounting
<1>6. CeilingsHold'
  BY <1>a, CapacityType DEF CeilingsHold, TypeOK
<1>7. ExclusiveLease'
  <2>1. \A i \in 1 .. Len(idle') : i \in 1 .. Len(idle) /\ idle'[i] = idle[i] /\ idle'[i] # p
    BY <1>1
  <2>2. \A f, g \in Holder : (physical'[f] = physical'[g] /\ physical'[f] # 0) => f = g
    BY <1>1, <1>a DEF ExclusiveLease, TypeOK
  <2>3. \A g \in Holder : \A i \in 1 .. Len(idle') : idle'[i] # physical'[g]
    BY <1>a, <2>1 DEF ExclusiveLease, TypeOK
  <2>4. \A i, j \in 1 .. Len(idle') : idle'[i] = idle'[j] => i = j
    BY <2>1 DEF ExclusiveLease
  <2> QED BY <2>2, <2>3, <2>4 DEF ExclusiveLease
<1>8. GenerationNamesOneUse'
  BY <1>1, <1>a DEF GenerationNamesOneUse, TypeOK
<1>9. ClassesAreIsolated'
  BY <1>a DEF ClassesAreIsolated, TypeOK
<1> QED BY <1>2, <1>3, <1>4, <1>5, <1>6, <1>7, <1>8, <1>9

\* Reserving a slot for a new connection keeps the invariant: the id is ahead of
\* every id in use.
LEMMA ReserveNewInv ==
  ASSUME NEW h \in Holder, NEW c \in LeaseClass, IInv, ReserveNew(h, c)
  PROVE  IInv'
<1> USE DEF IInv
<1>1. /\ pc[h] = "out"
      /\ nextPhysicalId \in PhysicalId
      /\ active[c] < capacity(c)
      /\ live < MaxPhysical
      /\ active' = [active EXCEPT ![c] = @ + 1]
      /\ live' = live + 1
      /\ nextPhysicalId' = nextPhysicalId + 1
      /\ pc' = [pc EXCEPT ![h] = "creating"]
      /\ class' = [class EXCEPT ![h] = c]
      /\ physical' = [physical EXCEPT ![h] = nextPhysicalId]
      /\ refusal' = [refusal EXCEPT ![h] = "none"]
      /\ UNCHANGED <<idle, leases, leasesIssued, generation>>
  BY CapacityType, BoundsAssumption
     DEF ReserveNew, AtCapacity, NoConnectionLeft, TypeOK, PhysicalId
<1>2. TypeOK'
  BY <1>1, BoundsAssumption DEF TypeOK, HolderState, Refusal, PhysicalId
<1>3. Ownership'
  BY <1>1, BoundsAssumption DEF TypeOK, Ownership, SlotState, LeaseClass, PhysicalId
<1>4. IdsAreFresh'
  <2>1. \A g \in Holder : physical[g] \in Nat
    BY BoundsAssumption DEF TypeOK, PhysicalId
  <2>2. \A i \in 1 .. Len(idle) : idle[i] \in Nat
    BY ElementOfSeq, BoundsAssumption DEF TypeOK, PhysicalId
  <2>3. nextPhysicalId \in Nat
    BY <1>1, BoundsAssumption DEF PhysicalId
  <2> QED BY <1>1, <2>1, <2>2, <2>3 DEF TypeOK, IdsAreFresh
<1>5. PoolAccounting'
  <2>1. \A d \in LeaseClass : active'[d] = Cardinality(Counted(d)')
    BY <1>1, SlotTaken DEF SlotState
  <2>2. ActiveSum \in Nat /\ ActiveSum' = ActiveSum + 1
    BY <1>1, SumUp DEF TypeOK
  <2>3. Len(idle) \in Nat /\ live = Len(idle) + ActiveSum
    BY LenProperties DEF PoolAccounting, TypeOK
  <2>4. live' = Len(idle') + ActiveSum'
    BY <1>1, <2>2, <2>3
  <2> QED BY <2>1, <2>4 DEF PoolAccounting
<1>6. CeilingsHold'
  BY <1>1, CapacityType DEF CeilingsHold, TypeOK
<1>7. ExclusiveLease'
  <2>1. \A g \in Holder : physical[g] # nextPhysicalId
    BY BoundsAssumption DEF IdsAreFresh, TypeOK, PhysicalId
  <2>2. \A i \in 1 .. Len(idle) : idle[i] # nextPhysicalId
    BY ElementOfSeq, BoundsAssumption DEF IdsAreFresh, TypeOK, PhysicalId
  <2> QED BY <1>1, <2>1, <2>2 DEF ExclusiveLease, TypeOK
<1>8. GenerationNamesOneUse' /\ ClassesAreIsolated'
  BY <1>1 DEF GenerationNamesOneUse, ClassesAreIsolated, TypeOK
<1> QED BY <1>2, <1>3, <1>4, <1>5, <1>6, <1>7, <1>8

\* A configured connection becomes a lease of the holder that created it.
LEMMA ConfigureOkInv ==
  ASSUME NEW h \in Holder, IInv, ConfigureOk(h)
  PROVE  IInv'
<1> USE DEF IInv, ConfigureOk, Issue
<1>1. physical[h] \in PhysicalId
  BY DEF Ownership, TypeOK
<1>2. TypeOK'
  BY <1>1 DEF TypeOK, HolderState
<1>3. physical' = physical
  BY DEF TypeOK
<1>4. Ownership' /\ IdsAreFresh' /\ ExclusiveLease'
  BY <1>3 DEF TypeOK, Ownership, SlotState, IdsAreFresh, ExclusiveLease
<1>5. \A d \in LeaseClass : active'[d] = Cardinality(Counted(d)')
  BY SlotKept DEF SlotState
<1>6. PoolAccounting' /\ CeilingsHold' /\ ClassesAreIsolated'
  BY <1>5 DEF PoolAccounting, ActiveSum, CeilingsHold, ClassesAreIsolated
<1>7. GenerationNamesOneUse'
  BY <1>1 DEF GenerationNamesOneUse, ExclusiveLease, TypeOK, Ownership, PhysicalId
<1> QED BY <1>2, <1>4, <1>6, <1>7

\* A connection that could not be configured gives both reservations back.
LEMMA ConfigureErrInv ==
  ASSUME NEW h \in Holder, IInv, ConfigureErr(h)
  PROVE  IInv'
<1> USE DEF IInv, ConfigureErr
<1>1. /\ \A d \in LeaseClass : active'[d] = Cardinality(Counted(d)')
      /\ active[class[h]] >= 1
      /\ class[h] \in LeaseClass
  BY SlotFreed DEF SlotState
<1>2. /\ ActiveSum \in Nat /\ ActiveSum >= 1 /\ ActiveSum' = ActiveSum - 1
      /\ active' \in [LeaseClass -> Nat]
  BY <1>1, SumDown DEF TypeOK
<1>3. Len(idle) \in Nat /\ live = Len(idle) + ActiveSum
  BY LenProperties DEF PoolAccounting, TypeOK
<1>4. TypeOK'
  BY <1>2, <1>3 DEF TypeOK, HolderState, Refusal
<1>5. Ownership' /\ GenerationNamesOneUse' /\ ClassesAreIsolated'
  BY DEF TypeOK, Ownership, SlotState, GenerationNamesOneUse, ClassesAreIsolated
<1>6. IdsAreFresh'
  BY BoundsAssumption DEF TypeOK, IdsAreFresh, PhysicalId
<1>7. PoolAccounting'
  <2>1. live' = Len(idle') + ActiveSum'
    BY <1>2, <1>3
  <2> QED BY <1>1, <2>1 DEF PoolAccounting
<1>8. CeilingsHold'
  BY <1>1, <1>2, <1>3, CapacityType DEF CeilingsHold, TypeOK
<1>9. ExclusiveLease'
  <2>1. \A i \in 1 .. Len(idle) : idle[i] # 0
    BY ElementOfSeq, BoundsAssumption DEF TypeOK, PhysicalId
  <2> QED BY <2>1 DEF ExclusiveLease, TypeOK
<1> QED BY <1>4, <1>5, <1>6, <1>7, <1>8, <1>9

\* Verification starts while the lease still owns its connection.
LEMMA BeginReleaseInv ==
  ASSUME NEW h \in Holder, IInv, BeginRelease(h)
  PROVE  IInv'
<1> USE DEF IInv, BeginRelease, poolVars
<1>1. TypeOK'
  BY DEF TypeOK, HolderState
<1>2. Ownership' /\ IdsAreFresh' /\ ExclusiveLease' /\ GenerationNamesOneUse'
  BY DEF TypeOK, Ownership, SlotState, IdsAreFresh, ExclusiveLease, GenerationNamesOneUse
<1>3. \A d \in LeaseClass : active'[d] = Cardinality(Counted(d)')
  BY SlotKept DEF SlotState
<1>4. PoolAccounting' /\ CeilingsHold' /\ ClassesAreIsolated'
  BY <1>3 DEF PoolAccounting, ActiveSum, CeilingsHold, ClassesAreIsolated
<1> QED BY <1>1, <1>2, <1>4

\* What giving a slot back does to the counts, whichever path it is on.
LEMMA FreedCounts ==
  ASSUME NEW h \in Holder, IInv,
         pc[h] \in SlotState,
         NEW q \in {"out", "closing"},
         pc' = [pc EXCEPT ![h] = q],
         class' = [class EXCEPT ![h] = "none"],
         active' = [active EXCEPT ![class[h]] = @ - 1]
  PROVE  /\ \A d \in LeaseClass : active'[d] = Cardinality(Counted(d)')
         /\ active' \in [LeaseClass -> Nat]
         /\ \A d \in LeaseClass : active'[d] <= capacity(d)
         /\ Len(idle) \in Nat
         /\ live >= 1
         /\ ActiveSum' \in Nat
         /\ live - 1 = Len(idle) + ActiveSum'
<1> USE DEF IInv
<1>1. /\ \A d \in LeaseClass : active'[d] = Cardinality(Counted(d)')
      /\ active[class[h]] >= 1
      /\ class[h] \in LeaseClass
  BY SlotFreed
<1>2. /\ ActiveSum \in Nat /\ ActiveSum >= 1 /\ ActiveSum' = ActiveSum - 1
      /\ active' \in [LeaseClass -> Nat]
  BY <1>1, SumDown DEF TypeOK
<1>3. Len(idle) \in Nat /\ live = Len(idle) + ActiveSum
  BY LenProperties DEF PoolAccounting, TypeOK
<1>4. \A d \in LeaseClass : active'[d] <= capacity(d)
  BY <1>1, <1>2, CapacityType DEF CeilingsHold, TypeOK
<1>5. live >= 1 /\ ActiveSum' \in Nat /\ live - 1 = Len(idle) + ActiveSum'
  BY <1>2, <1>3
<1> QED BY <1>1, <1>2, <1>3, <1>4, <1>5

\* Dropping a lease gives its slot back exactly once, and the connection stays
\* its holder's until it is closed.
LEMMA DiscardInv ==
  ASSUME NEW h \in Holder, IInv, Discard(h)
  PROVE  IInv'
<1> USE DEF IInv, Discard
<1>1. /\ \A d \in LeaseClass : active'[d] = Cardinality(Counted(d)')
      /\ active' \in [LeaseClass -> Nat]
      /\ \A d \in LeaseClass : active'[d] <= capacity(d)
      /\ live >= 1
      /\ live - 1 = Len(idle) + ActiveSum'
  BY FreedCounts DEF SlotState
<1>2. TypeOK'
  BY <1>1 DEF TypeOK, HolderState
<1>3. Ownership' /\ IdsAreFresh' /\ ExclusiveLease' /\ GenerationNamesOneUse'
  BY DEF TypeOK, Ownership, SlotState, IdsAreFresh, ExclusiveLease, GenerationNamesOneUse
<1>4. PoolAccounting'
  BY <1>1 DEF PoolAccounting
<1>5. CeilingsHold' /\ ClassesAreIsolated'
  BY <1>1, CapacityType DEF CeilingsHold, ClassesAreIsolated, TypeOK
<1> QED BY <1>2, <1>3, <1>4, <1>5

\* Returning a verified connection: it moves to idle, where nobody owns it, or
\* it becomes surplus and its slot is given back.
LEMMA ReturnHealthyInv ==
  ASSUME NEW h \in Holder, IInv, ReturnHealthy(h)
  PROVE  IInv'
<1> USE DEF IInv
<1>1. /\ pc[h] = "verifying"
      /\ active' = [active EXCEPT ![class[h]] = @ - 1]
      /\ class' = [class EXCEPT ![h] = "none"]
      /\ generation' = [generation EXCEPT ![h] = 0]
      /\ UNCHANGED <<nextPhysicalId, leases, leasesIssued, refusal>>
      /\ physical[h] \in PhysicalId
  BY DEF ReturnHealthy, Ownership, TypeOK
<1>2. CASE /\ idle' = Append(idle, physical[h])
           /\ pc' = [pc EXCEPT ![h] = "out"]
           /\ physical' = [physical EXCEPT ![h] = 0]
           /\ live' = live
  <2>1. /\ \A d \in LeaseClass : active'[d] = Cardinality(Counted(d)')
        /\ active' \in [LeaseClass -> Nat]
        /\ \A d \in LeaseClass : active'[d] <= capacity(d)
        /\ Len(idle) \in Nat
        /\ live >= 1
        /\ ActiveSum' \in Nat
        /\ live - 1 = Len(idle) + ActiveSum'
    BY <1>1, <1>2, FreedCounts DEF SlotState
  <2>2. /\ idle' \in Seq(PhysicalId)
        /\ Len(idle') = Len(idle) + 1
        /\ \A i \in 1 .. Len(idle) : idle'[i] = idle[i]
        /\ idle'[Len(idle) + 1] = physical[h]
    BY <1>1, <1>2, AppendProperties DEF TypeOK
  <2>3. /\ pc' = [pc EXCEPT ![h] = "out"]
        /\ physical' = [physical EXCEPT ![h] = 0]
        /\ live' = live
    BY <1>2
  <2>4. TypeOK'
    BY <1>1, <2>1, <2>2, <2>3 DEF TypeOK, HolderState
  <2>5. Ownership' /\ GenerationNamesOneUse' /\ ClassesAreIsolated'
    BY <1>1, <2>3 DEF TypeOK, Ownership, SlotState, GenerationNamesOneUse, ClassesAreIsolated
  <2>6. IdsAreFresh'
    <3>0. \A i \in 1 .. Len(idle') : i \in 1 .. Len(idle) \/ i = Len(idle) + 1
      BY <2>1, <2>2
    <3>1. \A i \in 1 .. Len(idle') : idle'[i] < nextPhysicalId
      <4> SUFFICES ASSUME NEW i \in 1 .. Len(idle') PROVE idle'[i] < nextPhysicalId
        OBVIOUS
      <4>1. CASE i \in 1 .. Len(idle)
        BY <2>2, <4>1 DEF IdsAreFresh
      <4>2. CASE i = Len(idle) + 1
        BY <2>2, <4>2 DEF IdsAreFresh
      <4> QED BY <3>0, <4>1, <4>2
    <3> QED BY <1>1, <2>2, <2>3, <3>1 DEF TypeOK, IdsAreFresh
  <2>7. PoolAccounting'
    <3>1. live' = Len(idle') + ActiveSum'
      BY <2>1, <2>2, <2>3 DEF TypeOK
    <3> QED BY <2>1, <3>1 DEF PoolAccounting
  <2>8. CeilingsHold'
    BY <2>1, <2>3 DEF CeilingsHold
  <2>9. ExclusiveLease'
    <3>1. \A i \in 1 .. Len(idle) : idle[i] # 0 /\ idle[i] # physical[h]
      BY ElementOfSeq, BoundsAssumption DEF TypeOK, PhysicalId, ExclusiveLease
    <3>2. \A i \in 1 .. Len(idle') : i \in 1 .. Len(idle) \/ i = Len(idle) + 1
      BY <2>1, <2>2
    <3>3. \A i, j \in 1 .. Len(idle') : idle'[i] = idle'[j] => i = j
      BY <2>2, <3>1, <3>2 DEF ExclusiveLease
    <3>4. \A g \in Holder : \A i \in 1 .. Len(idle') : idle'[i] # physical'[g]
      <4> SUFFICES ASSUME NEW g \in Holder, NEW i \in 1 .. Len(idle')
                   PROVE  idle'[i] # physical'[g]
        OBVIOUS
      <4>1. CASE g = h
        <5>1. physical'[g] = 0
          BY <4>1, <2>3 DEF TypeOK
        <5>2. physical[h] # 0
          BY <1>1, BoundsAssumption DEF PhysicalId
        <5> QED BY <5>1, <5>2, <2>2, <3>1, <3>2
      <4>2. CASE g # h
        <5>1. physical'[g] = physical[g]
          BY <4>2, <2>3 DEF TypeOK
        <5>2. physical[g] # physical[h]
          BY <4>2, <1>1, BoundsAssumption DEF ExclusiveLease, PhysicalId
        <5> QED BY <5>1, <5>2, <2>2, <3>2 DEF ExclusiveLease
      <4> QED BY <4>1, <4>2
    <3>5. \A f, g \in Holder : (physical'[f] = physical'[g] /\ physical'[f] # 0) => f = g
      BY <2>3 DEF ExclusiveLease, TypeOK
    <3> QED BY <3>3, <3>4, <3>5 DEF ExclusiveLease
  <2> QED BY <2>4, <2>5, <2>6, <2>7, <2>8, <2>9
<1>3. CASE /\ live' = live - 1
           /\ pc' = [pc EXCEPT ![h] = "closing"]
           /\ UNCHANGED <<idle, physical>>
  <2>1. /\ \A d \in LeaseClass : active'[d] = Cardinality(Counted(d)')
        /\ active' \in [LeaseClass -> Nat]
        /\ \A d \in LeaseClass : active'[d] <= capacity(d)
        /\ live >= 1
        /\ live - 1 = Len(idle) + ActiveSum'
    BY <1>1, <1>3, FreedCounts DEF SlotState
  <2>2. TypeOK'
    BY <1>1, <1>3, <2>1 DEF TypeOK, HolderState
  <2>3. Ownership' /\ IdsAreFresh' /\ ExclusiveLease' /\ GenerationNamesOneUse'
    BY <1>1, <1>3 DEF TypeOK, Ownership, SlotState, IdsAreFresh, ExclusiveLease,
                      GenerationNamesOneUse
  <2>4. PoolAccounting'
    BY <1>3, <2>1 DEF PoolAccounting
  <2>5. CeilingsHold' /\ ClassesAreIsolated'
    BY <1>1, <1>3, <2>1, CapacityType DEF CeilingsHold, ClassesAreIsolated, TypeOK
  <2> QED BY <2>2, <2>3, <2>4, <2>5
<1> QED BY <1>2, <1>3 DEF ReturnHealthy

\* Closing a connection touches nothing the pool counts.
LEMMA CloseInv ==
  ASSUME NEW h \in Holder, IInv, Close(h)
  PROVE  IInv'
<1> USE DEF IInv, Close, poolVars
<1>1. TypeOK'
  BY DEF TypeOK, HolderState
<1>2. Ownership' /\ GenerationNamesOneUse'
  BY DEF TypeOK, Ownership, SlotState, GenerationNamesOneUse
<1>3. IdsAreFresh'
  BY BoundsAssumption DEF TypeOK, IdsAreFresh, PhysicalId
<1>4. \A d \in LeaseClass : active'[d] = Cardinality(Counted(d)')
  BY SlotKept DEF SlotState
<1>5. PoolAccounting' /\ CeilingsHold' /\ ClassesAreIsolated'
  BY <1>4 DEF PoolAccounting, ActiveSum, CeilingsHold, ClassesAreIsolated
<1>6. ExclusiveLease'
  <2>1. \A i \in 1 .. Len(idle) : idle[i] # 0
    BY ElementOfSeq, BoundsAssumption DEF TypeOK, PhysicalId
  <2> QED BY <2>1 DEF ExclusiveLease, TypeOK
<1> QED BY <1>1, <1>2, <1>3, <1>5, <1>6

\* Every step of every holder keeps the inductive invariant.
LEMMA StepInv == IInv /\ [Next]_vars => IInv'
<1> SUFFICES ASSUME IInv, [Next]_vars PROVE IInv'
  OBVIOUS
<1>1. CASE UNCHANGED vars
  <2>1. \A d \in LeaseClass : Counted(d)' = Counted(d)
    BY <1>1 DEF vars, Counted
  <2> QED BY <1>1, <2>1 DEF vars, IInv, TypeOK, Ownership, IdsAreFresh, PoolAccounting,
            ActiveSum, CeilingsHold, ExclusiveLease, GenerationNamesOneUse, ClassesAreIsolated
<1>2. ASSUME NEW h \in Holder, HolderNext(h) PROVE IInv'
  BY <1>2, RefuseInv, TakeExistingInv, ReserveNewInv, ConfigureOkInv, ConfigureErrInv,
     BeginReleaseInv, ReturnHealthyInv, DiscardInv, CloseInv DEF HolderNext
<1> QED BY <1>1, <1>2 DEF Next

\* The inductive invariant holds at every state of every behaviour.
LEMMA PoolInvariant == Spec => []IInv
BY InitInv, StepInv, PTL DEF Spec

-----------------------------------------------------------------------------
\* The pool's state keeps its types, the unsigned counters of PoolState never
\* going below zero (pool.rs:292-300).
THEOREM TypeCorrect == Spec => []TypeOK
<1>1. IInv => TypeOK
  BY DEF IInv
<1> QED BY <1>1, PoolInvariant, PTL

\* No slot is leaked or counted twice on any path of acquire, release or drop.
THEOREM AccountingCorrect == Spec => []PoolAccounting
<1>1. IInv => PoolAccounting
  BY DEF IInv
<1> QED BY <1>1, PoolInvariant, PTL

\* The declared per-class and physical ceilings are never exceeded.
THEOREM CeilingsCorrect == Spec => []CeilingsHold
<1>1. IInv => CeilingsHold
  BY DEF IInv
<1> QED BY <1>1, PoolInvariant, PTL

\* A connection is never shared by two leases, nor leased while idle.
THEOREM ExclusionCorrect == Spec => []ExclusiveLease
<1>1. IInv => ExclusiveLease
  BY DEF IInv
<1> QED BY <1>1, PoolInvariant, PTL

\* A lease's (physical id, generation) pair is never out of date while it is held.
THEOREM GenerationCorrect == Spec => []GenerationNamesOneUse
<1>1. IInv => GenerationNamesOneUse
  BY DEF IInv
<1> QED BY <1>1, PoolInvariant, PTL

\* The refusal acquire's comment calls unreachable is unreachable.
THEOREM PhysicalRefusalUnreachable == Spec => []ClassesAreIsolated
<1>1. IInv => ClassesAreIsolated
  BY DEF IInv
<1> QED BY <1>1, PoolInvariant, PTL
=============================================================================
