------------------------- MODULE EngineStreamProofs -------------------------
(***************************************************************************)
(* What the engine's streams guarantee for any number of streams, tokens   *)
(* and connections, with the tokens given to the streams in any way.       *)
(*                                                                         *)
(* Five layers, each inductive with the ones before it.  LeaseInv says at  *)
(* which place of the producer a stream has a lease and that a connection  *)
(* has one owner.  BindInv says that a token's slot names the connection   *)
(* of the one stream that is bound to it, so an interrupt that is aimed at *)
(* a slot, now or later, stays with that stream (InterruptIsOwn).  LateInv *)
(* says where a producer can be once it has appended a row, built a batch  *)
(* or sent one after its cancel: each of the three happens once at most.   *)
(* EndInv says what is in the channel, and that the terminal in it is the  *)
(* last item and the producer's outcome.  ChangeInv, for verifications     *)
(* that do not unwind, says that a change that was read is in the outcome. *)
(***************************************************************************)
EXTENDS EngineStream, SequenceTheorems, TLAPS

-----------------------------------------------------------------------------
(* The lease.                                                               *)

LeaseTypes ==
    /\ idle \in Seq(Nat \ {0}) /\ nextPhysicalId \in Nat \ {0}
    /\ pc \in [Stream -> {"out", "creating", "leased", "verifying", "closing"}]
    /\ physical \in [Stream -> Nat]
    /\ prod \in [Stream -> ProdState]

\* The places at which a stream's lease is its own and in use.
HasLease == {"leased", "spawning", "produced", "detached"} \cup Producing

\* The lease q a stream may have at a place.
Allowed(place, q) ==
    /\ place \in {"unopened", "admitted", "refused", "checked", "finished"} => q = "out"
    /\ place = "configuring" => q = "creating"
    /\ place \in HasLease => q = "leased"
    /\ place \in {"attachFailed", "spawnFailed", "unwinding"} => q \in {"closing", "out"}
    /\ place = "resolving" => q \in {"verifying", "closing", "out"}

LeaseAtPlace == \A s \in Stream : Allowed(prod[s], pc[s])

OutIsEmpty == \A s \in Stream : pc[s] = "out" <=> physical[s] = 0

IdsAreFresh ==
    /\ \A s \in Stream : physical[s] < nextPhysicalId
    /\ \A i \in 1 .. Len(idle) : idle[i] < nextPhysicalId

OneOwner ==
    /\ \A r, s \in Stream : physical[r] = physical[s] /\ physical[s] # 0 => r = s
    /\ \A s \in Stream : \A i \in 1 .. Len(idle) : idle[i] # physical[s]
    /\ \A i, j \in 1 .. Len(idle) : idle[i] = idle[j] => i = j

LeaseInv == LeaseTypes /\ LeaseAtPlace /\ OutIsEmpty /\ IdsAreFresh /\ OneOwner

-----------------------------------------------------------------------------
(* The binding of a token to a connection.                                  *)

BindTypes ==
    /\ tokenOf \in [Stream -> Token]
    /\ slot \in [Token -> Nat] /\ flagged \subseteq Nat \ {0}
    /\ cancelled \in [Token -> BOOLEAN]
    /\ canceller \in [Stream -> [Cancel -> CancelState]]
    /\ reinterrupter \in [Token -> {"none", "alive", "stopped"}]

\* From attach to detach, or to the end of a failed spawn.
Bound == {"spawning", "spawnFailed", "produced"} \cup Producing

BoundHasSlot ==
    \A s \in Stream : prod[s] \in Bound =>
        /\ slot[tokenOf[s]] # 0
        /\ prod[s] # "spawnFailed" => slot[tokenOf[s]] = physical[s]

BoundIsAlone ==
    \A r, s \in Stream : prod[r] \in Bound /\ prod[s] \in Bound /\ tokenOf[r] = tokenOf[s] => r = s

SlotIsHome ==
    \A t \in Token : slot[t] # 0 =>
        /\ slot[t] < nextPhysicalId
        /\ \A i \in 1 .. Len(idle) : idle[i] # slot[t]
        /\ \A s \in Stream : physical[s] = slot[t] => tokenOf[s] = t /\ prod[s] \in Bound
        /\ \E s \in Stream : tokenOf[s] = t /\ prod[s] \in Bound

CancelIsSaid ==
    /\ \A s \in Stream, k \in Cancel : canceller[s][k] # "idle" => cancelled[tokenOf[s]]
    /\ \A t \in Token : reinterrupter[t] = "alive" => cancelled[t]

FlagIsOwn ==
    /\ \A p \in flagged : p < nextPhysicalId
    /\ \A i \in 1 .. Len(idle) : idle[i] \notin flagged
    /\ \A s \in Stream : physical[s] \in flagged => cancelled[tokenOf[s]]

BindInv == BindTypes /\ BoundHasSlot /\ BoundIsAlone /\ SlotIsHome /\ CancelIsSaid /\ FlagIsOwn

-----------------------------------------------------------------------------
(* Work after a cancel.                                                     *)

\* Where a cancelled producer is once it has done a piece of work: none of these leads to that
\* work again without a look at the token.  The row of a turn follows the batch that was sent to
\* make room for it, and the second batch of the turn follows the row.
After(w) == {"builtOne", "finished"} \cup Ending
            \cup (IF w \in {"appended", "sent"} THEN {"rows", "fetchCheck", "building"} ELSE {})
            \cup (IF w = "sent" THEN {"appending"} ELSE {})

LateInv ==
    /\ resume \in [Stream -> Resumption]
    /\ late \in [Stream -> [Work -> 0 .. 1]]
    /\ \A s \in Stream, w \in Work :
          late[s][w] # 0 => cancelled[tokenOf[s]] /\ prod[s] \in After(w)

-----------------------------------------------------------------------------
(* The end.                                                                 *)

EndTypes ==
    /\ outcome \in [Stream -> {"none", "ok", "cancelled", "error"}]
    /\ queue \in [Stream -> Seq(Terminal \cup {"batch"})]
    /\ cons \in [Stream -> {"none", "open", "over", "dropping", "dropped"}]
    /\ seen \in [Stream -> Terminal \cup {"none", "ok", "ipc"}]
    /\ recorded \in [Stream -> BOOLEAN] /\ changedRead \in [Stream -> BOOLEAN] /\ changed \in BOOLEAN

CancelledIsCancelled ==
    \A s \in Stream : /\ outcome[s] = "cancelled" => cancelled[tokenOf[s]]
                      /\ cons[s] \in {"dropping", "dropped"} => cancelled[tokenOf[s]]

TerminalIsLast ==
    \A s \in Stream :
        /\ \A i \in 1 .. Len(queue[s]) : queue[s][i] # "batch" =>
              prod[s] = "finished" /\ queue[s][i] = TerminalOf(s) /\ i = Len(queue[s])
        /\ seen[s] \in Terminal => prod[s] = "finished" /\ seen[s] = TerminalOf(s)
        /\ seen[s] = "ok" => prod[s] = "finished"

OutcomeIsThere ==
    \A s \in Stream : prod[s] \in Ending \cup {"finished"} => outcome[s] # "none"

EndInv == EndTypes /\ CancelledIsCancelled /\ TerminalIsLast /\ OutcomeIsThere

\* With no verification that unwinds: the change is recorded, and sent.
ChangeInv ==
    \A s \in Stream :
        /\ prod[s] # "unwinding"
        /\ changedRead[s] => changed
        /\ changedRead[s] /\ prod[s] \in {"checked", "finished"} => recorded[s]
        /\ prod[s] = "finished" /\ cons[s] = "open" /\ TerminalOf(s) # "ok" =>
              queue[s] # <<>> /\ queue[s][Len(queue[s])] = TerminalOf(s)
        /\ seen[s] = "ok" => TerminalOf(s) = "ok"

-----------------------------------------------------------------------------
(* The steps of produce, from its start to its return.                      *)

Reading(s) == \/ Start(s) \/ Prepare(s) \/ OpenWindow(s) \/ CheckWindow(s) \/ BeginExecute(s)
              \/ ExecuteInterrupted(s) \/ ExecuteReturns(s) \/ AfterExecute(s) \/ FetchCheck(s)
              \/ FetchInterrupted(s) \/ FetchReturns(s) \/ FetchRefused(s) \/ FetchFailed(s)
              \/ Row(s) \/ AppendRow(s) \/ ChunkDone(s) \/ StreamEnd(s) \/ FlushBuild(s) \/ FlushCheck(s) \/ FlushSend(s)

\* What they have in common: the producer stays in produce or returns an outcome from it, the
\* lease and the binding stay as they are, an interrupt is at most cleared, and all that enters
\* the channel is batches.
LEMMA ReadingFacts ==
  ASSUME NEW s \in Stream, Reading(s)
  PROVE  /\ prod[s] \in Producing
         /\ UNCHANGED <<poolVars, tokenOf, cancelled, slot, reinterrupter, canceller>>
         /\ flagged' \subseteq flagged
         /\ UNCHANGED <<cons, seen, sourceVars>>
         /\ \/ queue' = queue
            \/ queue' = [queue EXCEPT ![s] = Append(@, "batch")]
         /\ \/ \E place \in Producing : prod' = [prod EXCEPT ![s] = place] /\ UNCHANGED outcome
            \/ \E o \in {"ok", "cancelled", "error"} :
                  /\ prod' = [prod EXCEPT ![s] = "produced"]
                  /\ outcome' = [outcome EXCEPT ![s] = o]
                  /\ o = "cancelled" => isCancelled(s) \/ cons[s] = "dropped"
<1> USE DEF Goto, Return, classify, tokenVars, rowVars, consVars, Producing
<1>1. CASE Start(s)
  BY <1>1 DEF Start
<1>2. CASE Prepare(s)
  BY <1>2 DEF Prepare
<1>3. CASE OpenWindow(s)
  BY <1>3 DEF OpenWindow
<1>4. CASE CheckWindow(s)
  BY <1>4 DEF CheckWindow
<1>5. CASE BeginExecute(s)
  BY <1>5 DEF BeginExecute
<1>6. CASE ExecuteInterrupted(s)
  BY <1>6 DEF ExecuteInterrupted, CloseWindow
<1>7. CASE ExecuteReturns(s)
  BY <1>7 DEF ExecuteReturns, CloseWindow
<1>8. CASE AfterExecute(s)
  BY <1>8 DEF AfterExecute
<1>9. CASE FetchCheck(s)
  BY <1>9 DEF FetchCheck
<1>10. CASE FetchInterrupted(s)
  BY <1>10 DEF FetchInterrupted, Fetched
<1>11. CASE FetchReturns(s)
  BY <1>11 DEF FetchReturns, Fetched
<1>12. CASE FetchFailed(s)
  BY <1>12 DEF FetchFailed
<1>13. CASE Row(s)
  BY <1>13 DEF Row, Cut
<1>14. CASE ChunkDone(s)
  BY <1>14 DEF ChunkDone, Cut
<1>15. CASE StreamEnd(s)
  BY <1>15 DEF StreamEnd
<1>16. CASE FlushBuild(s)
  BY <1>16 DEF FlushBuild
<1>17. CASE FlushCheck(s)
  BY <1>17 DEF FlushCheck
<1>18. CASE FlushSend(s)
  BY <1>18 DEF FlushSend, ReceiverGone
<1>19. CASE FetchRefused(s)
  BY <1>19 DEF FetchRefused
<1>20. CASE AppendRow(s)
  BY <1>20 DEF AppendRow, Cut
<1> QED
  BY <1>1, <1>2, <1>3, <1>4, <1>5, <1>6, <1>7, <1>8, <1>9, <1>10, <1>11, <1>12, <1>13, <1>14, <1>15,
     <1>16, <1>17, <1>18, <1>19, <1>20 DEF Reading

-----------------------------------------------------------------------------
\* A step that leaves every lease as it is, and moves a producer only where its lease may be.
LEMMA LeaseStays ==
  ASSUME LeaseInv, UNCHANGED <<idle, nextPhysicalId, pc, physical>>, prod' \in [Stream -> ProdState],
         \A s \in Stream : Allowed(prod'[s], pc[s])
  PROVE  LeaseInv'
<1>1. LeaseTypes' /\ LeaseAtPlace'
  BY DEF LeaseInv, LeaseTypes, LeaseAtPlace
<1>2. OutIsEmpty' /\ IdsAreFresh' /\ OneOwner'
  BY DEF LeaseInv, OutIsEmpty, IdsAreFresh, OneOwner
<1> QED BY <1>1, <1>2 DEF LeaseInv

\* A step of the pool for one stream: it ends with connection p, or with none.
LEMMA LeaseMoves ==
  ASSUME LeaseInv, NEW s \in Stream, NEW p \in Nat, NEW place \in ProdState,
         NEW q \in {"out", "creating", "leased", "verifying", "closing"}, q = "out" <=> p = 0,
         Allowed(place, q),
         pc' = [pc EXCEPT ![s] = q], physical' = [physical EXCEPT ![s] = p],
         prod' = [prod EXCEPT ![s] = place],
         idle' \in Seq(Nat \ {0}), nextPhysicalId' \in Nat, nextPhysicalId' >= nextPhysicalId,
         p < nextPhysicalId', p # 0 => \A r \in Stream : r # s => physical[r] # p,
         \A i \in 1 .. Len(idle') : /\ idle'[i] < nextPhysicalId' /\ idle'[i] # p
                                    /\ \A r \in Stream : r # s => idle'[i] # physical[r],
         \A i, j \in 1 .. Len(idle') : idle'[i] = idle'[j] => i = j
  PROVE  LeaseInv'
<1>0. \A r \in Stream : /\ physical'[r] = IF r = s THEN p ELSE physical[r]
                        /\ pc'[r] = IF r = s THEN q ELSE pc[r]
                        /\ prod'[r] = IF r = s THEN place ELSE prod[r]
                        /\ physical[r] \in Nat
  BY DEF LeaseInv, LeaseTypes
<1>1. LeaseTypes'
  BY DEF LeaseInv, LeaseTypes
<1>2. LeaseAtPlace'
  BY <1>0 DEF LeaseInv, LeaseAtPlace
<1>3. OutIsEmpty'
  BY <1>0 DEF LeaseInv, OutIsEmpty
<1>4. IdsAreFresh'
  BY <1>0 DEF LeaseInv, LeaseTypes, IdsAreFresh
<1>5. OneOwner'
  BY <1>0 DEF LeaseInv, OneOwner
<1> QED BY <1>1, <1>2, <1>3, <1>4, <1>5 DEF LeaseInv

\* The same when idle stays as it is: only the stream's own connection, or a new one.
LEMMA LeaseMovesAlone ==
  ASSUME LeaseInv, NEW s \in Stream, NEW p \in Nat, NEW place \in ProdState,
         NEW q \in {"out", "creating", "leased", "verifying", "closing"}, q = "out" <=> p = 0,
         Allowed(place, q),
         pc' = [pc EXCEPT ![s] = q], physical' = [physical EXCEPT ![s] = p],
         prod' = [prod EXCEPT ![s] = place], UNCHANGED idle,
         \/ p \in {0, physical[s]} /\ nextPhysicalId' = nextPhysicalId
         \/ p = nextPhysicalId /\ nextPhysicalId' = nextPhysicalId + 1
  PROVE  LeaseInv'
<1>0. /\ idle \in Seq(Nat \ {0}) /\ nextPhysicalId \in Nat \ {0} /\ physical \in [Stream -> Nat]
      /\ Len(idle) \in Nat
  BY LenProperties DEF LeaseInv, LeaseTypes
<1>1. nextPhysicalId' \in Nat /\ nextPhysicalId' >= nextPhysicalId /\ p < nextPhysicalId'
  BY <1>0 DEF LeaseInv, IdsAreFresh
<1>2. p # 0 => \A r \in Stream : r # s => physical[r] # p
  BY <1>0 DEF LeaseInv, IdsAreFresh, OneOwner
<1>3. \A i \in 1 .. Len(idle) : idle[i] \in Nat \ {0}
  BY <1>0, ElementOfSeq
<1>4. \A i \in 1 .. Len(idle) : idle[i] < nextPhysicalId' /\ idle[i] # p
  BY <1>0, <1>1, <1>3 DEF LeaseInv, IdsAreFresh, OneOwner
<1>5. /\ \A i \in 1 .. Len(idle) : \A r \in Stream : r # s => idle[i] # physical[r]
      /\ \A i, j \in 1 .. Len(idle) : idle[i] = idle[j] => i = j
  BY DEF LeaseInv, OneOwner
<1>6. /\ idle' \in Seq(Nat \ {0})
      /\ \A i \in 1 .. Len(idle') : /\ idle'[i] < nextPhysicalId' /\ idle'[i] # p
                                    /\ \A r \in Stream : r # s => idle'[i] # physical[r]
      /\ \A i, j \in 1 .. Len(idle') : idle'[i] = idle'[j] => i = j
  BY <1>0, <1>4, <1>5
<1> QED BY <1>1, <1>2, <1>6, LeaseMoves

\* What is left of idle when its last connection is taken.
LEMMA PoppedIdle ==
  ASSUME LeaseInv, idle # <<>>, idle' = SubSeq(idle, 1, Len(idle) - 1)
  PROVE  /\ Len(idle) \in Nat \ {0} /\ idle[Len(idle)] \in Nat \ {0}
         /\ idle' \in Seq(Nat \ {0}) /\ Len(idle') = Len(idle) - 1
         /\ \A i \in 1 .. Len(idle') : /\ idle'[i] = idle[i] /\ i \in 1 .. Len(idle)
                                       /\ idle[i] # idle[Len(idle)]
<1>1. Len(idle) \in Nat \ {0} /\ idle \in Seq(Nat \ {0})
  BY EmptySeq DEF LeaseInv, LeaseTypes
<1>2. \A i \in 1 .. Len(idle) : idle[i] \in Nat \ {0}
  BY <1>1, ElementOfSeq
<1>3. \A i \in 1 .. Len(idle) - 1 : idle[i] \in Nat \ {0}
  BY <1>1, <1>2
<1>4. /\ idle' \in Seq(Nat \ {0})
      /\ Len(idle') = IF 1 <= Len(idle) - 1 THEN Len(idle) - 1 - 1 + 1 ELSE 0
      /\ \A i \in 1 .. Len(idle) - 1 - 1 + 1 : idle'[i] = idle[1 + i - 1]
  BY <1>1, <1>3, SubSeqProperties
<1>5. Len(idle) - 1 - 1 + 1 = Len(idle) - 1 /\ \A i \in Nat : 1 + i - 1 = i
  BY <1>1
<1>6. Len(idle') = Len(idle) - 1
  <2>1. \A n \in Nat \ {0} : (IF 1 <= n - 1 THEN n - 1 - 1 + 1 ELSE 0) = n - 1
    OBVIOUS
  <2> QED BY <1>1, <1>4, <2>1, Zenon
<1>7. \A i \in 1 .. Len(idle) - 1 : idle'[i] = idle[i]
  BY <1>1, <1>4, <1>5
<1>8. \A i \in 1 .. Len(idle) - 1 : i \in 1 .. Len(idle) /\ idle[i] # idle[Len(idle)]
  BY <1>1 DEF LeaseInv, OneOwner
<1>9. \A i \in 1 .. Len(idle') : /\ idle'[i] = idle[i] /\ i \in 1 .. Len(idle)
                                 /\ idle[i] # idle[Len(idle)]
  BY <1>6, <1>7, <1>8
<1>10. idle[Len(idle)] \in Nat \ {0}
  BY <1>1, <1>2
<1> QED BY <1>1, <1>4, <1>6, <1>9, <1>10

\* What is in idle when a connection is added.
LEMMA GrownIdle ==
  ASSUME LeaseInv, NEW p \in Nat \ {0}, idle' = Append(idle, p)
  PROVE  /\ idle' \in Seq(Nat \ {0}) /\ Len(idle) \in Nat
         /\ \A i \in 1 .. Len(idle') : \/ i \in 1 .. Len(idle) /\ idle'[i] = idle[i]
                                       \/ i = Len(idle) + 1 /\ idle'[i] = p
<1>1. idle \in Seq(Nat \ {0}) /\ Len(idle) \in Nat
  BY LenProperties DEF LeaseInv, LeaseTypes
<1>2. /\ idle' \in Seq(Nat \ {0}) /\ Len(idle') = Len(idle) + 1
      /\ \A i \in 1 .. Len(idle) : idle'[i] = idle[i]
      /\ idle'[Len(idle) + 1] = p
  BY <1>1, AppendProperties
<1>3. \A i \in 1 .. Len(idle') : i \in 1 .. Len(idle) \/ i = Len(idle) + 1
  BY <1>1, <1>2
<1> QED BY <1>1, <1>2, <1>3

\* Every step keeps the leases.
LEMMA LeaseStep == LeaseInv /\ [Next]_vars => LeaseInv'
<1> SUFFICES ASSUME LeaseInv, [Next]_vars PROVE LeaseInv'
  OBVIOUS
<1>0. /\ prod \in [Stream -> ProdState] /\ physical \in [Stream -> Nat] /\ nextPhysicalId \in Nat \ {0}
      /\ pc \in [Stream -> {"out", "creating", "leased", "verifying", "closing"}]
      /\ \A s \in Stream : Allowed(prod[s], pc[s]) /\ (pc[s] = "out" <=> physical[s] = 0)
  BY DEF LeaseInv, LeaseTypes, LeaseAtPlace, OutIsEmpty
<1>u. ASSUME UNCHANGED <<poolVars, prod>> PROVE LeaseInv'
  <2>1. UNCHANGED <<idle, nextPhysicalId, pc, physical>>
    BY <1>u DEF poolVars
  <2> QED BY <1>0, <1>u, <2>1, LeaseStays
<1>q. ASSUME UNCHANGED poolVars, NEW s \in Stream, NEW place \in ProdState,
             prod' = [prod EXCEPT ![s] = place], Allowed(place, pc[s])
      PROVE  LeaseInv'
  <2>1. UNCHANGED <<idle, nextPhysicalId, pc, physical>>
    BY <1>q DEF poolVars
  <2>2. prod' \in [Stream -> ProdState] /\ \A r \in Stream : Allowed(prod'[r], pc[r])
    BY <1>0, <1>q
  <2> QED BY <2>1, <2>2, LeaseStays
<1>p. ASSUME NEW s \in Stream, NEW place \in ProdState, prod' = [prod EXCEPT ![s] = place],
             NEW p \in Nat, NEW q \in {"out", "creating", "leased", "verifying", "closing"},
             q = "out" <=> p = 0, Allowed(place, q),
             pc' = [pc EXCEPT ![s] = q], physical' = [physical EXCEPT ![s] = p], UNCHANGED idle,
             \/ p \in {0, physical[s]} /\ nextPhysicalId' = nextPhysicalId
             \/ p = nextPhysicalId /\ nextPhysicalId' = nextPhysicalId + 1
      PROVE  LeaseInv'
  BY <1>p, LeaseMovesAlone
<1>k. ASSUME NEW s \in Stream PROVE physical = [physical EXCEPT ![s] = physical[s]]
  BY <1>0
<1> USE DEF Goto
<1>1. ASSUME NEW s \in Stream, checkSourceUnchanged(s) PROVE LeaseInv'
  <2>1. /\ UNCHANGED poolVars /\ prod[s] = "unopened"
        /\ \E place \in {"refused", "admitted"} : prod' = [prod EXCEPT ![s] = place]
    BY <1>1 DEF checkSourceUnchanged
  <2>2. \A place \in {"refused", "admitted"} : place \in ProdState /\ Allowed(place, pc[s])
    BY <1>0, <2>1 DEF Allowed, HasLease, Producing, ProdState, Opening
  <2> QED BY <1>q, <2>1, <2>2
<1>2. ASSUME NEW s \in Stream, Acquire(s) PROVE LeaseInv'
  <2>0. prod[s] = "admitted" /\ pc[s] = "out"
    BY <1>0, <1>2 DEF Acquire, Allowed
  <2>1. CASE Pool!Refuse(s, "stream") /\ Goto(s, "refused")
    <3>1. UNCHANGED <<idle, nextPhysicalId, pc, physical>>
      BY <2>1 DEF Pool!Refuse, Pool!poolVars
    <3>2. "refused" \in ProdState /\ Allowed("refused", pc[s])
      BY <2>0 DEF Allowed, HasLease, Producing, ProdState
    <3>3. prod' \in [Stream -> ProdState] /\ \A r \in Stream : Allowed(prod'[r], pc[r])
      BY <1>0, <2>1, <3>2
    <3> QED BY <3>1, <3>3, LeaseStays
  <2>2. CASE Pool!TakeExisting(s, "stream") /\ Goto(s, "leased")
    <3>1. /\ idle # <<>> /\ idle' = SubSeq(idle, 1, Len(idle) - 1) /\ nextPhysicalId' = nextPhysicalId
          /\ pc' = [pc EXCEPT ![s] = "leased"] /\ physical' = [physical EXCEPT ![s] = idle[Len(idle)]]
          /\ prod' = [prod EXCEPT ![s] = "leased"]
      BY <2>2 DEF Pool!TakeExisting, Pool!Issue
    <3>2. "leased" \in ProdState /\ Allowed("leased", "leased")
      BY DEF Allowed, HasLease, Producing, ProdState, Opening
    <3>3. /\ Len(idle) \in Nat \ {0} /\ idle[Len(idle)] \in Nat \ {0} /\ idle' \in Seq(Nat \ {0})
          /\ \A i \in 1 .. Len(idle') : /\ idle'[i] = idle[i] /\ i \in 1 .. Len(idle)
                                        /\ idle[i] # idle[Len(idle)]
      BY <3>1, PoppedIdle
    <3>4. /\ \A r \in Stream : physical[r] # idle[Len(idle)]
          /\ idle[Len(idle)] < nextPhysicalId
      BY <3>3 DEF LeaseInv, IdsAreFresh, OneOwner
    <3>5. /\ \A i \in 1 .. Len(idle') : /\ idle'[i] < nextPhysicalId' /\ idle'[i] # idle[Len(idle)]
                                        /\ \A r \in Stream : r # s => idle'[i] # physical[r]
          /\ \A i, j \in 1 .. Len(idle') : idle'[i] = idle'[j] => i = j
      BY <3>1, <3>3 DEF LeaseInv, IdsAreFresh, OneOwner
    <3>6. nextPhysicalId' \in Nat /\ nextPhysicalId' >= nextPhysicalId
      BY <1>0, <3>1
    <3> QED BY <3>1, <3>2, <3>3, <3>4, <3>5, <3>6, LeaseMoves
  <2>3. CASE Pool!ReserveNew(s, "stream") /\ Goto(s, "configuring")
    <3>1. /\ idle' = idle /\ nextPhysicalId' = nextPhysicalId + 1
          /\ pc' = [pc EXCEPT ![s] = "creating"] /\ physical' = [physical EXCEPT ![s] = nextPhysicalId]
          /\ prod' = [prod EXCEPT ![s] = "configuring"]
      BY <2>3 DEF Pool!ReserveNew
    <3>2. "configuring" \in ProdState /\ Allowed("configuring", "creating")
      BY DEF Allowed, HasLease, Producing, ProdState, Opening
    <3> QED BY <1>0, <1>p, <3>1, <3>2
  <2> QED BY <1>2, <2>1, <2>2, <2>3 DEF Acquire
<1>3. ASSUME NEW s \in Stream, Configure(s) PROVE LeaseInv'
  <2>0. pc[s] = "creating" /\ physical[s] # 0
    BY <1>0, <1>3 DEF Configure, Allowed
  <2>1. CASE Pool!ConfigureOk(s) /\ Goto(s, "leased")
    <3>1. /\ idle' = idle /\ nextPhysicalId' = nextPhysicalId
          /\ pc' = [pc EXCEPT ![s] = "leased"] /\ physical' = [physical EXCEPT ![s] = physical[s]]
          /\ prod' = [prod EXCEPT ![s] = "leased"]
      BY <2>1 DEF Pool!ConfigureOk, Pool!Issue
    <3>2. "leased" \in ProdState /\ Allowed("leased", "leased")
      BY DEF Allowed, HasLease, Producing, ProdState, Opening
    <3> QED BY <1>0, <1>p, <2>0, <3>1, <3>2
  <2>2. CASE Pool!ConfigureErr(s) /\ Goto(s, "refused")
    <3>1. /\ idle' = idle /\ nextPhysicalId' = nextPhysicalId
          /\ pc' = [pc EXCEPT ![s] = "out"] /\ physical' = [physical EXCEPT ![s] = 0]
          /\ prod' = [prod EXCEPT ![s] = "refused"]
      BY <2>2 DEF Pool!ConfigureErr
    <3>2. "refused" \in ProdState /\ Allowed("refused", "out")
      BY DEF Allowed, HasLease, Producing, ProdState, Opening
    <3> QED BY <1>p, <3>1, <3>2
  <2> QED BY <1>3, <2>1, <2>2 DEF Configure
<1>d. ASSUME NEW s \in Stream, Pool!Discard(s), NEW place \in {"attachFailed", "spawnFailed", "resolving", "unwinding"},
             prod' = [prod EXCEPT ![s] = place]
      PROVE  LeaseInv'
  <2>1. /\ idle' = idle /\ nextPhysicalId' = nextPhysicalId /\ physical' = physical
        /\ pc' = [pc EXCEPT ![s] = "closing"] /\ pc[s] # "out"
    BY <1>d DEF Pool!Discard
  <2>2. place \in ProdState /\ Allowed(place, "closing")
    BY DEF Allowed, HasLease, Producing, ProdState, Opening, Ending
  <2> QED BY <1>0, <1>d, <1>k, <1>p, <2>1, <2>2
<1>c. ASSUME NEW s \in Stream, Pool!Close(s), UNCHANGED prod,
             prod[s] \in {"attachFailed", "spawnFailed", "resolving", "unwinding"}
      PROVE  LeaseInv'
  <2>1. /\ idle' = idle /\ nextPhysicalId' = nextPhysicalId
        /\ pc' = [pc EXCEPT ![s] = "out"] /\ physical' = [physical EXCEPT ![s] = 0]
    BY <1>c DEF Pool!Close, Pool!poolVars
  <2>2. prod[s] \in ProdState /\ Allowed(prod[s], "out") /\ prod' = [prod EXCEPT ![s] = prod[s]]
    BY <1>0, <1>c DEF Allowed, HasLease, Producing
  <2> QED BY <1>p, <2>1, <2>2
<1>4. ASSUME NEW s \in Stream, Attach(s) PROVE LeaseInv'
  <2>1. CASE UNCHANGED poolVars /\ prod' = [prod EXCEPT ![s] = "spawning"] /\ prod[s] = "leased"
    <3>1. "spawning" \in ProdState /\ Allowed("spawning", pc[s])
      BY <1>0, <2>1 DEF Allowed, HasLease, Producing, ProdState, Opening
    <3> QED BY <1>q, <2>1, <3>1
  <2>2. CASE Pool!Discard(s) /\ prod' = [prod EXCEPT ![s] = "attachFailed"]
    BY <1>d, <2>2
  <2> QED BY <1>4, <2>1, <2>2 DEF Attach
<1>5. ASSUME NEW s \in Stream, Spawn(s) PROVE LeaseInv'
  <2>1. UNCHANGED poolVars /\ prod[s] = "spawning" /\ prod' = [prod EXCEPT ![s] = "starting"]
    BY <1>5 DEF Spawn
  <2>2. "starting" \in ProdState /\ Allowed("starting", pc[s])
    BY <1>0, <2>1 DEF Allowed, HasLease, Producing, ProdState
  <2> QED BY <1>q, <2>1, <2>2
<1>6. ASSUME NEW s \in Stream, SpawnFails(s) PROVE LeaseInv'
  BY <1>6, <1>d DEF SpawnFails
<1>7. ASSUME NEW s \in Stream, CloseDropped(s) PROVE LeaseInv'
  BY <1>7, <1>c DEF CloseDropped
<1>8. ASSUME NEW s \in Stream, RefuseOpen(s) \/ PostCheck(s) \/ Unwound(s) PROVE LeaseInv'
  <2>1. /\ UNCHANGED poolVars /\ pc[s] = "out"
        /\ \E place \in {"refused", "checked", "finished"} : prod' = [prod EXCEPT ![s] = place]
    BY <1>8 DEF RefuseOpen, PostCheck, LeaseResolved, Unwound
  <2>2. \A place \in {"refused", "checked", "finished"} : place \in ProdState /\ Allowed(place, "out")
    BY DEF Allowed, HasLease, Producing, ProdState, Ending
  <2> QED BY <1>q, <2>1, <2>2
<1>9. ASSUME NEW s \in Stream, Reading(s) PROVE LeaseInv'
  <2>1. /\ UNCHANGED poolVars /\ prod[s] \in Producing
        /\ \E place \in Producing \cup {"produced"} : prod' = [prod EXCEPT ![s] = place]
    BY <1>9, ReadingFacts
  <2>2. \A place \in Producing \cup {"produced"} : place \in ProdState /\ Allowed(place, pc[s])
    BY <1>0, <2>1 DEF Allowed, HasLease, Producing, ProdState, Ending
  <2> QED BY <1>q, <2>1, <2>2
<1>10. ASSUME NEW s \in Stream, Detach(s) PROVE LeaseInv'
  <2>1. UNCHANGED poolVars /\ prod[s] = "produced" /\ prod' = [prod EXCEPT ![s] = "detached"]
    BY <1>10 DEF Detach
  <2>2. "detached" \in ProdState /\ Allowed("detached", pc[s])
    BY <1>0, <2>1 DEF Allowed, HasLease, Producing, ProdState, Ending
  <2> QED BY <1>q, <2>1, <2>2
<1>11. ASSUME NEW s \in Stream, DecideLease(s) PROVE LeaseInv'
  <2>1. CASE Pool!BeginRelease(s) /\ prod' = [prod EXCEPT ![s] = "resolving"]
    <3>1. /\ idle' = idle /\ nextPhysicalId' = nextPhysicalId /\ physical' = physical
          /\ pc' = [pc EXCEPT ![s] = "verifying"] /\ pc[s] # "out"
      BY <2>1 DEF Pool!BeginRelease, Pool!poolVars
    <3>2. "resolving" \in ProdState /\ Allowed("resolving", "verifying")
      BY DEF Allowed, HasLease, Producing, ProdState, Ending
    <3> QED BY <1>0, <1>k, <1>p, <2>1, <3>1, <3>2
  <2>2. CASE Pool!Discard(s) /\ prod' = [prod EXCEPT ![s] = "resolving"]
    BY <1>d, <2>2
  <2> QED BY <1>11, <2>1, <2>2 DEF DecideLease
<1>12. ASSUME NEW s \in Stream, ResolveLease(s) PROVE LeaseInv'
  <2>0. prod[s] \in {"resolving", "unwinding"} /\ prod' = prod /\ prod' = [prod EXCEPT ![s] = prod[s]]
    BY <1>0, <1>12 DEF ResolveLease
  <2>1. CASE Pool!ReturnHealthy(s) /\ Pool!RoomForIdle
    <3>1. /\ idle' = Append(idle, physical[s]) /\ nextPhysicalId' = nextPhysicalId
          /\ pc[s] = "verifying" /\ pc' = [pc EXCEPT ![s] = "out"]
          /\ physical' = [physical EXCEPT ![s] = 0]
      BY <2>1 DEF Pool!ReturnHealthy
    <3>2. prod[s] \in ProdState /\ Allowed(prod[s], "out")
      BY <1>0, <2>0 DEF Allowed, HasLease, Producing
    <3>3. physical[s] \in Nat \ {0} /\ nextPhysicalId' \in Nat /\ nextPhysicalId' >= nextPhysicalId
          /\ 0 < nextPhysicalId'
      BY <1>0, <3>1
    <3>4. /\ idle' \in Seq(Nat \ {0}) /\ Len(idle) \in Nat
          /\ \A i \in 1 .. Len(idle') : \/ i \in 1 .. Len(idle) /\ idle'[i] = idle[i]
                                        \/ i = Len(idle) + 1 /\ idle'[i] = physical[s]
      BY <3>1, <3>3, GrownIdle
    <3>5. \A i \in 1 .. Len(idle') : idle'[i] \in Nat \ {0}
      BY <3>4, ElementOfSeq
    <3>6. \A i \in 1 .. Len(idle') : /\ idle'[i] < nextPhysicalId' /\ idle'[i] # 0
                                     /\ \A r \in Stream : r # s => idle'[i] # physical[r]
      BY <3>1, <3>3, <3>4, <3>5 DEF LeaseInv, IdsAreFresh, OneOwner
    <3>7. \A i, j \in 1 .. Len(idle') : idle'[i] = idle'[j] => i = j
      BY <3>4 DEF LeaseInv, OneOwner
    <3> QED BY <2>0, <3>1, <3>2, <3>3, <3>4, <3>6, <3>7, LeaseMoves
  <2>2. CASE Pool!ReturnHealthy(s) /\ ~Pool!RoomForIdle
    <3>1. /\ idle' = idle /\ nextPhysicalId' = nextPhysicalId /\ physical' = physical
          /\ pc' = [pc EXCEPT ![s] = "closing"] /\ pc[s] # "out"
      BY <2>2 DEF Pool!ReturnHealthy
    <3>2. prod[s] \in ProdState /\ Allowed(prod[s], "closing")
      BY <1>0, <2>0 DEF Allowed, HasLease, Producing
    <3> QED BY <1>0, <1>k, <1>p, <2>0, <3>1, <3>2
  <2>3. CASE pc[s] = "verifying" /\ Pool!Discard(s)
    BY <1>d, <2>0, <2>3
  <2>4. CASE Pool!Close(s)
    BY <1>c, <2>0, <2>4
  <2> QED BY <1>12, <2>1, <2>2, <2>3, <2>4 DEF ResolveLease
<1>13. ASSUME NEW s \in Stream, VerifyUnwinds(s) PROVE LeaseInv'
  BY <1>13, <1>d DEF VerifyUnwinds
<1>14. ASSUME NEW s \in Stream, SendTerminal(s) PROVE LeaseInv'
  <2>1. UNCHANGED poolVars /\ prod[s] = "checked" /\ prod' = [prod EXCEPT ![s] = "finished"]
    BY <1>14 DEF SendTerminal
  <2>2. "finished" \in ProdState /\ Allowed("finished", pc[s])
    BY <1>0, <2>1 DEF Allowed, HasLease, Producing, ProdState
  <2> QED BY <1>q, <2>1, <2>2
<1>15. ASSUME NEW s \in Stream, ConsumerStep(s) \/ \E k \in Cancel : CancelSwap(s, k) \/ CancelStep(s, k)
       PROVE  LeaseInv'
  BY <1>15, <1>u DEF ConsumerStep, Receive, ReceiveEnd, CancelSwap, CancelStep, CancelInterrupt, CancelSpawn
<1>16. CASE (\E t \in Token : Reinterrupt(t)) \/ ChangeSource
  BY <1>16, <1>u DEF Reinterrupt, ChangeSource
<1>17. CASE UNCHANGED vars
  BY <1>17, <1>u DEF vars
<1> QED
  BY <1>1, <1>2, <1>3, <1>4, <1>5, <1>6, <1>7, <1>8, <1>9, <1>10, <1>11, <1>12, <1>13, <1>14, <1>15,
     <1>16, <1>17 DEF Next, OpenNext, ProducerStep, QueryStep, Reading

-----------------------------------------------------------------------------
\* The variables of the token that a step of the pool or of produce leaves alone.
bindVars == <<tokenOf, cancelled, slot, reinterrupter, canceller>>

\* A stream that is not bound moves, with its connection or to another one: whatever it gives to
\* the idle list is its own and not interrupted.
LEMMA BindMovesFree ==
  ASSUME LeaseInv, BindInv, NEW s \in Stream, NEW p \in Nat, NEW place \in ProdState \ Bound,
         prod[s] \notin Bound, prod' = [prod EXCEPT ![s] = place],
         physical' = [physical EXCEPT ![s] = p],
         nextPhysicalId' \in Nat, nextPhysicalId' >= nextPhysicalId, flagged' \subseteq flagged,
         \/ p \in {0, physical[s], nextPhysicalId}
         \/ \E i \in 1 .. Len(idle) : p = idle[i],
         \A i \in 1 .. Len(idle') : \/ \E j \in 1 .. Len(idle) : idle'[i] = idle[j]
                                    \/ idle'[i] = physical[s] /\ physical[s] \notin flagged',
         UNCHANGED bindVars
  PROVE  BindInv'
<1>0. /\ \A r \in Stream : /\ physical'[r] = IF r = s THEN p ELSE physical[r]
                           /\ prod'[r] = IF r = s THEN place ELSE prod[r]
                           /\ physical[r] \in Nat
      /\ nextPhysicalId \in Nat
  BY DEF LeaseInv, LeaseTypes
<1>b. UNCHANGED <<tokenOf, cancelled, slot, reinterrupter, canceller>>
  BY DEF bindVars
<1>1. BindTypes'
  BY <1>b DEF BindInv, BindTypes
<1>2. BoundHasSlot' /\ BoundIsAlone'
  BY <1>0, <1>b DEF BindInv, BoundHasSlot, BoundIsAlone
<1>3. ASSUME NEW t \in Token, slot[t] # 0
      PROVE  /\ p # slot[t] /\ physical[s] # slot[t]
             /\ slot[t] < nextPhysicalId /\ slot[t] \in Nat
  BY <1>0, <1>3 DEF BindInv, BindTypes, SlotIsHome
<1>4. SlotIsHome'
  <2> SUFFICES ASSUME NEW t \in Token, slot[t] # 0
               PROVE /\ slot[t] < nextPhysicalId'
                     /\ \A i \in 1 .. Len(idle') : idle'[i] # slot[t]
                     /\ \A r \in Stream : physical'[r] = slot[t] => tokenOf[r] = t /\ prod'[r] \in Bound
                     /\ \E r \in Stream : tokenOf[r] = t /\ prod'[r] \in Bound
    BY <1>b DEF SlotIsHome
  <2>1. slot[t] < nextPhysicalId'
    BY <1>0, <1>3
  <2>2. \A i \in 1 .. Len(idle') : idle'[i] # slot[t]
    BY <1>3 DEF BindInv, SlotIsHome
  <2>3. \A r \in Stream : physical'[r] = slot[t] => tokenOf[r] = t /\ prod'[r] \in Bound
    BY <1>0, <1>3 DEF BindInv, SlotIsHome
  <2>4. \E r \in Stream : tokenOf[r] = t /\ prod'[r] \in Bound
    BY <1>0 DEF BindInv, SlotIsHome
  <2> QED BY <2>1, <2>2, <2>3, <2>4
<1>5. CancelIsSaid'
  BY <1>b DEF BindInv, CancelIsSaid
<1>6. \A q \in flagged' : q < nextPhysicalId'
  BY <1>0 DEF BindInv, BindTypes, FlagIsOwn
<1>7. \A i \in 1 .. Len(idle') : idle'[i] \notin flagged'
  BY DEF BindInv, FlagIsOwn
<1>8. \A r \in Stream : physical'[r] \in flagged' => cancelled[tokenOf[r]]
  <2>1. ASSUME p \in flagged' PROVE p = physical[s]
    BY <1>0, <2>1 DEF BindInv, BindTypes, FlagIsOwn
  <2> QED BY <1>0, <2>1 DEF BindInv, FlagIsOwn
<1>9. FlagIsOwn'
  BY <1>b, <1>6, <1>7, <1>8 DEF FlagIsOwn
<1> QED BY <1>1, <1>2, <1>4, <1>5, <1>9 DEF BindInv

\* A bound stream moves and stays bound.
LEMMA BindStays ==
  ASSUME LeaseInv, BindInv, NEW s \in Stream, NEW place \in Bound, prod[s] \in Bound \ {"spawnFailed"},
         prod' = [prod EXCEPT ![s] = place], UNCHANGED <<idle, nextPhysicalId, physical>>,
         flagged' \subseteq flagged, UNCHANGED bindVars
  PROVE  BindInv'
<1>0. \A r \in Stream : /\ prod'[r] = IF r = s THEN place ELSE prod[r]
                        /\ prod'[r] \in Bound <=> prod[r] \in Bound
                        /\ prod'[r] \in Bound /\ prod'[r] # "spawnFailed" => prod[r] # "spawnFailed"
  BY DEF LeaseInv, LeaseTypes
<1>b. UNCHANGED <<tokenOf, cancelled, slot, reinterrupter, canceller>>
  BY DEF bindVars
<1>1. BindTypes'
  BY <1>b DEF BindInv, BindTypes
<1>2. BoundHasSlot' /\ BoundIsAlone'
  BY <1>0, <1>b DEF BindInv, BoundHasSlot, BoundIsAlone
<1>3. SlotIsHome'
  BY <1>0, <1>b DEF BindInv, SlotIsHome
<1>4. CancelIsSaid'
  BY <1>b DEF BindInv, CancelIsSaid
<1>5. FlagIsOwn'
  BY <1>b DEF BindInv, FlagIsOwn
<1> QED BY <1>1, <1>2, <1>3, <1>4, <1>5 DEF BindInv

\* A bound stream is unbound: no other stream was bound to its token.
LEMMA BindEnds ==
  ASSUME LeaseInv, BindInv, NEW s \in Stream, NEW place \in ProdState \ Bound, prod[s] \in Bound,
         prod' = [prod EXCEPT ![s] = place], slot' = [slot EXCEPT ![tokenOf[s]] = 0],
         UNCHANGED <<idle, nextPhysicalId, physical, tokenOf, cancelled, reinterrupter, canceller, flagged>>
  PROVE  BindInv'
<1>0. \A r \in Stream : prod'[r] = IF r = s THEN place ELSE prod[r]
  BY DEF LeaseInv, LeaseTypes
<1>1. /\ \A t \in Token : slot'[t] = IF t = tokenOf[s] THEN 0 ELSE slot[t]
      /\ \A r \in Stream : tokenOf[r] \in Token
  BY DEF BindInv, BindTypes
<1>2. BindTypes'
  BY DEF BindInv, BindTypes
<1>3. BoundHasSlot' /\ BoundIsAlone'
  BY <1>0, <1>1 DEF BindInv, BoundHasSlot, BoundIsAlone
<1>4. SlotIsHome'
  BY <1>0, <1>1 DEF BindInv, SlotIsHome
<1>5. CancelIsSaid'
  BY DEF BindInv, CancelIsSaid
<1>6. FlagIsOwn'
  BY DEF BindInv, FlagIsOwn
<1> QED BY <1>2, <1>3, <1>4, <1>5, <1>6 DEF BindInv

\* attach binds a token that nobody is bound to.
LEMMA BindStarts ==
  ASSUME LeaseInv, BindInv, NEW s \in Stream, prod[s] = "leased", slot[tokenOf[s]] = 0,
         prod' = [prod EXCEPT ![s] = "spawning"], slot' = [slot EXCEPT ![tokenOf[s]] = physical[s]],
         flagged' = IF cancelled[tokenOf[s]] THEN flagged \cup {physical[s]} ELSE flagged,
         UNCHANGED <<idle, nextPhysicalId, physical, tokenOf, cancelled, reinterrupter, canceller>>
  PROVE  BindInv'
<1>0. \A r \in Stream : prod'[r] = IF r = s THEN "spawning" ELSE prod[r]
  BY DEF LeaseInv, LeaseTypes
<1>1. /\ \A t \in Token : slot'[t] = IF t = tokenOf[s] THEN physical[s] ELSE slot[t]
      /\ \A r \in Stream : tokenOf[r] \in Token
  BY DEF BindInv, BindTypes
<1>2. physical[s] \in Nat \ {0} /\ physical[s] < nextPhysicalId
  BY DEF LeaseInv, LeaseTypes, LeaseAtPlace, Allowed, HasLease, OutIsEmpty, IdsAreFresh
<1>3. \A r \in Stream : prod[r] \in Bound => tokenOf[r] # tokenOf[s]
  BY DEF BindInv, BoundHasSlot
<1>4. "spawning" \in Bound /\ "spawning" # "spawnFailed" /\ "leased" \notin Bound
  BY DEF Bound, Producing
<1>5. BindTypes'
  BY <1>2 DEF BindInv, BindTypes
<1>6. BoundHasSlot' /\ BoundIsAlone'
  BY <1>0, <1>1, <1>2, <1>3, <1>4 DEF BindInv, BoundHasSlot, BoundIsAlone
<1>7. \A t \in Token : slot[t] # 0 => physical[s] # slot[t]
  BY <1>4 DEF BindInv, SlotIsHome
<1>8. /\ \A i \in 1 .. Len(idle) : idle[i] # physical[s]
      /\ \A r \in Stream : physical[r] = physical[s] => r = s
  BY <1>2 DEF LeaseInv, OneOwner
<1>9. SlotIsHome'
  BY <1>0, <1>1, <1>2, <1>3, <1>4, <1>7, <1>8 DEF BindInv, SlotIsHome
<1>10. CancelIsSaid'
  BY DEF BindInv, CancelIsSaid
<1>11. FlagIsOwn'
  BY <1>2, <1>8 DEF BindInv, FlagIsOwn
<1> QED BY <1>5, <1>6, <1>9, <1>10, <1>11 DEF BindInv

\* The connection of a failed spawn is closed while its token is still bound.
LEMMA BindCloses ==
  ASSUME LeaseInv, BindInv, NEW s \in Stream, prod[s] = "spawnFailed",
         physical' = [physical EXCEPT ![s] = 0], flagged' \subseteq flagged,
         UNCHANGED <<prod, idle, nextPhysicalId>>, UNCHANGED bindVars
  PROVE  BindInv'
<1>0. \A r \in Stream : physical'[r] = IF r = s THEN 0 ELSE physical[r]
  BY DEF LeaseInv, LeaseTypes
<1>b. UNCHANGED <<tokenOf, cancelled, slot, reinterrupter, canceller>>
  BY DEF bindVars
<1>1. BindTypes'
  BY <1>b DEF BindInv, BindTypes
<1>2. BoundHasSlot' /\ BoundIsAlone'
  BY <1>0, <1>b DEF BindInv, BoundHasSlot, BoundIsAlone
<1>3. SlotIsHome'
  BY <1>0, <1>b DEF BindInv, SlotIsHome
<1>4. CancelIsSaid'
  BY <1>b DEF BindInv, CancelIsSaid
<1>5. \A r \in Stream : physical'[r] \in flagged' => physical[r] \in flagged
  <2>1. 0 \notin flagged'
    BY DEF BindInv, BindTypes
  <2> QED BY <1>0, <2>1
<1>6. FlagIsOwn'
  BY <1>5, <1>b DEF BindInv, FlagIsOwn
<1> QED BY <1>1, <1>2, <1>3, <1>4, <1>6 DEF BindInv

\* An interrupt through the slot of a cancelled token, or none.
LEMMA BindPokes ==
  ASSUME LeaseInv, BindInv, NEW t \in Token, cancelled[t],
         flagged' = flagged \cup ({slot[t]} \ {0}),
         canceller' \in [Stream -> [Cancel -> CancelState]],
         \A s \in Stream, k \in Cancel : canceller'[s][k] # "idle" => cancelled[tokenOf[s]],
         UNCHANGED <<prod, idle, nextPhysicalId, physical, tokenOf, cancelled, slot, reinterrupter>>
  PROVE  BindInv'
<1>1. BindTypes'
  <2>1. slot[t] \in Nat /\ flagged \subseteq Nat \ {0}
    BY DEF BindInv, BindTypes
  <2>2. flagged' \subseteq Nat \ {0}
    BY <2>1
  <2> QED BY <2>2 DEF BindInv, BindTypes
<1>2. BoundHasSlot' /\ BoundIsAlone' /\ SlotIsHome'
  BY DEF BindInv, BoundHasSlot, BoundIsAlone, SlotIsHome
<1>3. CancelIsSaid'
  BY DEF BindInv, CancelIsSaid
<1>4. FlagIsOwn'
  BY DEF BindInv, BindTypes, SlotIsHome, FlagIsOwn
<1> QED BY <1>1, <1>2, <1>3, <1>4 DEF BindInv

\* A step that only cancels, moves a canceller or starts or stops a re-interrupter.
LEMMA BindFrame ==
  ASSUME LeaseInv, BindInv, cancelled' \in [Token -> BOOLEAN],
         \A t \in Token : cancelled[t] => cancelled'[t],
         canceller' \in [Stream -> [Cancel -> CancelState]],
         reinterrupter' \in [Token -> {"none", "alive", "stopped"}],
         \A s \in Stream, k \in Cancel : canceller'[s][k] # "idle" => cancelled'[tokenOf[s]],
         \A t \in Token : reinterrupter'[t] = "alive" => cancelled'[t],
         UNCHANGED <<prod, idle, nextPhysicalId, physical, tokenOf, slot, flagged>>
  PROVE  BindInv'
<1>0. \A r \in Stream : tokenOf[r] \in Token
  BY DEF BindInv, BindTypes
<1>1. BindTypes'
  BY DEF BindInv, BindTypes
<1>2. BoundHasSlot' /\ BoundIsAlone' /\ SlotIsHome'
  BY DEF BindInv, BoundHasSlot, BoundIsAlone, SlotIsHome
<1>3. CancelIsSaid'
  BY DEF CancelIsSaid
<1>4. FlagIsOwn'
  BY <1>0 DEF BindInv, FlagIsOwn
<1> QED BY <1>1, <1>2, <1>3, <1>4 DEF BindInv

\* Every step keeps the bindings.
LEMMA BindStep == LeaseInv /\ BindInv /\ [Next]_vars => BindInv'
<1> SUFFICES ASSUME LeaseInv, BindInv, [Next]_vars PROVE BindInv'
  OBVIOUS
<1>0. /\ prod \in [Stream -> ProdState] /\ physical \in [Stream -> Nat] /\ nextPhysicalId \in Nat \ {0}
      /\ \A s \in Stream : Allowed(prod[s], pc[s]) /\ (pc[s] = "out" <=> physical[s] = 0)
      /\ \A s \in Stream : physical = [physical EXCEPT ![s] = physical[s]]
                           /\ prod = [prod EXCEPT ![s] = prod[s]]
  BY DEF LeaseInv, LeaseTypes, LeaseAtPlace, OutIsEmpty
<1>t. /\ tokenOf \in [Stream -> Token] /\ cancelled \in [Token -> BOOLEAN]
      /\ canceller \in [Stream -> [Cancel -> CancelState]]
      /\ reinterrupter \in [Token -> {"none", "alive", "stopped"}]
      /\ \A s \in Stream, k \in Cancel : canceller[s][k] # "idle" => cancelled[tokenOf[s]]
      /\ \A t \in Token : reinterrupter[t] = "alive" => cancelled[t]
  BY DEF BindInv, BindTypes, CancelIsSaid
<1>f. {"unopened", "admitted", "configuring", "leased", "attachFailed", "refused", "detached", "resolving",
       "unwinding", "checked", "finished"} \subseteq ProdState \ Bound
  BY DEF Bound, Producing, ProdState, Opening, Ending
<1>g. ASSUME NEW s \in Stream, NEW p \in {0, physical[s], nextPhysicalId}, NEW place \in ProdState \ Bound,
             prod[s] \notin Bound, prod' = [prod EXCEPT ![s] = place],
             physical' = [physical EXCEPT ![s] = p], UNCHANGED idle,
             nextPhysicalId' \in {nextPhysicalId, nextPhysicalId + 1}, flagged' \subseteq flagged,
             UNCHANGED bindVars
      PROVE  BindInv'
  <2>1. p \in Nat /\ nextPhysicalId' \in Nat /\ nextPhysicalId' >= nextPhysicalId
    BY <1>0, <1>g
  <2>2. \A i \in 1 .. Len(idle') : \E j \in 1 .. Len(idle) : idle'[i] = idle[j]
    BY <1>g
  <2> QED BY <1>g, <2>1, <2>2, BindMovesFree
<1>h. ASSUME NEW s \in Stream, NEW place \in ProdState \ Bound, prod[s] \notin Bound,
             prod' = [prod EXCEPT ![s] = place], UNCHANGED <<idle, physical, nextPhysicalId>>,
             flagged' \subseteq flagged, UNCHANGED bindVars
      PROVE  BindInv'
  BY <1>0, <1>g, <1>h
<1> USE DEF Goto
<1>1. ASSUME NEW s \in Stream, checkSourceUnchanged(s) PROVE BindInv'
  <2>1. \E place \in {"refused", "admitted"} : prod' = [prod EXCEPT ![s] = place]
    BY <1>1 DEF checkSourceUnchanged
  <2>2. prod[s] = "unopened" /\ UNCHANGED <<idle, physical, nextPhysicalId, flagged>> /\ UNCHANGED bindVars
    BY <1>1 DEF checkSourceUnchanged, poolVars, tokenVars, bindVars
  <2> QED BY <1>f, <1>h, <2>1, <2>2
<1>2. ASSUME NEW s \in Stream, Acquire(s) PROVE BindInv'
  <2>0. prod[s] = "admitted" /\ UNCHANGED flagged /\ UNCHANGED bindVars
    BY <1>2 DEF Acquire, tokenVars, bindVars
  <2>1. CASE Pool!Refuse(s, "stream") /\ Goto(s, "refused")
    <3>1. UNCHANGED <<idle, nextPhysicalId, physical>>
      BY <2>1 DEF Pool!Refuse, Pool!poolVars
    <3> QED BY <1>f, <1>h, <2>0, <2>1, <3>1
  <2>2. CASE Pool!TakeExisting(s, "stream") /\ Goto(s, "leased")
    <3>1. /\ idle # <<>> /\ idle' = SubSeq(idle, 1, Len(idle) - 1) /\ nextPhysicalId' = nextPhysicalId
          /\ physical' = [physical EXCEPT ![s] = idle[Len(idle)]]
          /\ prod' = [prod EXCEPT ![s] = "leased"]
      BY <2>2 DEF Pool!TakeExisting, Pool!Issue
    <3>2. /\ Len(idle) \in Nat \ {0} /\ idle[Len(idle)] \in Nat
          /\ \A i \in 1 .. Len(idle') : \E j \in 1 .. Len(idle) : idle'[i] = idle[j]
      BY <3>1, PoppedIdle
    <3>3. \E i \in 1 .. Len(idle) : idle[Len(idle)] = idle[i]
      BY <3>2
    <3>4. nextPhysicalId' \in Nat /\ nextPhysicalId' >= nextPhysicalId
      BY <1>0, <3>1
    <3> QED BY <1>f, <2>0, <3>1, <3>2, <3>3, <3>4, BindMovesFree
  <2>3. CASE Pool!ReserveNew(s, "stream") /\ Goto(s, "configuring")
    <3>1. /\ idle' = idle /\ nextPhysicalId' = nextPhysicalId + 1
          /\ physical' = [physical EXCEPT ![s] = nextPhysicalId]
          /\ prod' = [prod EXCEPT ![s] = "configuring"]
      BY <2>3 DEF Pool!ReserveNew
    <3> QED BY <1>f, <1>g, <2>0, <3>1
  <2> QED BY <1>2, <2>1, <2>2, <2>3 DEF Acquire
<1>3. ASSUME NEW s \in Stream, Configure(s) PROVE BindInv'
  <2>0. prod[s] = "configuring" /\ UNCHANGED flagged /\ UNCHANGED bindVars
    BY <1>3 DEF Configure, tokenVars, bindVars
  <2>1. CASE Pool!ConfigureOk(s) /\ Goto(s, "leased")
    <3>1. /\ idle' = idle /\ nextPhysicalId' = nextPhysicalId
          /\ physical' = [physical EXCEPT ![s] = physical[s]]
          /\ prod' = [prod EXCEPT ![s] = "leased"]
      BY <2>1 DEF Pool!ConfigureOk, Pool!Issue
    <3> QED BY <1>f, <1>g, <2>0, <3>1
  <2>2. CASE Pool!ConfigureErr(s) /\ Goto(s, "refused")
    <3>1. /\ idle' = idle /\ nextPhysicalId' = nextPhysicalId
          /\ physical' = [physical EXCEPT ![s] = 0]
          /\ prod' = [prod EXCEPT ![s] = "refused"]
      BY <2>2 DEF Pool!ConfigureErr
    <3> QED BY <1>f, <1>g, <2>0, <3>1
  <2> QED BY <1>3, <2>1, <2>2 DEF Configure
<1>d. ASSUME NEW s \in Stream, Pool!Discard(s), NEW place \in {"attachFailed", "resolving", "unwinding"},
             prod[s] \in {"leased", "detached", "resolving", "unwinding"},
             prod' = [prod EXCEPT ![s] = place], flagged' \subseteq flagged, UNCHANGED bindVars
      PROVE  BindInv'
  <2>1. idle' = idle /\ nextPhysicalId' = nextPhysicalId /\ physical' = physical
    BY <1>d DEF Pool!Discard
  <2>2. place \in ProdState \ Bound /\ prod[s] \notin Bound
    BY <1>d, <1>f
  <2> QED BY <1>d, <1>h, <2>1, <2>2
<1>c. ASSUME NEW s \in Stream, Pool!Close(s), UNCHANGED prod, flagged' \subseteq flagged, UNCHANGED bindVars,
             prod[s] \in {"attachFailed", "spawnFailed", "resolving", "unwinding"}
      PROVE  BindInv'
  <2>1. idle' = idle /\ nextPhysicalId' = nextPhysicalId /\ physical' = [physical EXCEPT ![s] = 0]
    BY <1>c DEF Pool!Close, Pool!poolVars
  <2>2. CASE prod[s] = "spawnFailed"
    BY <1>c, <2>1, <2>2, BindCloses
  <2>3. CASE prod[s] # "spawnFailed"
    BY <1>0, <1>c, <1>f, <1>g, <2>1, <2>3
  <2> QED BY <2>2, <2>3
<1>4. ASSUME NEW s \in Stream, Attach(s) PROVE BindInv'
  <2>0. /\ prod[s] = "leased"
        /\ UNCHANGED <<tokenOf, cancelled, reinterrupter, canceller>>
    BY <1>4 DEF Attach
  <2>1. CASE /\ slot[tokenOf[s]] = 0
             /\ slot' = [slot EXCEPT ![tokenOf[s]] = physical[s]]
             /\ flagged' = IF cancelled[tokenOf[s]] THEN flagged \cup {physical[s]} ELSE flagged
             /\ prod' = [prod EXCEPT ![s] = "spawning"]
             /\ UNCHANGED poolVars
    <3>1. UNCHANGED <<idle, nextPhysicalId, physical>>
      BY <2>1 DEF poolVars
    <3> QED BY <2>0, <2>1, <3>1, BindStarts
  <2>2. CASE Pool!Discard(s) /\ prod' = [prod EXCEPT ![s] = "attachFailed"] /\ UNCHANGED <<slot, flagged>>
    <3>1. UNCHANGED bindVars
      BY <2>0, <2>2 DEF bindVars
    <3> QED BY <1>d, <2>0, <2>2, <3>1
  <2> QED BY <1>4, <2>1, <2>2 DEF Attach
<1>e. ASSUME NEW s \in Stream, NEW place \in Bound, prod[s] \in Bound \ {"spawnFailed"},
             prod' = [prod EXCEPT ![s] = place], UNCHANGED <<idle, nextPhysicalId, physical>>,
             flagged' \subseteq flagged, UNCHANGED bindVars
      PROVE  BindInv'
  BY <1>e, BindStays
<1>5. ASSUME NEW s \in Stream, Spawn(s) PROVE BindInv'
  <2>1. /\ prod[s] = "spawning" /\ prod' = [prod EXCEPT ![s] = "starting"]
        /\ UNCHANGED <<idle, nextPhysicalId, physical, flagged>> /\ UNCHANGED bindVars
    BY <1>5 DEF Spawn, poolVars, tokenVars, bindVars
  <2>2. "starting" \in Bound /\ "spawning" \in Bound \ {"spawnFailed"}
    BY DEF Bound, Producing
  <2> QED BY <1>e, <2>1, <2>2
<1>6. ASSUME NEW s \in Stream, SpawnFails(s) PROVE BindInv'
  <2>1. /\ prod[s] = "spawning" /\ prod' = [prod EXCEPT ![s] = "spawnFailed"]
        /\ UNCHANGED <<idle, nextPhysicalId, physical, flagged>> /\ UNCHANGED bindVars
    BY <1>6 DEF SpawnFails, Pool!Discard, tokenVars, bindVars
  <2>2. "spawnFailed" \in Bound /\ "spawning" \in Bound \ {"spawnFailed"}
    BY DEF Bound
  <2> QED BY <1>e, <2>1, <2>2
<1>7. ASSUME NEW s \in Stream, CloseDropped(s) PROVE BindInv'
  <2>1. /\ Pool!Close(s) /\ UNCHANGED prod /\ flagged' \subseteq flagged /\ UNCHANGED bindVars
        /\ prod[s] \in {"attachFailed", "spawnFailed"}
    BY <1>7 DEF CloseDropped, bindVars
  <2> QED BY <1>c, <2>1
<1>8. ASSUME NEW s \in Stream, RefuseOpen(s) PROVE BindInv'
  <2>1. /\ prod' = [prod EXCEPT ![s] = "refused"] /\ prod[s] \in {"attachFailed", "spawnFailed"}
        /\ UNCHANGED <<idle, nextPhysicalId, physical, tokenOf, cancelled, reinterrupter, canceller, flagged>>
        /\ slot' = IF prod[s] = "spawnFailed" THEN [slot EXCEPT ![tokenOf[s]] = 0] ELSE slot
    BY <1>8 DEF RefuseOpen, poolVars
  <2>2. CASE prod[s] = "spawnFailed"
    <3>1. "spawnFailed" \in Bound
      BY DEF Bound
    <3> QED BY <1>f, <2>1, <2>2, <3>1, BindEnds
  <2>3. CASE prod[s] = "attachFailed"
    <3>1. UNCHANGED bindVars
      BY <2>1, <2>3 DEF bindVars
    <3> QED BY <1>f, <1>h, <2>1, <2>3, <3>1
  <2> QED BY <2>1, <2>2, <2>3
<1>9. ASSUME NEW s \in Stream, Reading(s) PROVE BindInv'
  <2>1. /\ UNCHANGED <<idle, nextPhysicalId, physical>> /\ UNCHANGED bindVars /\ flagged' \subseteq flagged
        /\ prod[s] \in Producing
        /\ \E place \in Producing \cup {"produced"} : prod' = [prod EXCEPT ![s] = place]
    BY <1>9, ReadingFacts DEF poolVars, bindVars
  <2>2. Producing \subseteq Bound \ {"spawnFailed"} /\ "produced" \in Bound
    BY DEF Bound, Producing
  <2> QED BY <1>e, <2>1, <2>2
<1>10. ASSUME NEW s \in Stream, Detach(s) PROVE BindInv'
  <2>1. /\ prod[s] = "produced" /\ prod' = [prod EXCEPT ![s] = "detached"]
        /\ slot' = [slot EXCEPT ![tokenOf[s]] = 0]
        /\ UNCHANGED <<idle, nextPhysicalId, physical, tokenOf, cancelled, reinterrupter, canceller, flagged>>
    BY <1>10 DEF Detach, poolVars
  <2>2. "produced" \in Bound
    BY DEF Bound
  <2> QED BY <1>f, <2>1, <2>2, BindEnds
<1>11. ASSUME NEW s \in Stream, DecideLease(s) PROVE BindInv'
  <2>1. /\ prod[s] = "detached" /\ prod' = [prod EXCEPT ![s] = "resolving"]
        /\ flagged' = flagged /\ UNCHANGED bindVars
        /\ Pool!BeginRelease(s) \/ Pool!Discard(s)
    BY <1>11 DEF DecideLease, tokenVars, bindVars
  <2>2. CASE Pool!BeginRelease(s)
    <3>1. idle' = idle /\ nextPhysicalId' = nextPhysicalId /\ physical' = physical
      BY <2>2 DEF Pool!BeginRelease, Pool!poolVars
    <3> QED BY <1>f, <1>h, <2>1, <3>1
  <2> QED BY <1>d, <2>1, <2>2
<1>12. ASSUME NEW s \in Stream, ResolveLease(s) PROVE BindInv'
  <2>0. /\ prod[s] \in {"resolving", "unwinding"} /\ prod' = prod /\ prod' = [prod EXCEPT ![s] = prod[s]]
        /\ flagged' = flagged \ {physical[s]} /\ UNCHANGED bindVars
    BY <1>0, <1>12 DEF ResolveLease, bindVars
  <2>f. prod[s] \in ProdState \ Bound /\ prod[s] \notin Bound
    BY <1>f, <2>0
  <2>1. CASE Pool!ReturnHealthy(s) /\ Pool!RoomForIdle
    <3>1. /\ idle' = Append(idle, physical[s]) /\ nextPhysicalId' = nextPhysicalId
          /\ pc[s] = "verifying" /\ physical' = [physical EXCEPT ![s] = 0]
      BY <2>1 DEF Pool!ReturnHealthy
    <3>2. physical[s] \in Nat \ {0} /\ nextPhysicalId' \in Nat /\ nextPhysicalId' >= nextPhysicalId
      BY <1>0, <3>1
    <3>3. \A i \in 1 .. Len(idle') : \/ \E j \in 1 .. Len(idle) : idle'[i] = idle[j]
                                     \/ idle'[i] = physical[s]
      BY <3>1, <3>2, GrownIdle
    <3>4. physical[s] \notin flagged' /\ flagged' \subseteq flagged
      BY <2>0
    <3> QED BY <2>0, <2>f, <3>1, <3>2, <3>3, <3>4, BindMovesFree
  <2>2. CASE Pool!ReturnHealthy(s) /\ ~Pool!RoomForIdle
    <3>1. idle' = idle /\ nextPhysicalId' = nextPhysicalId /\ physical' = physical
      BY <2>2 DEF Pool!ReturnHealthy
    <3> QED BY <1>h, <2>0, <2>f, <3>1
  <2>3. CASE Pool!Discard(s)
    BY <1>d, <2>0, <2>3
  <2>4. CASE Pool!Close(s)
    BY <1>c, <2>0, <2>4
  <2> QED BY <1>12, <2>1, <2>2, <2>3, <2>4 DEF ResolveLease
<1>13. ASSUME NEW s \in Stream, VerifyUnwinds(s) PROVE BindInv'
  <2>1. /\ prod[s] = "resolving" /\ prod' = [prod EXCEPT ![s] = "unwinding"] /\ Pool!Discard(s)
        /\ flagged' = flagged /\ UNCHANGED bindVars
    BY <1>13 DEF VerifyUnwinds, tokenVars, bindVars
  <2> QED BY <1>d, <2>1
<1>14. ASSUME NEW s \in Stream, PostCheck(s) \/ SendTerminal(s) \/ Unwound(s) PROVE BindInv'
  <2>1. /\ prod[s] \in {"resolving", "checked", "unwinding"}
        /\ \E place \in {"checked", "finished"} : prod' = [prod EXCEPT ![s] = place]
        /\ UNCHANGED <<poolVars, tokenVars>>
    BY <1>14 DEF PostCheck, SendTerminal, Unwound
  <2>2. UNCHANGED <<idle, nextPhysicalId, physical, flagged>> /\ UNCHANGED bindVars
    BY <2>1 DEF poolVars, tokenVars, bindVars
  <2> QED BY <1>f, <1>h, <2>1, <2>2
<1>15. ASSUME NEW s \in Stream, NEW k \in Cancel, CancelSwap(s, k) PROVE BindInv'
  <2>1. /\ cancelled' = [cancelled EXCEPT ![tokenOf[s]] = TRUE]
        /\ \E c \in {"again", "first"} : canceller' = [canceller EXCEPT ![s][k] = c]
        /\ UNCHANGED <<prod, idle, nextPhysicalId, physical, tokenOf, slot, flagged, reinterrupter>>
    BY <1>15 DEF CancelSwap, poolVars
  <2>2. tokenOf[s] \in Token /\ cancelled' \in [Token -> BOOLEAN]
    BY <1>t, <2>1
  <2>3. \A t \in Token : cancelled[t] => cancelled'[t]
    BY <1>t, <2>1
  <2>4. canceller' \in [Stream -> [Cancel -> CancelState]]
    BY <1>t, <2>1 DEF CancelState
  <2>5. cancelled'[tokenOf[s]]
    BY <1>t, <2>1, <2>2
  <2>6. \A r \in Stream, j \in Cancel : canceller'[r][j] # "idle" => cancelled'[tokenOf[r]]
    <3>1. \A r \in Stream, j \in Cancel : r # s => canceller'[r][j] = canceller[r][j]
      BY <1>t, <2>1
    <3>2. \A j \in Cancel : j # k => canceller'[s][j] = canceller[s][j]
      BY <1>t, <2>1
    <3>3. \A r \in Stream : tokenOf[r] \in Token
      BY <1>t
    <3> QED BY <1>t, <2>3, <2>5, <3>1, <3>2, <3>3
  <2> QED BY <1>t, <2>1, <2>2, <2>3, <2>4, <2>6, BindFrame
<1>16. ASSUME NEW s \in Stream, NEW k \in Cancel, CancelInterrupt(s, k) PROVE BindInv'
  <2>1. /\ canceller[s][k] \in {"first", "again"}
        /\ \E c \in {"firstPoked", "againPoked"} : canceller' = [canceller EXCEPT ![s][k] = c]
        /\ flagged' = flagged \cup ({slot[tokenOf[s]]} \ {0})
        /\ UNCHANGED <<prod, idle, nextPhysicalId, physical, tokenOf, cancelled, slot, reinterrupter>>
    BY <1>t, <1>16 DEF CancelInterrupt, poolVars
  <2>2. tokenOf[s] \in Token /\ cancelled[tokenOf[s]]
    BY <1>t, <2>1
  <2>3. canceller' \in [Stream -> [Cancel -> CancelState]]
    BY <1>t, <2>1 DEF CancelState
  <2>4. \A r \in Stream, j \in Cancel : canceller'[r][j] # "idle" => cancelled[tokenOf[r]]
    <3>1. \A r \in Stream, j \in Cancel : r # s => canceller'[r][j] = canceller[r][j]
      BY <1>t, <2>1
    <3>2. \A j \in Cancel : j # k => canceller'[s][j] = canceller[s][j]
      BY <1>t, <2>1
    <3> QED BY <1>t, <2>2, <3>1, <3>2
  <2> QED BY <2>1, <2>2, <2>3, <2>4, BindPokes
<1>17. ASSUME NEW s \in Stream, NEW k \in Cancel, CancelSpawn(s, k) PROVE BindInv'
  <2>1. /\ canceller[s][k] \in {"firstPoked", "againPoked"}
        /\ canceller' = [canceller EXCEPT ![s][k] = "done"]
        /\ \/ reinterrupter' = [reinterrupter EXCEPT ![tokenOf[s]] = "alive"]
           \/ reinterrupter' = reinterrupter
        /\ UNCHANGED <<prod, idle, nextPhysicalId, physical, tokenOf, cancelled, slot, flagged>>
    BY <1>t, <1>17 DEF CancelSpawn, poolVars
  <2>2. tokenOf[s] \in Token /\ cancelled[tokenOf[s]]
    BY <1>t, <2>1
  <2>3. canceller' \in [Stream -> [Cancel -> CancelState]]
    BY <1>t, <2>1 DEF CancelState
  <2>4. \A r \in Stream, j \in Cancel : canceller'[r][j] # "idle" => cancelled[tokenOf[r]]
    <3>1. \A r \in Stream, j \in Cancel : r # s => canceller'[r][j] = canceller[r][j]
      BY <1>t, <2>1
    <3>2. \A j \in Cancel : j # k => canceller'[s][j] = canceller[s][j]
      BY <1>t, <2>1
    <3> QED BY <1>t, <2>2, <3>1, <3>2
  <2>5. reinterrupter' \in [Token -> {"none", "alive", "stopped"}]
    BY <1>t, <2>1
  <2>6. \A t \in Token : reinterrupter'[t] = "alive" => cancelled[t]
    BY <1>t, <2>1, <2>2
  <2>7. /\ cancelled' \in [Token -> BOOLEAN] /\ \A t \in Token : cancelled[t] => cancelled'[t]
        /\ \A r \in Stream, j \in Cancel : canceller'[r][j] # "idle" => cancelled'[tokenOf[r]]
        /\ \A t \in Token : reinterrupter'[t] = "alive" => cancelled'[t]
    BY <1>t, <2>1, <2>4, <2>6
  <2> QED BY <2>1, <2>3, <2>5, <2>7, BindFrame
<1>18. ASSUME NEW t \in Token, Reinterrupt(t) PROVE BindInv'
  <2>1. /\ reinterrupter[t] = "alive" /\ cancelled[t]
        /\ UNCHANGED <<prod, idle, nextPhysicalId, physical, tokenOf, cancelled, slot, canceller>>
    BY <1>t, <1>18 DEF Reinterrupt, poolVars
  <2>2. CASE flagged' = flagged \cup {slot[t]} /\ UNCHANGED reinterrupter /\ slot[t] # 0
    <3>1. flagged' = flagged \cup ({slot[t]} \ {0})
      BY <2>2
    <3> QED BY <1>t, <2>1, <2>2, <3>1, BindPokes
  <2>3. CASE reinterrupter' = [reinterrupter EXCEPT ![t] = "stopped"] /\ UNCHANGED flagged
    <3>1. reinterrupter' \in [Token -> {"none", "alive", "stopped"}]
      BY <1>t, <2>3
    <3>2. \A u \in Token : reinterrupter'[u] = "alive" => cancelled'[u]
      BY <1>t, <2>1, <2>3
    <3> QED BY <1>t, <2>1, <2>3, <3>1, <3>2, BindFrame
  <2> QED BY <1>18, <2>2, <2>3 DEF Reinterrupt
<1>19. ASSUME UNCHANGED <<poolVars, tokenVars, prod>> PROVE BindInv'
  <2>1. UNCHANGED <<prod, idle, nextPhysicalId, physical, tokenOf, cancelled, slot, flagged, canceller, reinterrupter>>
    BY <1>19 DEF poolVars, tokenVars
  <2> QED BY <1>t, <2>1, BindFrame
<1>20. ASSUME NEW s \in Stream, ConsumerStep(s) PROVE BindInv'
  BY <1>19, <1>20 DEF ConsumerStep, Receive, ReceiveEnd
<1>21. CASE ChangeSource \/ UNCHANGED vars
  BY <1>19, <1>21 DEF ChangeSource, vars
<1> QED
  BY <1>1, <1>2, <1>3, <1>4, <1>5, <1>6, <1>7, <1>8, <1>9, <1>10, <1>11, <1>12, <1>13, <1>14, <1>15,
     <1>16, <1>17, <1>18, <1>20, <1>21
  DEF Next, OpenNext, ProducerStep, QueryStep, CancelStep, Reading

-----------------------------------------------------------------------------
\* A step that does none of the work, and once cancelled stays where that work has been done.
LEMMA LateStays ==
  ASSUME LeaseInv, LateInv, NEW s \in Stream, NEW place \in ProdState,
         prod' = [prod EXCEPT ![s] = place], UNCHANGED <<late, tokenOf, cancelled>>,
         resume' \in [Stream -> Resumption],
         \A w \in Work : prod[s] \in After(w) /\ cancelled[tokenOf[s]] => place \in After(w)
  PROVE  LateInv'
<1>1. \A r \in Stream : prod'[r] = IF r = s THEN place ELSE prod[r]
  BY DEF LeaseInv, LeaseTypes
<1>2. \A r \in Stream, w \in Work :
        late'[r][w] # 0 => cancelled'[tokenOf'[r]] /\ prod'[r] \in After(w)
  BY <1>1 DEF LateInv
<1> QED BY <1>2 DEF LateInv

\* A step that does a piece of work, which was not done late before.
LEMMA LateCounts ==
  ASSUME LeaseInv, LateInv, NEW s \in Stream, NEW place \in ProdState, NEW work \in Work,
         prod' = [prod EXCEPT ![s] = place], Counted(s, work), UNCHANGED <<tokenOf, cancelled>>,
         resume' \in [Stream -> Resumption], prod[s] \notin After(work),
         \A w \in Work : w = work \/ prod[s] \in After(w) => place \in After(w)
  PROVE  LateInv'
<1>1. \A r \in Stream : prod'[r] = IF r = s THEN place ELSE prod[r]
  BY DEF LeaseInv, LeaseTypes
<1>2. late[s][work] = 0 /\ late \in [Stream -> [Work -> 0 .. 1]]
  BY DEF LateInv
<1>3. CASE cancelled[tokenOf[s]]
  <2>1. late' = [late EXCEPT ![s] = [late[s] EXCEPT ![work] = 1]]
    BY <1>2, <1>3 DEF Counted, isCancelled
  <2>2. late' \in [Stream -> [Work -> 0 .. 1]]
    BY <1>2, <2>1
  <2>3. \A r \in Stream, w \in Work :
          late'[r][w] # 0 => late[r][w] # 0 \/ (r = s /\ w = work)
    BY <1>2, <2>1
  <2>4. \A r \in Stream, w \in Work :
          late'[r][w] # 0 => cancelled'[tokenOf'[r]] /\ prod'[r] \in After(w)
    BY <1>1, <1>3, <2>3 DEF LateInv
  <2> QED BY <2>2, <2>4 DEF LateInv
<1>4. CASE ~cancelled[tokenOf[s]]
  <2>1. late' = late
    BY <1>4 DEF Counted, isCancelled
  <2>2. \A w \in Work : late[s][w] = 0
    BY <1>4 DEF LateInv
  <2>3. \A r \in Stream, w \in Work :
          late'[r][w] # 0 => cancelled'[tokenOf'[r]] /\ prod'[r] \in After(w)
    BY <1>1, <2>1, <2>2 DEF LateInv
  <2> QED BY <2>1, <2>3 DEF LateInv
<1> QED BY <1>3, <1>4

\* Every step keeps the work after a cancel bounded.
LEMMA LateStep == LeaseInv /\ BindInv /\ LateInv /\ [Next]_vars => LateInv'
<1> SUFFICES ASSUME LeaseInv, BindInv, LateInv, [Next]_vars PROVE LateInv'
  OBVIOUS
<1>0. /\ prod \in [Stream -> ProdState] /\ \A s \in Stream : prod = [prod EXCEPT ![s] = prod[s]]
      /\ tokenOf \in [Stream -> Token] /\ cancelled \in [Token -> BOOLEAN]
  BY DEF LeaseInv, LeaseTypes, BindInv, BindTypes
<1>p. /\ Producing \cup Ending \cup Opening \cup {"refused", "finished"} = ProdState
      /\ \A w \in Work : Ending \cup {"builtOne", "finished"} \subseteq After(w)
      /\ \A w \in {"appended", "sent"} : {"rows", "fetchCheck", "building"} \subseteq After(w)
      /\ "appending" \in After("sent")
      /\ \A w \in Work : After(w) \cap (Producing \ {"builtOne", "rows", "fetchCheck", "building", "appending"}) = {}
      /\ \A w \in Work : Opening \cap After(w) = {}
      /\ {"rows", "fetchCheck", "building", "appending"} \cap After("built") = {}
      /\ "appending" \notin After("appended")
  BY DEF After, Work, ProdState, Opening, Producing, Ending
<1>q. "produced" \in Ending /\ {"appending", "rows", "fetchCheck", "building", "builtOne", "sending"} \subseteq Producing
      /\ Work = {"appended", "built", "sent"} /\ Resumption = {"appending", "rows", "fetchCheck", "produced"}
      /\ resume \in [Stream -> Resumption]
  BY DEF Ending, Producing, Work, Resumption, LateInv
<1> HIDE DEF After, Work, Resumption
<1>s. ASSUME NEW s \in Stream, NEW place \in ProdState, prod' = [prod EXCEPT ![s] = place],
             UNCHANGED <<late, tokenOf, cancelled>>, resume' \in [Stream -> Resumption],
             \A w \in Work : prod[s] \in After(w) /\ cancelled[tokenOf[s]] => place \in After(w)
      PROVE  LateInv'
  BY <1>s, LateStays
<1>u. ASSUME UNCHANGED <<prod, late, resume, tokenOf>>, \A t \in Token : cancelled[t] => cancelled'[t]
      PROVE  LateInv'
  BY <1>0, <1>u DEF LateInv
<1> USE DEF Goto, rowVars, tokenVars
<1>1. ASSUME NEW s \in Stream, OpenNext(s) PROVE LateInv'
  <2>1. /\ UNCHANGED <<late, resume, tokenOf, cancelled>>
        /\ \E place \in ProdState : prod' = [prod EXCEPT ![s] = place]
        /\ prod[s] \in Opening
    <3>1. CASE checkSourceUnchanged(s) \/ Acquire(s) \/ Configure(s)
      BY <3>1 DEF checkSourceUnchanged, Acquire, Configure, Opening, ProdState
    <3>2. CASE Attach(s) \/ Spawn(s) \/ SpawnFails(s)
      BY <3>2 DEF Attach, Spawn, SpawnFails, Opening, ProdState, Producing
    <3>3. CASE CloseDropped(s) \/ RefuseOpen(s)
      BY <1>0, <3>3 DEF CloseDropped, RefuseOpen, Opening, ProdState
    <3> QED BY <1>1, <3>1, <3>2, <3>3 DEF OpenNext
  <2>2. PICK place \in ProdState : prod' = [prod EXCEPT ![s] = place]
    BY <2>1
  <2>3. \A w \in Work : prod[s] \notin After(w)
    BY <1>p, <2>1
  <2>4. resume' \in [Stream -> Resumption]
    BY <1>q, <2>1
  <2> QED BY <1>s, <2>1, <2>2, <2>3, <2>4
\* The steps that do some of the work; each may also end produce.
<1>e. ASSUME NEW s \in Stream, prod' = [prod EXCEPT ![s] = "produced"],
             UNCHANGED <<late, resume, tokenOf, cancelled>>
      PROVE  LateInv'
  <2>1. "produced" \in ProdState /\ \A w \in Work : "produced" \in After(w)
    BY <1>p, <1>q
  <2>2. resume' \in [Stream -> Resumption]
    BY <1>e, <1>q
  <2> QED BY <1>e, <1>s, <2>1, <2>2
<1>2. ASSUME NEW s \in Stream, FlushBuild(s) PROVE LateInv'
  <2>0. prod[s] = "building" /\ UNCHANGED <<resume, tokenOf, cancelled>>
    BY <1>2 DEF FlushBuild
  <2>1. CASE Counted(s, "built") /\ prod' = [prod EXCEPT ![s] = "builtOne"]
    <3>1. "built" \in Work /\ "builtOne" \in ProdState /\ \A w \in Work : "builtOne" \in After(w)
      BY <1>p, <1>q
    <3>2. prod[s] \notin After("built") /\ resume' \in [Stream -> Resumption]
      BY <1>p, <1>q, <2>0
    <3> QED BY <2>0, <2>1, <3>1, <3>2, LateCounts
  <2>2. CASE prod' = [prod EXCEPT ![s] = "produced"] /\ UNCHANGED late
    BY <1>e, <2>0, <2>2
  <2> QED BY <1>2, <2>1, <2>2 DEF FlushBuild, Return
<1>3. ASSUME NEW s \in Stream, FlushSend(s) PROVE LateInv'
  <2>0. prod[s] = "sending" /\ UNCHANGED <<resume, tokenOf, cancelled>>
    BY <1>3 DEF FlushSend
  <2>1. CASE Counted(s, "sent") /\ \E place \in Resumption : prod' = [prod EXCEPT ![s] = place]
    <3>1. PICK place \in Resumption : prod' = [prod EXCEPT ![s] = place]
      BY <2>1
    <3>2. place \in ProdState /\ place \in After("sent")
      BY <1>p, <1>q
    <3>3. \A w \in Work : prod[s] \notin After(w)
      BY <1>p, <1>q, <2>0
    <3> QED BY <1>q, <2>0, <2>1, <3>1, <3>2, <3>3, LateCounts
  <2>2. CASE prod' = [prod EXCEPT ![s] = "produced"] /\ UNCHANGED late
    BY <1>e, <2>0, <2>2
  <2>3. resume[s] \in Resumption /\ "produced" \in Resumption
    BY <1>q
  <2> QED BY <1>3, <2>1, <2>2, <2>3 DEF FlushSend, Return
<1>4. ASSUME NEW s \in Stream, AppendRow(s) PROVE LateInv'
  <2>0. prod[s] = "appending" /\ UNCHANGED <<tokenOf, cancelled>>
    BY <1>4 DEF AppendRow
  <2>1. resume' \in [Stream -> Resumption]
    <3>1. resume' = resume \/ resume' = [resume EXCEPT ![s] = "rows"]
      BY <1>4 DEF AppendRow, Cut
    <3> QED BY <1>q, <3>1
  <2>2. CASE Counted(s, "appended") /\ \E place \in {"rows", "building"} : prod' = [prod EXCEPT ![s] = place]
    <3>1. PICK place \in {"rows", "building"} : prod' = [prod EXCEPT ![s] = place]
      BY <2>2
    <3>2. place \in ProdState /\ place \in After("appended") /\ place \in After("sent")
      BY <1>p, <1>q
    <3>3. prod[s] \notin After("appended") /\ prod[s] \notin After("built")
      BY <1>p, <2>0
    <3>4. \A w \in Work : w = "appended" \/ prod[s] \in After(w) => place \in After(w)
      BY <1>q, <3>2, <3>3
    <3> QED BY <1>q, <2>0, <2>1, <2>2, <3>1, <3>2, <3>3, <3>4, LateCounts
  <2>3. CASE prod' = [prod EXCEPT ![s] = "produced"] /\ UNCHANGED <<resume, late>>
    BY <1>e, <2>0, <2>3
  <2> QED BY <1>4, <2>2, <2>3 DEF AppendRow, Cut, Return
<1>9. ASSUME NEW s \in Stream, Reading(s), ~FlushBuild(s), ~FlushSend(s), ~AppendRow(s) PROVE LateInv'
  <2>0. /\ UNCHANGED <<tokenOf, cancelled>> /\ prod[s] \in Producing
        /\ \E place \in Producing \cup {"produced"} : prod' = [prod EXCEPT ![s] = place]
    BY <1>9, ReadingFacts
  <2>n. \E place \in ProdState : prod' = [prod EXCEPT ![s] = place]
    BY <1>p, <1>q, <2>0
  <2>1. /\ UNCHANGED <<late, tokenOf, cancelled>>
        /\ UNCHANGED resume \/ \E place \in Resumption : resume' = [resume EXCEPT ![s] = place]
    BY <1>9, <1>q, <2>0 DEF Reading, Start, Prepare, OpenWindow, CheckWindow, BeginExecute, ExecuteInterrupted,
       ExecuteReturns, CloseWindow, AfterExecute, FetchCheck, FetchInterrupted, FetchReturns, Fetched,
       FetchRefused, FetchFailed, Row, ChunkDone, Cut, StreamEnd, FlushCheck
  <2>2. resume' \in [Stream -> Resumption]
    BY <1>q, <2>1
  <2>3. CASE \A w \in Work : prod[s] \notin After(w)
    <3>1. PICK place \in ProdState : prod' = [prod EXCEPT ![s] = place]
      BY <2>n
    <3> QED BY <1>s, <2>1, <2>2, <2>3, <3>1
  <2>4. CASE prod[s] \in {"rows", "fetchCheck", "builtOne"}
    <3>1. FetchCheck(s) \/ Row(s) \/ ChunkDone(s) \/ FlushCheck(s)
      BY <1>9, <2>4 DEF Reading, Start, Prepare, OpenWindow, CheckWindow, BeginExecute, ExecuteInterrupted,
         ExecuteReturns, CloseWindow, AfterExecute, FetchInterrupted, FetchReturns, Fetched,
         FetchRefused, FetchFailed, StreamEnd
    <3>2. cancelled[tokenOf[s]] =>
             \/ prod' = [prod EXCEPT ![s] = "produced"]
             \/ prod[s] = "rows" /\ \E place \in {"fetchCheck", "building"} : prod' = [prod EXCEPT ![s] = place]
      BY <3>1 DEF FetchCheck, Row, ChunkDone, Cut, FlushCheck, isCancelled, Return
    <3>3. CASE cancelled[tokenOf[s]]
      <4>1. CASE prod' = [prod EXCEPT ![s] = "produced"]
        BY <1>p, <1>q, <1>s, <2>1, <2>2, <4>1
      <4>2. CASE prod[s] = "rows" /\ \E place \in {"fetchCheck", "building"} : prod' = [prod EXCEPT ![s] = place]
        <5>1. PICK place \in {"fetchCheck", "building"} : prod' = [prod EXCEPT ![s] = place]
          BY <4>2
        <5>2. \A w \in Work : prod[s] \in After(w) => place \in After(w)
          BY <1>p, <1>q, <4>2
        <5> QED BY <1>p, <1>q, <1>s, <2>1, <2>2, <5>1, <5>2
      <4> QED BY <3>2, <3>3, <4>1, <4>2
    <3>4. CASE ~cancelled[tokenOf[s]]
      <4>1. PICK place \in ProdState : prod' = [prod EXCEPT ![s] = place]
        BY <2>n
      <4> QED BY <1>s, <2>1, <2>2, <3>4, <4>1
    <3> QED BY <3>3, <3>4
  <2>5. prod[s] \notin {"building", "appending"}
    BY <1>9 DEF Reading, Start, Prepare, OpenWindow, CheckWindow, BeginExecute, ExecuteInterrupted,
       ExecuteReturns, CloseWindow, AfterExecute, FetchCheck, FetchInterrupted, FetchReturns, Fetched,
       FetchRefused, FetchFailed, Row, ChunkDone, StreamEnd, FlushCheck
  <2> QED BY <1>p, <2>0, <2>3, <2>4, <2>5
<1>5. ASSUME NEW s \in Stream, Detach(s) \/ DecideLease(s) \/ ResolveLease(s) \/ VerifyUnwinds(s)
                                \/ PostCheck(s) \/ SendTerminal(s) \/ Unwound(s)
      PROVE  LateInv'
  <2>1. /\ UNCHANGED <<late, resume, tokenOf, cancelled>>
        /\ \E place \in Ending \cup {"finished"} : prod' = [prod EXCEPT ![s] = place]
    <3>1. CASE Detach(s) \/ DecideLease(s) \/ VerifyUnwinds(s)
      BY <3>1 DEF Detach, DecideLease, VerifyUnwinds, Ending
    <3>2. CASE ResolveLease(s)
      BY <1>0, <3>2 DEF ResolveLease, Ending
    <3>3. CASE PostCheck(s) \/ SendTerminal(s) \/ Unwound(s)
      BY <3>3 DEF PostCheck, SendTerminal, Unwound, Ending
    <3> QED BY <1>5, <3>1, <3>2, <3>3
  <2>2. PICK place \in Ending \cup {"finished"} : prod' = [prod EXCEPT ![s] = place]
    BY <2>1
  <2>3. place \in ProdState /\ \A w \in Work : place \in After(w)
    BY <1>p, <2>2
  <2>4. resume' \in [Stream -> Resumption]
    BY <1>q, <2>1
  <2> QED BY <1>s, <2>1, <2>2, <2>3, <2>4
<1>6. ASSUME NEW s \in Stream, NEW k \in Cancel, CancelSwap(s, k) PROVE LateInv'
  <2>1. UNCHANGED <<prod, late, resume, tokenOf>> /\ cancelled' = [cancelled EXCEPT ![tokenOf[s]] = TRUE]
    BY <1>6 DEF CancelSwap
  <2>2. \A t \in Token : cancelled[t] => cancelled'[t]
    BY <1>0, <2>1
  <2> QED BY <1>u, <2>1, <2>2
<1>7. ASSUME NEW s \in Stream, ConsumerStep(s) \/ \E k \in Cancel : CancelStep(s, k) PROVE LateInv'
  <2>1. UNCHANGED <<prod, late, resume, tokenOf, cancelled>>
    BY <1>7 DEF ConsumerStep, Receive, ReceiveEnd, CancelStep, CancelInterrupt, CancelSpawn
  <2> QED BY <1>u, <2>1
<1>8. CASE (\E t \in Token : Reinterrupt(t)) \/ ChangeSource \/ UNCHANGED vars
  <2>1. UNCHANGED <<prod, late, resume, tokenOf, cancelled>>
    BY <1>8 DEF Reinterrupt, ChangeSource, vars
  <2> QED BY <1>u, <2>1
<1> QED
  BY <1>1, <1>2, <1>3, <1>4, <1>5, <1>6, <1>7, <1>8, <1>9 DEF Next, ProducerStep, QueryStep, Reading

-----------------------------------------------------------------------------
\* A producer that has not finished moves: nothing but batches is in its channel, and nobody has
\* seen its end.
LEMMA EndMoves ==
  ASSUME LeaseInv, BindInv, EndInv, NEW s \in Stream, NEW place \in ProdState, prod[s] # "finished",
         place # "finished", prod' = [prod EXCEPT ![s] = place],
         \/ queue' = queue
         \/ queue' = [queue EXCEPT ![s] = Append(@, "batch")],
         NEW o \in {"none", "ok", "cancelled", "error"}, outcome' = [outcome EXCEPT ![s] = o],
         place \in Ending => o # "none", o = "cancelled" => cancelled[tokenOf[s]],
         recorded' \in [Stream -> BOOLEAN], \A r \in Stream : r # s => recorded'[r] = recorded[r],
         NEW c \in {"none", "open", "over", "dropping", "dropped"}, cons' = [cons EXCEPT ![s] = c],
         c \in {"open", cons[s]},
         UNCHANGED <<seen, changed, changedRead, tokenOf, cancelled>>
  PROVE  EndInv'
<1>0. /\ \A r \in Stream : /\ prod'[r] = IF r = s THEN place ELSE prod[r]
                           /\ outcome'[r] = IF r = s THEN o ELSE outcome[r]
                           /\ cons'[r] = IF r = s THEN c ELSE cons[r]
      /\ \A r \in Stream : r # s => TerminalOf(r)' = TerminalOf(r)
  BY DEF LeaseInv, LeaseTypes, EndInv, EndTypes, TerminalOf
<1>1. queue \in [Stream -> Seq(Terminal \cup {"batch"})] /\ queue[s] \in Seq(Terminal \cup {"batch"})
      /\ Len(queue[s]) \in Nat
  BY LenProperties DEF EndInv, EndTypes
<1>2. /\ \A r \in Stream : r # s => queue'[r] = queue[r]
      /\ queue'[s] \in {queue[s], Append(queue[s], "batch")}
  BY <1>1
<1>3. /\ Append(queue[s], "batch") \in Seq(Terminal \cup {"batch"})
      /\ Len(Append(queue[s], "batch")) = Len(queue[s]) + 1
      /\ \A i \in 1 .. Len(queue[s]) : Append(queue[s], "batch")[i] = queue[s][i]
      /\ Append(queue[s], "batch")[Len(queue[s]) + 1] = "batch"
  BY <1>1, AppendProperties
<1>4. \A i \in 1 .. Len(queue[s]) : queue[s][i] = "batch"
  BY DEF EndInv, TerminalIsLast
<1>5. \A i \in 1 .. Len(queue'[s]) : queue'[s][i] = "batch"
  <2>1. CASE queue'[s] = queue[s]
    BY <1>4, <2>1
  <2>2. CASE queue'[s] = Append(queue[s], "batch")
    <3>1. \A i \in 1 .. Len(queue[s]) + 1 : i \in 1 .. Len(queue[s]) \/ i = Len(queue[s]) + 1
      BY <1>1
    <3> QED BY <1>3, <1>4, <2>2, <3>1
  <2> QED BY <1>2, <2>1, <2>2
<1>6. seen[s] \notin Terminal \cup {"ok"}
  BY DEF EndInv, TerminalIsLast
<1>7. queue' \in [Stream -> Seq(Terminal \cup {"batch"})]
  BY <1>1, <1>3
<1>8. EndTypes'
  BY <1>7 DEF EndInv, EndTypes
<1>9. CancelledIsCancelled'
  BY <1>0 DEF EndInv, CancelledIsCancelled
<1>10. TerminalIsLast'
  <2>1. ASSUME NEW r \in Stream, r # s
        PROVE  /\ \A i \in 1 .. Len(queue'[r]) : queue'[r][i] # "batch" =>
                     prod'[r] = "finished" /\ queue'[r][i] = TerminalOf(r)' /\ i = Len(queue'[r])
               /\ seen'[r] \in Terminal => prod'[r] = "finished" /\ seen'[r] = TerminalOf(r)'
               /\ seen'[r] = "ok" => prod'[r] = "finished"
    BY <1>0, <1>2, <2>1 DEF EndInv, TerminalIsLast
  <2> QED BY <1>5, <1>6, <2>1 DEF TerminalIsLast
<1>11. OutcomeIsThere'
  BY <1>0 DEF EndInv, OutcomeIsThere
<1> QED BY <1>8, <1>9, <1>10, <1>11 DEF EndInv

\* The terminal of a stream that has an outcome is its outcome or the change of its source.
LEMMA TerminalKinds ==
  ASSUME EndInv, NEW s \in Stream, outcome[s] # "none"
  PROVE  TerminalOf(s) \in Terminal \cup {"ok"}
BY DEF EndInv, EndTypes, TerminalOf, Terminal

\* The producer's last step puts the terminal behind the batches, or drops the channel.
LEMMA EndSends ==
  ASSUME LeaseInv, BindInv, EndInv, NEW s \in Stream, prod[s] \in {"checked", "unwinding"},
         prod' = [prod EXCEPT ![s] = "finished"],
         \/ queue' = queue
         \/ TerminalOf(s) # "ok" /\ queue' = [queue EXCEPT ![s] = Append(@, TerminalOf(s))],
         UNCHANGED <<outcome, recorded, cons, seen, changed, changedRead, tokenOf, cancelled>>
  PROVE  /\ EndInv'
         /\ queue' # queue => queue'[s] # <<>> /\ queue'[s][Len(queue'[s])] = TerminalOf(s)
<1>0. /\ \A r \in Stream : prod'[r] = IF r = s THEN "finished" ELSE prod[r]
      /\ \A r \in Stream : TerminalOf(r)' = TerminalOf(r)
  BY DEF LeaseInv, LeaseTypes, TerminalOf
<1>1. queue \in [Stream -> Seq(Terminal \cup {"batch"})] /\ queue[s] \in Seq(Terminal \cup {"batch"})
      /\ Len(queue[s]) \in Nat
  BY LenProperties DEF EndInv, EndTypes
<1>2. outcome[s] # "none" /\ TerminalOf(s) \in Terminal \cup {"ok"}
  <2>1. outcome[s] # "none"
    BY DEF EndInv, OutcomeIsThere, Ending
  <2> QED BY <2>1, TerminalKinds
<1>3. \A i \in 1 .. Len(queue[s]) : queue[s][i] = "batch"
  BY DEF EndInv, TerminalIsLast
<1>4. seen[s] \notin Terminal \cup {"ok"}
  BY DEF EndInv, TerminalIsLast
<1>5. CASE queue' = queue
  <2>1. EndTypes' /\ CancelledIsCancelled'
    BY <1>5 DEF EndInv, EndTypes, CancelledIsCancelled
  <2>2. TerminalIsLast'
    BY <1>0, <1>3, <1>4, <1>5 DEF EndInv, TerminalIsLast
  <2>3. OutcomeIsThere'
    BY <1>0, <1>2 DEF EndInv, OutcomeIsThere
  <2> QED BY <1>5, <2>1, <2>2, <2>3 DEF EndInv
<1>6. CASE TerminalOf(s) # "ok" /\ queue' = [queue EXCEPT ![s] = Append(@, TerminalOf(s))]
  <2>0. TerminalOf(s) \in Terminal /\ TerminalOf(s) \in Terminal \cup {"batch"}
    BY <1>2, <1>6
  <2>1. /\ queue'[s] = Append(queue[s], TerminalOf(s)) /\ queue'[s] \in Seq(Terminal \cup {"batch"})
        /\ Len(queue'[s]) = Len(queue[s]) + 1
        /\ \A i \in 1 .. Len(queue[s]) : queue'[s][i] = queue[s][i]
        /\ queue'[s][Len(queue[s]) + 1] = TerminalOf(s)
    BY <1>1, <1>6, <2>0, AppendProperties
  <2>2. \A r \in Stream : r # s => queue'[r] = queue[r]
    BY <1>1, <1>6
  <2>3. queue' \in [Stream -> Seq(Terminal \cup {"batch"})]
    BY <1>1, <1>6, <2>1
  <2>4. EndTypes' /\ CancelledIsCancelled'
    BY <2>3 DEF EndInv, EndTypes, CancelledIsCancelled
  <2>5. \A i \in 1 .. Len(queue'[s]) : i \in 1 .. Len(queue[s]) \/ i = Len(queue[s]) + 1
    BY <1>1, <2>1
  <2>6. \A i \in 1 .. Len(queue'[s]) : queue'[s][i] # "batch" =>
                     prod'[s] = "finished" /\ queue'[s][i] = TerminalOf(s)' /\ i = Len(queue'[s])
    BY <1>0, <1>3, <2>1, <2>5
  <2>7. TerminalIsLast'
    BY <1>0, <1>4, <2>2, <2>6 DEF EndInv, TerminalIsLast
  <2>8. OutcomeIsThere'
    BY <1>0, <1>2 DEF EndInv, OutcomeIsThere
  <2>9. queue'[s] # <<>>
    <3>1. Len(queue'[s]) # 0
      BY <1>1, <2>1
    <3>2. Len(<<>>) = 0
      BY EmptySeq
    <3> QED BY <3>1, <3>2, Zenon
  <2> QED BY <2>1, <2>4, <2>7, <2>8, <2>9 DEF EndInv
<1> QED BY <1>5, <1>6

\* What is in the channel once its first item is taken.
LEMMA TakenQueue ==
  ASSUME EndInv, NEW s \in Stream, queue[s] # <<>>, queue' = [queue EXCEPT ![s] = Tail(@)]
  PROVE  /\ queue' \in [Stream -> Seq(Terminal \cup {"batch"})]
         /\ \A r \in Stream : r # s => queue'[r] = queue[r]
         /\ Len(queue[s]) \in Nat \ {0} /\ Len(queue'[s]) = Len(queue[s]) - 1
         /\ Head(queue[s]) = queue[s][1] /\ queue[s][1] \in Terminal \cup {"batch"}
         /\ \A i \in 1 .. Len(queue'[s]) : /\ i + 1 \in 1 .. Len(queue[s]) /\ i \in Nat
                                           /\ queue'[s][i] = queue[s][i + 1]
<1>1. queue \in [Stream -> Seq(Terminal \cup {"batch"})] /\ queue[s] \in Seq(Terminal \cup {"batch"})
  BY DEF EndInv, EndTypes
<1>2. Len(queue[s]) \in Nat \ {0}
  BY <1>1, EmptySeq
<1>3. /\ Tail(queue[s]) \in Seq(Terminal \cup {"batch"}) /\ Len(Tail(queue[s])) = Len(queue[s]) - 1
      /\ \A i \in 1 .. Len(Tail(queue[s])) : Tail(queue[s])[i] = queue[s][i + 1]
  BY <1>1, HeadTailProperties
<1>4. queue'[s] = Tail(queue[s]) /\ \A r \in Stream : r # s => queue'[r] = queue[r]
  BY <1>1
<1>5. queue' \in [Stream -> Seq(Terminal \cup {"batch"})]
  BY <1>1, <1>3
<1>6. Head(queue[s]) = queue[s][1]
  BY <1>1, <1>2
<1>7. queue[s][1] \in Terminal \cup {"batch"}
  <2>1. 1 \in 1 .. Len(queue[s])
    BY <1>2
  <2> QED BY <1>1, <2>1, ElementOfSeq
<1>8. \A i \in 1 .. Len(queue[s]) - 1 : i + 1 \in 1 .. Len(queue[s]) /\ i \in Nat
  BY <1>2
<1> QED BY <1>2, <1>3, <1>4, <1>5, <1>6, <1>7, <1>8

\* The consumer or a canceller acts: what is left in a channel is the end of what was in it, and
\* a terminal is seen only once its producer has finished.
LEMMA EndSees ==
  ASSUME LeaseInv, BindInv, EndInv, NEW s \in Stream,
         queue' \in [Stream -> Seq(Terminal \cup {"batch"})],
         \A r \in Stream : r # s => queue'[r] = queue[r],
         \A i \in 1 .. Len(queue'[s]) : queue'[s][i] # "batch" =>
              prod[s] = "finished" /\ queue'[s][i] = TerminalOf(s) /\ i = Len(queue'[s]),
         NEW c \in {"none", "open", "over", "dropping", "dropped"}, cons' = [cons EXCEPT ![s] = c],
         NEW x \in Terminal \cup {"none", "ok", "ipc"}, seen' = [seen EXCEPT ![s] = x],
         x \in Terminal => prod[s] = "finished" /\ x = TerminalOf(s),
         x = "ok" => prod[s] = "finished",
         \A t \in Token : cancelled[t] => cancelled'[t],
         c \in {"dropping", "dropped"} => cancelled'[tokenOf[s]],
         UNCHANGED <<prod, outcome, recorded, changed, changedRead, tokenOf>>
  PROVE  EndInv'
<1>0. /\ \A r \in Stream : TerminalOf(r)' = TerminalOf(r)
      /\ \A r \in Stream : /\ cons'[r] = IF r = s THEN c ELSE cons[r]
                           /\ seen'[r] = IF r = s THEN x ELSE seen[r]
      /\ \A r \in Stream : tokenOf[r] \in Token
  BY DEF TerminalOf, EndInv, EndTypes, BindInv, BindTypes
<1>1. EndTypes'
  BY DEF EndInv, EndTypes
<1>2. CancelledIsCancelled'
  BY <1>0 DEF EndInv, CancelledIsCancelled
<1>3. TerminalIsLast'
  <2>1. ASSUME NEW r \in Stream, r # s
        PROVE  /\ \A i \in 1 .. Len(queue'[r]) : queue'[r][i] # "batch" =>
                     prod'[r] = "finished" /\ queue'[r][i] = TerminalOf(r)' /\ i = Len(queue'[r])
               /\ seen'[r] \in Terminal => prod'[r] = "finished" /\ seen'[r] = TerminalOf(r)'
               /\ seen'[r] = "ok" => prod'[r] = "finished"
    BY <1>0, <2>1 DEF EndInv, TerminalIsLast
  <2>2. /\ \A i \in 1 .. Len(queue'[s]) : queue'[s][i] # "batch" =>
                     prod'[s] = "finished" /\ queue'[s][i] = TerminalOf(s)' /\ i = Len(queue'[s])
        /\ seen'[s] \in Terminal => prod'[s] = "finished" /\ seen'[s] = TerminalOf(s)'
        /\ seen'[s] = "ok" => prod'[s] = "finished"
    BY <1>0
  <2> QED BY <2>1, <2>2 DEF TerminalIsLast
<1>4. OutcomeIsThere'
  BY DEF EndInv, OutcomeIsThere
<1> QED BY <1>1, <1>2, <1>3, <1>4 DEF EndInv

\* Every step keeps the end what it is.
LEMMA EndStep == LeaseInv /\ BindInv /\ EndInv /\ [Next]_vars => EndInv'
<1> SUFFICES ASSUME LeaseInv, BindInv, EndInv, [Next]_vars PROVE EndInv'
  OBVIOUS
<1>0. /\ prod \in [Stream -> ProdState] /\ tokenOf \in [Stream -> Token] /\ cancelled \in [Token -> BOOLEAN]
      /\ outcome \in [Stream -> {"none", "ok", "cancelled", "error"}]
      /\ queue \in [Stream -> Seq(Terminal \cup {"batch"})]
      /\ cons \in [Stream -> {"none", "open", "over", "dropping", "dropped"}]
      /\ seen \in [Stream -> Terminal \cup {"none", "ok", "ipc"}]
      /\ recorded \in [Stream -> BOOLEAN]
      /\ \A s \in Stream : outcome[s] = "cancelled" => cancelled[tokenOf[s]]
      /\ \A s \in Stream : cons[s] \in {"dropping", "dropped"} => cancelled[tokenOf[s]]
      /\ \A s \in Stream : prod[s] \in Ending => outcome[s] # "none"
  BY DEF LeaseInv, LeaseTypes, BindInv, BindTypes, EndInv, EndTypes, CancelledIsCancelled, OutcomeIsThere
<1>k. ASSUME NEW s \in Stream
      PROVE  /\ outcome = [outcome EXCEPT ![s] = outcome[s]] /\ recorded = [recorded EXCEPT ![s] = recorded[s]]
             /\ cons = [cons EXCEPT ![s] = cons[s]] /\ seen = [seen EXCEPT ![s] = seen[s]]
             /\ prod = [prod EXCEPT ![s] = prod[s]]
             /\ outcome[s] \in {"none", "ok", "cancelled", "error"} /\ recorded[s] \in BOOLEAN
             /\ cons[s] \in {"none", "open", "over", "dropping", "dropped"}
             /\ seen[s] \in Terminal \cup {"none", "ok", "ipc"}
  BY <1>0
<1>m. ASSUME NEW s \in Stream, NEW place \in ProdState, prod[s] # "finished", place # "finished",
             prod' = [prod EXCEPT ![s] = place], place \in Ending => prod[s] \in Ending,
             UNCHANGED <<queue, outcome, recorded, cons, seen, changed, changedRead, tokenOf, cancelled>>
      PROVE  EndInv'
  <2>1. /\ outcome' = [outcome EXCEPT ![s] = outcome[s]] /\ cons' = [cons EXCEPT ![s] = cons[s]]
        /\ recorded' \in [Stream -> BOOLEAN] /\ \A r \in Stream : r # s => recorded'[r] = recorded[r]
        /\ place \in Ending => outcome[s] # "none"
        /\ outcome[s] = "cancelled" => cancelled[tokenOf[s]]
        /\ outcome[s] \in {"none", "ok", "cancelled", "error"}
        /\ cons[s] \in {"none", "open", "over", "dropping", "dropped"} /\ cons[s] \in {"open", cons[s]}
    BY <1>0, <1>k, <1>m
  <2> QED BY <1>m, <2>1, EndMoves
<1> USE DEF Goto, rowVars, tokenVars, consVars, sourceVars
<1>1. ASSUME NEW s \in Stream, OpenNext(s), ~Spawn(s) PROVE EndInv'
  <2>1. /\ UNCHANGED <<queue, outcome, recorded, cons, seen, changed, changedRead, tokenOf, cancelled>>
        /\ \E place \in ProdState : prod' = [prod EXCEPT ![s] = place] /\ place \notin Ending \cup {"finished"}
        /\ prod[s] \in Opening
    <3>1. CASE checkSourceUnchanged(s) \/ Acquire(s) \/ Configure(s)
      BY <3>1 DEF checkSourceUnchanged, Acquire, Configure, Opening, ProdState, Ending
    <3>2. CASE Attach(s) \/ SpawnFails(s)
      BY <3>2 DEF Attach, SpawnFails, Opening, ProdState, Ending
    <3>3. CASE CloseDropped(s) \/ RefuseOpen(s)
      BY <1>0, <3>3 DEF CloseDropped, RefuseOpen, Opening, ProdState, Ending
    <3> QED BY <1>1, <3>1, <3>2, <3>3 DEF OpenNext
  <2>2. prod[s] # "finished"
    BY <2>1 DEF Opening
  <2> QED BY <1>m, <2>1, <2>2
<1>2. ASSUME NEW s \in Stream, Spawn(s) PROVE EndInv'
  <2>1. /\ prod' = [prod EXCEPT ![s] = "starting"] /\ cons' = [cons EXCEPT ![s] = "open"]
        /\ prod[s] = "spawning"
        /\ UNCHANGED <<queue, outcome, recorded, seen, changed, changedRead, tokenOf, cancelled>>
    BY <1>2 DEF Spawn
  <2>2. "starting" \in ProdState /\ "starting" \notin Ending \cup {"finished"}
    BY DEF ProdState, Producing, Ending
  <2> QED BY <1>0, <1>k, <2>1, <2>2, EndMoves
<1>3. ASSUME NEW s \in Stream, Reading(s) PROVE EndInv'
  <2>1. /\ prod[s] \in Producing
        /\ UNCHANGED <<tokenOf, cancelled, cons, seen, recorded, changed, changedRead>>
        /\ \/ queue' = queue
           \/ queue' = [queue EXCEPT ![s] = Append(@, "batch")]
    BY <1>3, ReadingFacts
  <2>2. "finished" \notin Producing /\ Producing \cap Ending = {} /\ Producing \subseteq ProdState
    BY DEF Producing, Ending, ProdState
  <2>c. /\ cons' = [cons EXCEPT ![s] = cons[s]]
        /\ cons[s] \in {"none", "open", "over", "dropping", "dropped"} /\ cons[s] \in {"open", cons[s]}
        /\ recorded' \in [Stream -> BOOLEAN] /\ \A r \in Stream : r # s => recorded'[r] = recorded[r]
    BY <1>0, <1>k, <2>1
  <2>3. CASE \E place \in Producing : prod' = [prod EXCEPT ![s] = place] /\ UNCHANGED outcome
    <3>1. /\ outcome' = [outcome EXCEPT ![s] = outcome[s]] /\ prod[s] # "finished"
          /\ outcome[s] = "cancelled" => cancelled[tokenOf[s]]
          /\ outcome[s] \in {"none", "ok", "cancelled", "error"}
      BY <1>0, <1>k, <2>1, <2>2, <2>3
    <3>2. \A place \in Producing : place \in ProdState /\ place # "finished" /\ place \notin Ending
      BY <2>2
    <3> QED BY <2>1, <2>3, <2>c, <3>1, <3>2, EndMoves
  <2>4. ASSUME NEW o \in {"ok", "cancelled", "error"}, prod' = [prod EXCEPT ![s] = "produced"],
               outcome' = [outcome EXCEPT ![s] = o], o = "cancelled" => isCancelled(s) \/ cons[s] = "dropped"
        PROVE  EndInv'
    <3>1. o = "cancelled" => cancelled[tokenOf[s]]
      BY <1>0, <2>4 DEF isCancelled
    <3>2. /\ "produced" \in ProdState /\ "produced" # "finished" /\ prod[s] # "finished"
          /\ o \in {"none", "ok", "cancelled", "error"} /\ o # "none"
      BY <2>1, <2>2 DEF ProdState, Ending
    <3> QED BY <2>1, <2>4, <2>c, <3>1, <3>2, EndMoves
  <2> QED BY <1>3, <2>3, <2>4, ReadingFacts
<1>4. ASSUME NEW s \in Stream, Detach(s) \/ DecideLease(s) \/ ResolveLease(s) \/ VerifyUnwinds(s) PROVE EndInv'
  <2>1. /\ prod[s] \in Ending
        /\ UNCHANGED <<queue, outcome, recorded, cons, seen, changed, changedRead, tokenOf, cancelled>>
        /\ \E place \in Ending : prod' = [prod EXCEPT ![s] = place]
    <3>1. CASE Detach(s) \/ DecideLease(s) \/ VerifyUnwinds(s)
      BY <3>1 DEF Detach, DecideLease, VerifyUnwinds, Ending
    <3>2. CASE ResolveLease(s)
      BY <1>0, <3>2 DEF ResolveLease, Ending
    <3> QED BY <1>4, <3>1, <3>2
  <2>2. "finished" \notin Ending /\ Ending \subseteq ProdState
    BY DEF Ending, ProdState
  <2> QED BY <1>m, <2>1, <2>2
<1>5. ASSUME NEW s \in Stream, PostCheck(s) PROVE EndInv'
  <2>1. /\ prod[s] = "resolving" /\ prod' = [prod EXCEPT ![s] = "checked"]
        /\ recorded' = [recorded EXCEPT ![s] = changed]
        /\ UNCHANGED <<queue, outcome, cons, seen, changed, changedRead, tokenOf, cancelled>>
    BY <1>5 DEF PostCheck
  <2>2. "checked" \in ProdState /\ prod[s] \in Ending /\ changed \in BOOLEAN
    BY <2>1 DEF Ending, ProdState, EndInv, EndTypes
  <2>3. /\ outcome' = [outcome EXCEPT ![s] = outcome[s]] /\ cons' = [cons EXCEPT ![s] = cons[s]]
        /\ recorded' \in [Stream -> BOOLEAN] /\ \A r \in Stream : r # s => recorded'[r] = recorded[r]
        /\ outcome[s] # "none" /\ prod[s] # "finished" /\ "checked" # "finished"
        /\ outcome[s] = "cancelled" => cancelled[tokenOf[s]]
        /\ outcome[s] \in {"none", "ok", "cancelled", "error"}
        /\ cons[s] \in {"none", "open", "over", "dropping", "dropped"} /\ cons[s] \in {"open", cons[s]}
    BY <1>0, <1>k, <2>1, <2>2
  <2> QED BY <2>1, <2>2, <2>3, EndMoves
<1>6. ASSUME NEW s \in Stream, SendTerminal(s) \/ Unwound(s) PROVE EndInv'
  <2>1. /\ prod[s] \in {"checked", "unwinding"} /\ prod' = [prod EXCEPT ![s] = "finished"]
        /\ UNCHANGED <<outcome, recorded, cons, seen, changed, changedRead, tokenOf, cancelled>>
        /\ \/ queue' = queue
           \/ TerminalOf(s) # "ok" /\ queue' = [queue EXCEPT ![s] = Append(@, TerminalOf(s))]
    BY <1>6 DEF SendTerminal, Unwound
  <2> QED BY <2>1, EndSends
<1>7. ASSUME NEW s \in Stream, Receive(s) PROVE EndInv'
  <2>1. /\ queue[s] # <<>> /\ queue' = [queue EXCEPT ![s] = Tail(@)]
        /\ UNCHANGED <<prod, outcome, recorded, changed, changedRead, tokenOf, cancelled>>
    BY <1>7 DEF Receive
  <2>2. /\ queue' \in [Stream -> Seq(Terminal \cup {"batch"})]
        /\ \A r \in Stream : r # s => queue'[r] = queue[r]
        /\ Len(queue[s]) \in Nat \ {0} /\ Len(queue'[s]) = Len(queue[s]) - 1
        /\ Head(queue[s]) = queue[s][1] /\ queue[s][1] \in Terminal \cup {"batch"}
        /\ \A i \in 1 .. Len(queue'[s]) : /\ i + 1 \in 1 .. Len(queue[s]) /\ i \in Nat
                                          /\ queue'[s][i] = queue[s][i + 1]
    BY <2>1, TakenQueue
  <2>3. \A i \in 1 .. Len(queue[s]) : queue[s][i] # "batch" =>
              prod[s] = "finished" /\ queue[s][i] = TerminalOf(s) /\ i = Len(queue[s])
    BY DEF EndInv, TerminalIsLast
  <2>4. \A i \in 1 .. Len(queue'[s]) : queue'[s][i] # "batch" =>
              prod[s] = "finished" /\ queue'[s][i] = TerminalOf(s) /\ i = Len(queue'[s])
    BY <2>2, <2>3
  <2>5. Head(queue[s]) # "batch" =>
           /\ Head(queue[s]) \in Terminal /\ prod[s] = "finished" /\ Head(queue[s]) = TerminalOf(s)
    BY <2>2, <2>3
  <2>6. ASSUME NEW x \in Terminal \cup {"ipc"}, Finish(s, x), x # "ipc" => x = Head(queue[s]) /\ x # "batch"
        PROVE  EndInv'
    <3>1. cons' = [cons EXCEPT ![s] = "over"] /\ seen' = [seen EXCEPT ![s] = x]
      BY <2>6 DEF Finish
    <3>2. "ipc" \notin Terminal /\ "ok" \notin Terminal
      BY DEF Terminal
    <3>3. x \in Terminal => prod[s] = "finished" /\ x = TerminalOf(s)
      BY <2>5, <2>6, <3>2
    <3>4. x # "ok"
      BY <2>6, <3>2
    <3>5. \A t \in Token : cancelled[t] => cancelled'[t]
      BY <2>1
    <3> QED BY <2>1, <2>2, <2>4, <3>1, <3>3, <3>4, <3>5, EndSees
  <2>7. CASE UNCHANGED <<cons, seen>>
    <3>1. /\ seen[s] \in Terminal => prod[s] = "finished" /\ seen[s] = TerminalOf(s)
          /\ seen[s] = "ok" => prod[s] = "finished"
      BY DEF EndInv, TerminalIsLast
    <3>2. /\ cons' = [cons EXCEPT ![s] = cons[s]] /\ seen' = [seen EXCEPT ![s] = seen[s]]
          /\ \A t \in Token : cancelled[t] => cancelled'[t]
          /\ cons[s] \in {"dropping", "dropped"} => cancelled'[tokenOf[s]]
      BY <1>0, <1>k, <2>1, <2>7
    <3> QED BY <1>k, <2>1, <2>2, <2>4, <3>1, <3>2, EndSees
  <2>8. "batch" \notin Terminal
    BY DEF Terminal
  <2>9. CASE Head(queue[s]) = "batch"
    BY <1>7, <2>6, <2>7, <2>9 DEF Receive
  <2>10. CASE Head(queue[s]) # "batch"
    <3>1. Finish(s, Head(queue[s])) /\ Head(queue[s]) \in Terminal \cup {"ipc"}
      BY <1>7, <2>5, <2>10 DEF Receive
    <3> QED BY <2>6, <2>10, <3>1
  <2> QED BY <2>9, <2>10
<1>q. ASSUME NEW s \in Stream, NEW q \in {queue[s], <<>>}
      PROVE  \A i \in 1 .. Len(q) : q[i] # "batch" =>
                prod[s] = "finished" /\ q[i] = TerminalOf(s) /\ i = Len(q)
  <2>1. CASE q = <<>>
    BY <2>1
  <2>2. CASE q = queue[s]
    BY <2>2 DEF EndInv, TerminalIsLast
  <2> QED BY <2>1, <2>2
<1>8. ASSUME NEW s \in Stream, ReceiveEnd(s) PROVE EndInv'
  <2>1. /\ cons' = [cons EXCEPT ![s] = "over"] /\ seen' = [seen EXCEPT ![s] = "ok"]
        /\ prod[s] = "finished" /\ queue' = queue
        /\ UNCHANGED <<prod, outcome, recorded, changed, changedRead, tokenOf, cancelled>>
    BY <1>8 DEF ReceiveEnd, Finish
  <2>2. /\ queue' \in [Stream -> Seq(Terminal \cup {"batch"})] /\ \A r \in Stream : r # s => queue'[r] = queue[r]
        /\ \A i \in 1 .. Len(queue'[s]) : queue'[s][i] # "batch" =>
              prod[s] = "finished" /\ queue'[s][i] = TerminalOf(s) /\ i = Len(queue'[s])
        /\ \A t \in Token : cancelled[t] => cancelled'[t]
    BY <1>0, <1>q, <2>1
  <2>3. "ok" \notin Terminal
    BY DEF Terminal
  <2> QED BY <2>1, <2>2, <2>3, EndSees
<1>v. ASSUME NEW s \in Stream, NEW c \in {"none", "open", "over", "dropping", "dropped"},
             cons' = [cons EXCEPT ![s] = c], c \in {"dropping", "dropped"} => cancelled'[tokenOf[s]],
             \/ queue' = queue
             \/ queue' = [queue EXCEPT ![s] = <<>>],
             \A t \in Token : cancelled[t] => cancelled'[t],
             UNCHANGED <<seen, prod, outcome, recorded, changed, changedRead, tokenOf>>
      PROVE  EndInv'
  <2>1. <<>> \in Seq(Terminal \cup {"batch"})
    BY EmptySeq
  <2>2. queue' \in [Stream -> Seq(Terminal \cup {"batch"})] /\ \A r \in Stream : r # s => queue'[r] = queue[r]
    <3>1. queue \in [Stream -> Seq(Terminal \cup {"batch"})]
      BY <1>0
    <3>2. CASE queue' = queue
      BY <3>1, <3>2
    <3>3. CASE queue' = [queue EXCEPT ![s] = <<>>]
      BY <2>1, <3>1, <3>3
    <3> QED BY <1>v, <3>2, <3>3
  <2>3. queue'[s] \in {queue[s], <<>>}
    BY <1>0, <1>v
  <2>4. \A i \in 1 .. Len(queue'[s]) : queue'[s][i] # "batch" =>
              prod[s] = "finished" /\ queue'[s][i] = TerminalOf(s) /\ i = Len(queue'[s])
    BY <1>q, <2>3
  <2>5. /\ seen[s] \in Terminal => prod[s] = "finished" /\ seen[s] = TerminalOf(s)
        /\ seen[s] = "ok" => prod[s] = "finished"
    BY DEF EndInv, TerminalIsLast
  <2>6. seen' = [seen EXCEPT ![s] = seen[s]] /\ seen[s] \in Terminal \cup {"none", "ok", "ipc"}
    BY <1>k, <1>v
  <2>7. /\ cons' = [cons EXCEPT ![s] = c]
        /\ c \in {"dropping", "dropped"} => cancelled'[tokenOf[s]]
        /\ \A t \in Token : cancelled[t] => cancelled'[t]
        /\ UNCHANGED <<prod, outcome, recorded, changed, changedRead, tokenOf>>
    BY <1>v
  <2> QED BY <2>2, <2>4, <2>5, <2>6, <2>7, EndSees
<1>9. ASSUME NEW s \in Stream, NEW k \in Cancel, CancelSwap(s, k) PROVE EndInv'
  <2>1. /\ cancelled' = [cancelled EXCEPT ![tokenOf[s]] = TRUE]
        /\ cons' = IF k = "drop" THEN [cons EXCEPT ![s] = "dropping"] ELSE cons
        /\ UNCHANGED <<queue, seen, prod, outcome, recorded, changed, changedRead, tokenOf>>
    BY <1>9 DEF CancelSwap
  <2>2. cancelled'[tokenOf[s]] /\ \A t \in Token : cancelled[t] => cancelled'[t]
    BY <1>0, <2>1
  <2>3. \E c \in {"none", "open", "over", "dropping", "dropped"} : cons' = [cons EXCEPT ![s] = c]
    BY <1>k, <2>1
  <2> QED BY <1>v, <2>1, <2>2, <2>3
<1>10. ASSUME NEW s \in Stream, NEW k \in Cancel, CancelSpawn(s, k) PROVE EndInv'
  <2>1. /\ canceller[s][k] # "idle"
        /\ IF k = "drop"
             THEN cons' = [cons EXCEPT ![s] = "dropped"] /\ queue' = [queue EXCEPT ![s] = <<>>]
             ELSE UNCHANGED <<cons, queue>>
        /\ UNCHANGED <<seen, prod, outcome, recorded, changed, changedRead, tokenOf, cancelled>>
    BY <1>10 DEF CancelSpawn
  <2>2. cancelled[tokenOf[s]]
    BY <2>1 DEF BindInv, CancelIsSaid
  <2>3. \E c \in {"none", "open", "over", "dropping", "dropped"} : cons' = [cons EXCEPT ![s] = c]
    BY <1>k, <2>1
  <2>4. queue' = queue \/ queue' = [queue EXCEPT ![s] = <<>>]
    BY <2>1
  <2>5. cancelled'[tokenOf[s]] /\ \A t \in Token : cancelled[t] => cancelled'[t]
    BY <2>1, <2>2
  <2> QED BY <1>v, <2>1, <2>3, <2>4, <2>5
<1>u. ASSUME UNCHANGED <<prod, queue, cons, seen, outcome, recorded, tokenOf, cancelled>>,
             changed' \in BOOLEAN, changedRead' \in [Stream -> BOOLEAN]
      PROVE  EndInv'
  <2>1. EndTypes'
    BY <1>u DEF EndInv, EndTypes
  <2>2. CancelledIsCancelled' /\ OutcomeIsThere'
    BY <1>u DEF EndInv, CancelledIsCancelled, OutcomeIsThere
  <2>3. TerminalIsLast'
    BY <1>u DEF EndInv, TerminalIsLast, TerminalOf
  <2> QED BY <2>1, <2>2, <2>3 DEF EndInv
<1>11. ASSUME NEW s \in Stream, NEW k \in Cancel, CancelInterrupt(s, k) PROVE EndInv'
  <2>1. UNCHANGED <<prod, queue, cons, seen, outcome, recorded, tokenOf, cancelled, changed, changedRead>>
    BY <1>11 DEF CancelInterrupt
  <2> QED BY <1>u, <2>1 DEF EndInv, EndTypes
<1>12. CASE (\E t \in Token : Reinterrupt(t)) \/ UNCHANGED vars
  <2>1. UNCHANGED <<prod, queue, cons, seen, outcome, recorded, tokenOf, cancelled, changed, changedRead>>
    BY <1>12 DEF Reinterrupt, vars
  <2> QED BY <1>u, <2>1 DEF EndInv, EndTypes
<1>13. CASE ChangeSource
  <2>1. /\ UNCHANGED <<prod, queue, cons, seen, outcome, recorded, tokenOf, cancelled>>
        /\ changed' = TRUE /\ changedRead' = [s \in Stream |-> prod[s] \in Producing]
    BY <1>13 DEF ChangeSource
  <2>2. changed' \in BOOLEAN /\ changedRead' \in [Stream -> BOOLEAN]
    BY <2>1
  <2> QED BY <1>u, <2>1, <2>2
<1> QED
  BY <1>1, <1>2, <1>3, <1>4, <1>5, <1>6, <1>7, <1>8, <1>9, <1>10, <1>11, <1>12, <1>13
  DEF Next, OpenNext, ProducerStep, QueryStep, ConsumerStep, CancelStep, Reading

-----------------------------------------------------------------------------
\* Where the verification of a lease never unwinds, every step keeps a change of the source
\* recorded, and the terminal of a finished producer in the channel until the consumer takes it.
LEMMA ChangeStep ==
  ASSUME VerifyMayUnwind = FALSE
  PROVE  LeaseInv /\ BindInv /\ EndInv /\ ChangeInv /\ [Next]_vars => ChangeInv'
<1> SUFFICES ASSUME LeaseInv, BindInv, EndInv, ChangeInv, [Next]_vars PROVE ChangeInv'
  OBVIOUS
<1>0. /\ prod \in [Stream -> ProdState] /\ cons \in [Stream -> {"none", "open", "over", "dropping", "dropped"}]
      /\ queue \in [Stream -> Seq(Terminal \cup {"batch"})]
      /\ recorded \in [Stream -> BOOLEAN] /\ changed \in BOOLEAN
      /\ outcome \in [Stream -> {"none", "ok", "cancelled", "error"}]
      /\ seen \in [Stream -> Terminal \cup {"none", "ok", "ipc"}]
      /\ \A s \in Stream : seen[s] = "ok" => prod[s] = "finished"
  BY DEF LeaseInv, LeaseTypes, EndInv, EndTypes, TerminalIsLast
<1>m. ASSUME NEW s \in Stream, NEW place \in ProdState \ {"checked", "finished", "unwinding"},
             prod[s] # "finished", prod' = [prod EXCEPT ![s] = place],
             \A r \in Stream : r # s => queue'[r] = queue[r] /\ cons'[r] = cons[r] /\ outcome'[r] = outcome[r],
             UNCHANGED <<recorded, seen, changed, changedRead>>
      PROVE  ChangeInv'
  <2>1. \A r \in Stream : prod'[r] = IF r = s THEN place ELSE prod[r]
    BY <1>0, <1>m
  <2>2. \A r \in Stream : r # s => TerminalOf(r)' = TerminalOf(r)
    BY <1>m DEF TerminalOf
  <2>3. seen[s] # "ok"
    BY <1>0, <1>m
  <2> QED BY <1>m, <2>1, <2>2, <2>3 DEF ChangeInv
<1>c. ASSUME NEW s \in Stream, \A r \in Stream : r # s => queue'[r] = queue[r] /\ cons'[r] = cons[r] /\ seen'[r] = seen[r],
             cons'[s] = "open" => queue'[s] = queue[s] /\ cons[s] = "open",
             seen'[s] = "ok" => TerminalOf(s) = "ok",
             UNCHANGED <<prod, outcome, recorded, changed, changedRead>>
      PROVE  ChangeInv'
  <2>1. \A r \in Stream : TerminalOf(r)' = TerminalOf(r)
    BY <1>c DEF TerminalOf
  <2> QED BY <1>c, <2>1 DEF ChangeInv
<1> USE DEF Goto, rowVars, tokenVars, consVars, sourceVars
<1>1. ASSUME NEW s \in Stream, OpenNext(s) PROVE ChangeInv'
  <2>1. /\ UNCHANGED <<queue, outcome, recorded, seen, changed, changedRead>>
        /\ cons' = cons \/ cons' = [cons EXCEPT ![s] = "open"]
        /\ \E place \in ProdState : prod' = [prod EXCEPT ![s] = place] /\ place \notin Ending \cup {"finished"}
        /\ prod[s] \in Opening
    <3>1. CASE checkSourceUnchanged(s) \/ Acquire(s) \/ Configure(s)
      BY <3>1 DEF checkSourceUnchanged, Acquire, Configure, Opening, ProdState, Ending
    <3>2. CASE Attach(s) \/ SpawnFails(s) \/ Spawn(s)
      BY <3>2 DEF Attach, SpawnFails, Spawn, Opening, ProdState, Producing, Ending
    <3>3. CASE CloseDropped(s) \/ RefuseOpen(s)
      BY <1>0, <3>3 DEF CloseDropped, RefuseOpen, Opening, ProdState, Ending
    <3> QED BY <1>1, <3>1, <3>2, <3>3 DEF OpenNext
  <2>2. prod[s] # "finished" /\ {"checked", "unwinding"} \subseteq Ending
    BY <2>1 DEF Opening, Ending
  <2>3. \A r \in Stream : r # s => queue'[r] = queue[r] /\ cons'[r] = cons[r] /\ outcome'[r] = outcome[r]
    BY <1>0, <2>1
  <2> QED BY <1>m, <2>1, <2>2, <2>3
<1>2. ASSUME NEW s \in Stream, Reading(s) PROVE ChangeInv'
  <2>1. /\ prod[s] \in Producing /\ UNCHANGED <<cons, seen, recorded, changed, changedRead>>
        /\ \/ queue' = queue
           \/ queue' = [queue EXCEPT ![s] = Append(@, "batch")]
        /\ \E place \in Producing \cup {"produced"} : prod' = [prod EXCEPT ![s] = place]
        /\ outcome' = outcome \/ \E o \in {"ok", "cancelled", "error"} : outcome' = [outcome EXCEPT ![s] = o]
    BY <1>2, ReadingFacts
  <2>2. /\ Producing \cup {"produced"} \subseteq ProdState \ {"checked", "finished", "unwinding"}
        /\ prod[s] # "finished"
    BY <2>1 DEF Producing, Ending, ProdState
  <2>3. \A r \in Stream : r # s => queue'[r] = queue[r] /\ cons'[r] = cons[r] /\ outcome'[r] = outcome[r]
    BY <1>0, <2>1
  <2> QED BY <1>m, <2>1, <2>2, <2>3
<1>3. ASSUME NEW s \in Stream, Detach(s) \/ DecideLease(s) \/ ResolveLease(s) PROVE ChangeInv'
  <2>1. /\ UNCHANGED <<queue, outcome, recorded, cons, seen, changed, changedRead>>
        /\ prod[s] # "finished"
        /\ \E place \in {"detached", "resolving", "unwinding"} : prod' = [prod EXCEPT ![s] = place]
    <3>1. CASE Detach(s) \/ DecideLease(s)
      BY <3>1 DEF Detach, DecideLease
    <3>2. CASE ResolveLease(s)
      BY <1>0, <3>2 DEF ResolveLease
    <3> QED BY <1>3, <3>1, <3>2
  <2>2. prod[s] # "unwinding" /\ {"detached", "resolving"} \subseteq ProdState \ {"checked", "finished", "unwinding"}
    BY DEF ChangeInv, ProdState, Ending
  <2>3. \E place \in {"detached", "resolving"} : prod' = [prod EXCEPT ![s] = place]
    <3>1. CASE Detach(s) \/ DecideLease(s)
      BY <3>1 DEF Detach, DecideLease
    <3>2. CASE ResolveLease(s)
      BY <1>0, <2>2, <3>2 DEF ResolveLease
    <3> QED BY <1>3, <3>1, <3>2
  <2> QED BY <1>m, <2>1, <2>2, <2>3
<1>4. ASSUME NEW s \in Stream, VerifyUnwinds(s) \/ Unwound(s) PROVE FALSE
  BY <1>4 DEF VerifyUnwinds, Unwound, ChangeInv
<1>5. ASSUME NEW s \in Stream, PostCheck(s) PROVE ChangeInv'
  <2>1. /\ prod[s] = "resolving" /\ prod' = [prod EXCEPT ![s] = "checked"]
        /\ recorded' = [recorded EXCEPT ![s] = changed]
        /\ UNCHANGED <<queue, outcome, cons, seen, changed, changedRead>>
    BY <1>5 DEF PostCheck
  <2>2. \A r \in Stream : r # s => recorded'[r] = recorded[r] /\ TerminalOf(r)' = TerminalOf(r)
    BY <1>0, <2>1 DEF TerminalOf
  <2>3. changedRead[s] => recorded'[s]
    BY <1>0, <2>1 DEF ChangeInv
  <2>4. seen[s] # "ok"
    BY <1>0, <2>1
  <2>5. \A r \in Stream : prod'[r] = IF r = s THEN "checked" ELSE prod[r]
    BY <1>0, <2>1
  <2> QED BY <2>1, <2>2, <2>3, <2>4, <2>5 DEF ChangeInv
<1>6. ASSUME NEW s \in Stream, SendTerminal(s) PROVE ChangeInv'
  <2>1. /\ prod[s] = "checked" /\ prod' = [prod EXCEPT ![s] = "finished"]
        /\ \/ (TerminalOf(s) = "ok" \/ cons[s] = "dropped") /\ queue' = queue
           \/ TerminalOf(s) # "ok" /\ queue' = [queue EXCEPT ![s] = Append(@, TerminalOf(s))]
        /\ UNCHANGED <<outcome, recorded, cons, seen, changed, changedRead>>
    BY <1>6 DEF SendTerminal, ReceiverGone
  <2>2. \A r \in Stream : TerminalOf(r)' = TerminalOf(r) /\ prod'[r] = IF r = s THEN "finished" ELSE prod[r]
    BY <1>0, <2>1 DEF TerminalOf
  <2>3. \A r \in Stream : r # s => queue'[r] = queue[r]
    BY <1>0, <2>1
  <2>4. cons[s] = "open" /\ TerminalOf(s) # "ok" =>
           queue'[s] # <<>> /\ queue'[s][Len(queue'[s])] = TerminalOf(s)
    <3> SUFFICES ASSUME cons[s] = "open", TerminalOf(s) # "ok"
                 PROVE  queue'[s] # <<>> /\ queue'[s][Len(queue'[s])] = TerminalOf(s)
      OBVIOUS
    <3>1. queue' = [queue EXCEPT ![s] = Append(@, TerminalOf(s))]
      BY <2>1
    <3>2. queue'[s] = Append(queue[s], TerminalOf(s)) /\ queue[s] \in Seq(Terminal \cup {"batch"})
      BY <1>0, <3>1
    <3>3. TerminalOf(s) \in Terminal \cup {"batch"}
      <4>1. outcome[s] # "none"
        BY <2>1 DEF EndInv, OutcomeIsThere, Ending
      <4> QED BY <4>1, TerminalKinds
    <3>4. /\ Len(queue'[s]) = Len(queue[s]) + 1 /\ queue'[s][Len(queue[s]) + 1] = TerminalOf(s)
          /\ Len(queue[s]) \in Nat
      BY <3>2, <3>3, AppendProperties, LenProperties
    <3>5. Len(queue'[s]) # 0
      BY <3>4
    <3>6. Len(<<>>) = 0
      BY EmptySeq
    <3>7. queue'[s] # <<>>
      BY <3>5, <3>6, Zenon
    <3> QED BY <3>4, <3>7
  <2>5. seen[s] # "ok" /\ (changedRead[s] => recorded[s]) /\ "finished" # "unwinding"
    BY <1>0, <2>1 DEF ChangeInv
  <2> QED BY <2>1, <2>2, <2>3, <2>4, <2>5 DEF ChangeInv
<1>7. ASSUME NEW s \in Stream, Receive(s) PROVE ChangeInv'
  <2>1. /\ queue[s] # <<>> /\ queue' = [queue EXCEPT ![s] = Tail(@)] /\ cons[s] = "open"
        /\ UNCHANGED <<prod, outcome, recorded, changed, changedRead>>
    BY <1>7 DEF Receive
  <2>2. /\ \A r \in Stream : r # s => queue'[r] = queue[r]
        /\ Len(queue[s]) \in Nat \ {0} /\ Len(queue'[s]) = Len(queue[s]) - 1
        /\ Head(queue[s]) = queue[s][1] /\ queue[s][1] \in Terminal \cup {"batch"}
        /\ \A i \in 1 .. Len(queue'[s]) : queue'[s][i] = queue[s][i + 1]
    BY <2>1, TakenQueue
  <2>3. \A r \in Stream : TerminalOf(r)' = TerminalOf(r)
    BY <2>1 DEF TerminalOf
  <2>4. CASE \E x \in Terminal \cup {"ipc"} : Finish(s, x)
    <3>1. cons'[s] = "over" /\ seen'[s] # "ok"
      BY <1>0, <2>4 DEF Finish, Terminal
    <3>2. \A r \in Stream : r # s => queue'[r] = queue[r] /\ cons'[r] = cons[r] /\ seen'[r] = seen[r]
      BY <1>0, <2>2, <2>4 DEF Finish
    <3> QED BY <1>c, <2>1, <3>1, <3>2
  <2>5. CASE Head(queue[s]) = "batch" /\ UNCHANGED <<cons, seen>>
    <3>1. ASSUME prod[s] = "finished", TerminalOf(s) # "ok"
          PROVE  queue'[s] # <<>> /\ queue'[s][Len(queue'[s])] = TerminalOf(s)
      <4>1. queue[s][Len(queue[s])] = TerminalOf(s)
        BY <2>1, <3>1 DEF ChangeInv
      <4>2. TerminalOf(s) \in Terminal /\ "batch" \notin Terminal
        <5>1. outcome[s] # "none"
          BY <3>1 DEF EndInv, OutcomeIsThere
        <5>2. TerminalOf(s) \in Terminal \cup {"ok"}
          BY <5>1, TerminalKinds
        <5> QED BY <3>1, <5>2 DEF Terminal
      <4>3. Len(queue[s]) # 1
        BY <2>2, <2>5, <4>1, <4>2
      <4>4. /\ Len(queue'[s]) # 0 /\ Len(queue'[s]) \in 1 .. Len(queue'[s])
            /\ Len(queue'[s]) + 1 = Len(queue[s])
        <5>1. \A n \in Nat \ {0} : n # 1 => n - 1 # 0 /\ n - 1 \in 1 .. n - 1 /\ n - 1 + 1 = n
          OBVIOUS
        <5> QED BY <2>2, <4>3, <5>1, Zenon
      <4>5. queue'[s][Len(queue'[s])] = TerminalOf(s)
        BY <2>2, <4>1, <4>4
      <4>6. Len(<<>>) = 0
        BY EmptySeq
      <4>7. queue'[s] # <<>>
        BY <4>4, <4>6, Zenon
      <4> QED BY <4>5, <4>7
    <3> QED BY <2>1, <2>2, <2>3, <2>5, <3>1 DEF ChangeInv
  <2>6. CASE Head(queue[s]) = "batch"
    BY <1>7, <2>4, <2>5, <2>6 DEF Receive
  <2>7. CASE Head(queue[s]) # "batch"
    <3>1. Head(queue[s]) \in Terminal \cup {"ipc"} /\ Finish(s, Head(queue[s]))
      BY <1>7, <2>2, <2>7 DEF Receive
    <3> QED BY <2>4, <3>1
  <2> QED BY <2>6, <2>7
<1>8. ASSUME NEW s \in Stream, ReceiveEnd(s) PROVE ChangeInv'
  <2>1. /\ cons' = [cons EXCEPT ![s] = "over"] /\ seen' = [seen EXCEPT ![s] = "ok"]
        /\ prod[s] = "finished" /\ queue[s] = <<>> /\ cons[s] = "open"
        /\ UNCHANGED <<prod, queue, outcome, recorded, changed, changedRead>>
    BY <1>8 DEF ReceiveEnd, Finish
  <2>2. TerminalOf(s) = "ok"
    BY <2>1 DEF ChangeInv
  <2>3. /\ \A r \in Stream : r # s => queue'[r] = queue[r] /\ cons'[r] = cons[r] /\ seen'[r] = seen[r]
        /\ cons'[s] # "open"
    BY <1>0, <2>1
  <2> QED BY <1>c, <2>1, <2>2, <2>3
<1>9. ASSUME NEW s \in Stream, NEW k \in Cancel, CancelSwap(s, k) \/ CancelStep(s, k) PROVE ChangeInv'
  <2>1. /\ UNCHANGED <<seen, prod, outcome, recorded, changed, changedRead>>
        /\ \/ UNCHANGED <<cons, queue>>
           \/ cons' = [cons EXCEPT ![s] = "dropping"] /\ UNCHANGED queue
           \/ cons' = [cons EXCEPT ![s] = "dropped"] /\ queue' = [queue EXCEPT ![s] = <<>>]
    BY <1>9 DEF CancelSwap, CancelStep, CancelInterrupt, CancelSpawn
  <2>2. \A r \in Stream : r # s => queue'[r] = queue[r] /\ cons'[r] = cons[r] /\ seen'[r] = seen[r]
    BY <1>0, <2>1
  <2>3. cons'[s] = "open" => queue'[s] = queue[s] /\ cons[s] = "open"
    BY <1>0, <2>1
  <2>4. seen'[s] = "ok" => TerminalOf(s) = "ok"
    BY <2>1 DEF ChangeInv
  <2> QED BY <1>c, <2>1, <2>2, <2>3, <2>4
<1>10. CASE (\E t \in Token : Reinterrupt(t)) \/ UNCHANGED vars
  <2>1. UNCHANGED <<prod, queue, cons, seen, outcome, recorded, changed, changedRead>>
    BY <1>10 DEF Reinterrupt, vars
  <2> QED BY <2>1 DEF ChangeInv, TerminalOf
<1>11. CASE ChangeSource
  <2>1. /\ UNCHANGED <<prod, queue, cons, seen, outcome, recorded>>
        /\ changed' = TRUE /\ changedRead' = [s \in Stream |-> prod[s] \in Producing]
    BY <1>11 DEF ChangeSource
  <2>2. \A s \in Stream : prod[s] \in {"checked", "finished"} => ~changedRead'[s]
    BY <2>1 DEF Producing
  <2>3. changed'
    BY <2>1
  <2>4. \A s \in Stream : TerminalOf(s)' = TerminalOf(s)
    BY <2>1 DEF TerminalOf
  <2> QED BY <2>1, <2>2, <2>3, <2>4 DEF ChangeInv
<1> QED
  BY <1>1, <1>2, <1>3, <1>4, <1>5, <1>6, <1>7, <1>8, <1>9, <1>10, <1>11
  DEF Next, ProducerStep, QueryStep, ConsumerStep, Reading

-----------------------------------------------------------------------------
\* Every layer holds at the start.
LEMMA StreamsStart == Init => LeaseInv /\ BindInv /\ LateInv /\ EndInv /\ ChangeInv
<1> SUFFICES ASSUME Init PROVE LeaseInv /\ BindInv /\ LateInv /\ EndInv /\ ChangeInv
  OBVIOUS
<1>e. /\ <<>> \in Seq(Nat \ {0}) /\ <<>> \in Seq(Terminal \cup {"batch"}) /\ Len(<<>>) = 0
      /\ \A i \in 1 .. Len(<<>>) : FALSE
  <2>1. <<>> \in Seq(Nat \ {0}) /\ <<>> \in Seq(Terminal \cup {"batch"}) /\ Len(<<>>) = 0
    BY EmptySeq
  <2> QED BY <2>1
<1>0. /\ idle = <<>> /\ nextPhysicalId = 1 /\ pc = [s \in Stream |-> "out"] /\ physical = [s \in Stream |-> 0]
      /\ prod = [s \in Stream |-> "unopened"] /\ flagged = {} /\ slot = [t \in Token |-> 0]
      /\ cancelled = [t \in Token |-> FALSE] /\ reinterrupter = [t \in Token |-> "none"]
      /\ canceller = [s \in Stream |-> [k \in Cancel |-> "idle"]]
      /\ outcome = [s \in Stream |-> "none"] /\ late = [s \in Stream |-> [w \in Work |-> 0]]
      /\ resume = [s \in Stream |-> "produced"]
      /\ queue = [s \in Stream |-> <<>>] /\ cons = [s \in Stream |-> "none"] /\ seen = [s \in Stream |-> "none"]
      /\ changed = FALSE /\ changedRead = [s \in Stream |-> FALSE] /\ recorded = [s \in Stream |-> FALSE]
  BY DEF Init, Pool!Init
<1>t. tokenOf \in [Stream -> Token]
  BY TokenAssumption DEF Init
<1>p. "unopened" \in ProdState /\ "unopened" \notin Bound \cup Ending \cup HasLease \cup {"finished"}
  BY DEF ProdState, Opening, Bound, Ending, Producing, HasLease
<1>1. LeaseInv
  <2>1. LeaseTypes
    BY <1>0, <1>e, <1>p DEF LeaseTypes
  <2>2. LeaseAtPlace /\ OutIsEmpty
    BY <1>0, <1>p DEF LeaseAtPlace, Allowed, OutIsEmpty
  <2>3. IdsAreFresh /\ OneOwner
    BY <1>0, <1>e DEF IdsAreFresh, OneOwner
  <2> QED BY <2>1, <2>2, <2>3 DEF LeaseInv
<1>2. BindInv
  <2>1. BindTypes
    BY <1>0, <1>t DEF BindTypes, CancelState
  <2>2. BoundHasSlot /\ BoundIsAlone /\ SlotIsHome
    BY <1>0, <1>p DEF BoundHasSlot, BoundIsAlone, SlotIsHome
  <2>3. CancelIsSaid /\ FlagIsOwn
    BY <1>0 DEF CancelIsSaid, FlagIsOwn
  <2> QED BY <2>1, <2>2, <2>3 DEF BindInv
<1>3. LateInv
  BY <1>0 DEF LateInv, Resumption
<1>4. EndInv
  <2>1. EndTypes
    BY <1>0, <1>e DEF EndTypes
  <2>2. CancelledIsCancelled /\ OutcomeIsThere
    BY <1>0, <1>p DEF CancelledIsCancelled, OutcomeIsThere
  <2>3. TerminalIsLast
    BY <1>0, <1>e DEF TerminalIsLast, Terminal
  <2> QED BY <2>1, <2>2, <2>3 DEF EndInv
<1>5. ChangeInv
  BY <1>0 DEF ChangeInv
<1> QED BY <1>1, <1>2, <1>3, <1>4, <1>5

\* The first four layers hold throughout, whatever the verification of a lease does.
LEMMA StreamsAreSound == Spec => [](LeaseInv /\ BindInv /\ LateInv /\ EndInv)
<1>1. Init => LeaseInv /\ BindInv /\ LateInv /\ EndInv
  BY StreamsStart
<1>2. LeaseInv /\ BindInv /\ LateInv /\ EndInv /\ [Next]_vars => (LeaseInv /\ BindInv /\ LateInv /\ EndInv)'
  BY LeaseStep, BindStep, LateStep, EndStep
<1> QED BY <1>1, <1>2, PTL DEF Spec

-----------------------------------------------------------------------------
\* A cancel never reaches another stream's query: for any number of streams, tokens and
\* connections, and however late a canceller or a re-interrupter takes its turn, the connection it
\* would interrupt is the one of the stream it was called for, and an interrupt that is set on a
\* running query's connection is that of its own cancelled token (cancel.rs, detach before the
\* lease is decided).
THEOREM InterruptsCorrect == Spec => []InterruptIsOwn
<1>1. LeaseInv /\ BindInv => InterruptIsOwn
  <2> SUFFICES ASSUME LeaseInv, BindInv PROVE InterruptIsOwn
    OBVIOUS
  <2>1. ASSUME NEW s \in Stream, prod[s] \in Bound, pc[s] \in Pool!SlotState PROVE pc[s] = "leased"
    <3>1. prod[s] = "spawnFailed" \/ prod[s] \in HasLease
      BY <2>1 DEF Bound, HasLease
    <3>2. Allowed(prod[s], pc[s]) /\ pc[s] \notin {"closing", "out"}
      BY <2>1 DEF LeaseInv, LeaseAtPlace, Pool!SlotState
    <3> QED BY <3>1, <3>2 DEF Allowed
  <2>2. InterruptStaysHome
    BY <2>1 DEF InterruptStaysHome, BindInv, SlotIsHome
  <2>3. \A s \in Stream : physical[s] \in flagged => isCancelled(s)
    BY DEF BindInv, FlagIsOwn, isCancelled
  <2> QED BY <2>2, <2>3 DEF InterruptIsOwn
<1> QED BY <1>1, StreamsAreSound, PTL

\* A token is usable again after every way a stream can end: a slot that names a connection
\* belongs to a stream between its attach and its detach, or to one whose failed spawn is being
\* undone (stream.rs, lease_for_stream and the producer's closure).
THEOREM BindingCorrect == Spec => []BindingEndsWithTheStream
<1>1. BindInv => BindingEndsWithTheStream
  <2>1. Bound \cap {"unopened", "refused", "finished"} = {}
    BY DEF Bound, Producing
  <2> QED BY <2>1 DEF BindingEndsWithTheStream, BindInv, SlotIsHome
<1> QED BY <1>1, StreamsAreSound, PTL

\* A cancelled stream appends at most one row more, sends at most one batch, which was built
\* before, and builds at most one, which is not sent: wherever the cancel lands between the check
\* of a row's turn and those of the two flushes the turn may contain (stream.rs:1981-2085).
THEOREM LateCorrect == Spec => []BoundedWorkAfterCancel
<1>1. LateInv => BoundedWorkAfterCancel
  <2> SUFFICES ASSUME LateInv, NEW s \in Stream
               PROVE  /\ \A w \in Work : late[s][w] <= 1
                      /\ prod[s] = "sending" => late[s]["built"] = 0
    BY DEF BoundedWorkAfterCancel
  <2>1. \A w \in Work : late[s][w] \in 0 .. 1
    BY DEF LateInv
  <2>2. "built" \in Work /\ "sending" \notin After("built")
    BY DEF Work, After, Ending
  <2> QED BY <2>1, <2>2 DEF LateInv
<1> QED BY <1>1, StreamsAreSound, PTL

\* Whoever has been given the end of a stream finds its connection slot free.
THEOREM LeaseBackCorrect == Spec => []EndMeansLeaseResolved
<1>1. LeaseInv /\ EndInv => EndMeansLeaseResolved
  BY DEF LeaseInv, LeaseAtPlace, Allowed, EndInv, TerminalIsLast, EndMeansLeaseResolved
<1> QED BY <1>1, StreamsAreSound, PTL

\* "cancelled" is never invented and a change of the source never hides a failure, also where the
\* verification of the lease unwinds.
THEOREM HonestCorrect == Spec => []TerminalIsHonest
<1>1. EndInv => TerminalIsHonest
  <2> SUFFICES ASSUME EndInv, NEW s \in Stream
               PROVE  /\ seen[s] = "cancelled" => isCancelled(s)
                      /\ seen[s] = "source_changed" => outcome[s] = "ok"
    BY DEF TerminalIsHonest
  <2>1. seen[s] \in {"cancelled", "source_changed"} => seen[s] = TerminalOf(s)
    BY DEF EndInv, TerminalIsLast, Terminal
  <2>2. TerminalOf(s) = "cancelled" => outcome[s] = "cancelled"
    BY DEF TerminalOf
  <2>3. TerminalOf(s) = "source_changed" => outcome[s] = "ok"
    BY DEF TerminalOf, EndInv, EndTypes
  <2> QED BY <2>1, <2>2, <2>3 DEF EndInv, CancelledIsCancelled, isCancelled
<1> QED BY <1>1, StreamsAreSound, PTL

\* Where release_healthy's verification does not unwind, the end a consumer is given is the one
\* that happened: a source that changed while the stream was reading never ends clean.  (Where it
\* unwinds, the post-check is not run and the channel just closes.)
THEOREM EndCorrect ==
  ASSUME VerifyMayUnwind = FALSE
  PROVE  Spec => []EndIsTrue
<1>1. Init => ChangeInv
  BY StreamsStart
<1>2. LeaseInv /\ BindInv /\ EndInv /\ ChangeInv /\ [Next]_vars => ChangeInv'
  BY ChangeStep
<1>3. EndInv /\ ChangeInv => ChangeIsNeverMissed
  <2> SUFFICES ASSUME EndInv, ChangeInv, NEW s \in Stream, changedRead[s], seen[s] \in Terminal \cup {"ok"}
               PROVE  recorded[s] /\ seen[s] # "ok"
    BY DEF ChangeIsNeverMissed
  <2>1. prod[s] = "finished"
    BY DEF EndInv, TerminalIsLast
  <2>2. recorded[s]
    BY <2>1 DEF ChangeInv
  <2>3. TerminalOf(s) # "ok"
    BY <2>2 DEF TerminalOf
  <2> QED BY <2>2, <2>3 DEF ChangeInv
<1> QED BY <1>1, <1>2, <1>3, StreamsAreSound, HonestCorrect, PTL DEF Spec, EndIsTrue

-----------------------------------------------------------------------------
\* The streams use the pool as ConnectionPool says it is used, one holder per stream: what is
\* shown there of every behaviour of the pool holds of it here.
THEOREM UsesThePool == Spec => Pool!Spec
<1>1. Init => Pool!Init
  BY DEF Init
<1>2. [Next]_vars => [Pool!Next]_(Pool!vars)
  <2> SUFFICES ASSUME [Next]_vars PROVE Pool!Next \/ UNCHANGED Pool!vars
    OBVIOUS
  <2>u. ASSUME UNCHANGED poolVars PROVE UNCHANGED Pool!vars
    BY <2>u DEF poolVars, Pool!vars
  <2>h. ASSUME NEW s \in Stream, Pool!HolderNext(s) PROVE Pool!Next
    BY <2>h DEF Pool!Next
  <2>1. ASSUME NEW s \in Stream, Acquire(s) PROVE Pool!HolderNext(s)
    BY <2>1 DEF Acquire, Pool!HolderNext, Pool!LeaseClass
  <2>2. ASSUME NEW s \in Stream, Configure(s) PROVE Pool!HolderNext(s)
    BY <2>2 DEF Configure, Pool!HolderNext
  <2>3. ASSUME NEW s \in Stream, Attach(s) PROVE UNCHANGED poolVars \/ Pool!HolderNext(s)
    BY <2>3 DEF Attach, Pool!HolderNext
  <2>4. ASSUME NEW s \in Stream, SpawnFails(s) \/ CloseDropped(s) \/ DecideLease(s) \/ ResolveLease(s)
                                 \/ VerifyUnwinds(s)
        PROVE  Pool!HolderNext(s)
    BY <2>4 DEF SpawnFails, CloseDropped, DecideLease, ResolveLease, VerifyUnwinds, Pool!HolderNext
  <2>5. ASSUME NEW s \in Stream, Reading(s) PROVE UNCHANGED poolVars
    BY <2>5, ReadingFacts
  <2>6. ASSUME NEW s \in Stream, checkSourceUnchanged(s) \/ Spawn(s) \/ RefuseOpen(s) \/ Detach(s)
                                 \/ PostCheck(s) \/ SendTerminal(s) \/ Unwound(s) \/ ConsumerStep(s)
        PROVE  UNCHANGED poolVars
    BY <2>6 DEF checkSourceUnchanged, Spawn, RefuseOpen, Detach, PostCheck, SendTerminal, Unwound,
       ConsumerStep, Receive, ReceiveEnd
  <2>7. ASSUME NEW s \in Stream, NEW k \in Cancel, CancelSwap(s, k) \/ CancelStep(s, k)
        PROVE  UNCHANGED poolVars
    BY <2>7 DEF CancelSwap, CancelStep, CancelInterrupt, CancelSpawn
  <2>8. CASE (\E t \in Token : Reinterrupt(t)) \/ ChangeSource \/ UNCHANGED vars
    <3>1. UNCHANGED poolVars
      BY <2>8 DEF Reinterrupt, ChangeSource, vars
    <3> QED BY <2>u, <3>1
  <2> QED
    BY <2>u, <2>h, <2>1, <2>2, <2>3, <2>4, <2>5, <2>6, <2>7, <2>8
    DEF Next, OpenNext, ProducerStep, QueryStep, Reading
<1> QED BY <1>1, <1>2, PTL DEF Spec, Pool!Spec
=============================================================================
