-------------------------- MODULE SkpSessionsProofs --------------------------
(***************************************************************************)
(* What the ticket registry and the generation registry guarantee for any  *)
(* number of datasets, queries and STARTs, and for every choice of the     *)
(* limits and of the ages.                                                 *)
(*                                                                         *)
(* SingleUse is not inductive: that a pending ticket was never handed out  *)
(* needs what each state of an entry says of the ticket's past (Ledger),   *)
(* and that an entry is minted once needs the query to be past its mint    *)
(* (MintedOnce).  OneEventPerSession needs that a live session has no end  *)
(* under way (LiveIsUnended) and an ended one at most one (OneReport).     *)
(* OverIsOver and RefusalNamesTheEnd have invariants of their own: OverInv *)
(* says where every ticket of a closed or ended dataset is (taken back,    *)
(* settled, or in the set an end is going to cancel), and RecordInv that   *)
(* the record of an end is written before its tickets are cancelled and    *)
(* lasts to its age.                                                       *)
(***************************************************************************)
EXTENDS SkpSessions, TLAPS

TicketTypes ==
    /\ ticket \in [Query -> {"none", "pending", "redeemed", "cancelled", "gone"}]
    /\ cause \in [Query -> {"none", "client", "close", "end", "unattributed"}]
    /\ uses \in [Query -> Nat]
    /\ query \in [Query -> {"idle", "resolved", "checked", "ending", "minted",
                            "withdrawing", "returned", "refused"}]

MintedOnce ==
    \A q \in Query : query[q] \in {"idle", "resolved", "checked", "ending"} => ticket[q] = "none"

Ledger ==
    \A q \in Query :
        /\ ticket[q] \in {"none", "pending"} => uses[q] = 0 /\ cause[q] = "none"
        /\ ticket[q] = "redeemed" => uses[q] = 1 /\ cause[q] = "none"
        /\ ticket[q] = "cancelled" => uses[q] = 0
        /\ ticket[q] = "gone" => uses[q] <= 1 /\ (cause[q] # "none" => uses[q] = 0)

\* The inductive invariant of SingleUse.
TicketInv == TicketTypes /\ MintedOnce /\ Ledger

-----------------------------------------------------------------------------
\* A sweep takes entries away and mints none.
LEMMA SweptIsOneStep ==
  \A q \in Query : \/ swept[q] = ticket[q]
                   \/ ticket[q] \in {"pending", "redeemed", "cancelled"} /\ swept[q] = "gone"
BY DEF swept, expired

\* A sweep with nothing else keeps the invariant.
LEMMA SweepKeeps ==
  ASSUME TicketInv, sweepOnly, UNCHANGED uses,
         query' \in [Query -> {"idle", "resolved", "checked", "ending", "minted",
                               "withdrawing", "returned", "refused"}],
         \A q \in Query : query'[q] \in {"idle", "resolved", "checked", "ending"} =>
                            query[q] \in {"idle", "resolved", "checked", "ending"}
  PROVE  TicketInv'
<1>1. ticket' = swept /\ cause' = cause /\ uses' = uses
  BY DEF sweepOnly
<1>2. TicketTypes'
  BY <1>1, SweptIsOneStep DEF TicketInv, TicketTypes, swept
<1>3. MintedOnce'
  BY <1>1, SweptIsOneStep DEF TicketInv, TicketTypes, MintedOnce
<1>4. Ledger'
  BY <1>1, SweptIsOneStep DEF TicketInv, TicketTypes, Ledger
<1> QED BY <1>2, <1>3, <1>4 DEF TicketInv

\* A ticket that is taken back had not been handed out, or stays redeemed.
LEMMA RetireKeeps ==
  ASSUME TicketInv, NEW qs,
         NEW who \in {"client", "close", "end", "unattributed"},
         retire(qs, who), UNCHANGED uses,
         query' \in [Query -> {"idle", "resolved", "checked", "ending", "minted",
                               "withdrawing", "returned", "refused"}],
         \A q \in Query : query'[q] \in {"idle", "resolved", "checked", "ending"} =>
                            query[q] \in {"idle", "resolved", "checked", "ending"}
  PROVE  TicketInv'
<1> DEFINE taken == {q \in qs : swept[q] = "pending"}
<1>1. /\ ticket' = [q \in Query |-> IF q \in taken THEN "cancelled" ELSE swept[q]]
      /\ cause' = [q \in Query |-> IF q \in taken THEN who ELSE cause[q]]
      /\ uses' = uses
  BY DEF retire
<1>2. \A q \in Query : q \in taken => ticket[q] = "pending"
  BY SweptIsOneStep
<1> HIDE DEF taken
<1>3. TicketTypes'
  BY <1>1, SweptIsOneStep DEF TicketInv, TicketTypes, swept
<1>4. MintedOnce'
  BY <1>1, <1>2, SweptIsOneStep DEF TicketInv, TicketTypes, MintedOnce
<1>5. Ledger'
  BY <1>1, <1>2, SweptIsOneStep DEF TicketInv, TicketTypes, Ledger
<1> QED BY <1>3, <1>4, <1>5 DEF TicketInv

\* A step that leaves the registry of tickets alone and moves no query back before its mint.
LEMMA OthersKeep ==
  ASSUME TicketInv, UNCHANGED <<ticket, cause, uses>>,
         query' \in [Query -> {"idle", "resolved", "checked", "ending", "minted",
                               "withdrawing", "returned", "refused"}],
         \A q \in Query : query'[q] \in {"idle", "resolved", "checked", "ending"} =>
                            query[q] \in {"idle", "resolved", "checked", "ending"}
  PROVE  TicketInv'
BY DEF TicketInv, TicketTypes, MintedOnce, Ledger

\* Every step of the registries keeps the invariant.
LEMMA TicketStep == TicketInv /\ [Next]_vars => TicketInv'
<1> SUFFICES ASSUME TicketInv, [Next]_vars PROVE TicketInv'
  OBVIOUS
<1> USE DEF TicketInv, TicketTypes
<1>1. CASE Tick
  BY <1>1, OthersKeep DEF Tick, ticketVars, queryVars, redeemVars
<1>2. ASSUME NEW q \in Query, Resolve(q) PROVE TicketInv'
  BY <1>2, SweepKeeps DEF Resolve, queryTo, redeemVars
<1>3. ASSUME NEW q \in Query, RequireLive(q) PROVE TicketInv'
  BY <1>3, OthersKeep DEF RequireLive, queryTo, ticketVars, redeemVars
<1>4. ASSUME NEW q \in Query, PreCheckFails(q) PROVE TicketInv'
  BY <1>4, OthersKeep DEF PreCheckFails, queryTo, ticketVars, redeemVars
<1>5. ASSUME NEW q \in Query, QueryRefused(q) PROVE TicketInv'
  BY <1>5, OthersKeep DEF QueryRefused, queryTo, ticketVars, redeemVars
<1>6. ASSUME NEW q \in Query, Mint(q) PROVE TicketInv'
  <2>1. CASE hasRoom(on[q])
    <3>1. /\ ticket' = [swept EXCEPT ![q] = "pending"] /\ cause' = cause /\ uses' = uses
          /\ query' = [query EXCEPT ![q] = "minted"] /\ ticket[q] = "none"
      BY <1>6, <2>1 DEF Mint, queryTo, redeemVars, MintedOnce
    <3>2. TicketTypes'
      BY <3>1, SweptIsOneStep DEF swept
    <3>3. MintedOnce'
      BY <3>1, SweptIsOneStep DEF MintedOnce, swept
    <3>4. Ledger'
      BY <3>1, SweptIsOneStep DEF Ledger, swept
    <3> QED BY <3>2, <3>3, <3>4
  <2>2. CASE ~hasRoom(on[q])
    BY <1>6, <2>2, SweepKeeps DEF Mint, queryTo, redeemVars
  <2> QED BY <2>1, <2>2
<1>7. ASSUME NEW q \in Query, Attribute(q) PROVE TicketInv'
  <2>1. /\ UNCHANGED <<ticket, cause, uses>>
        /\ query[q] = "minted"
        /\ \/ query' = [query EXCEPT ![q] = "returned"]
           \/ query' = [query EXCEPT ![q] = "withdrawing"]
    BY <1>7 DEF Attribute, queryTo, ticketVars, redeemVars
  <2> QED BY <2>1, OthersKeep
<1>8. ASSUME NEW q \in Query, Withdraw(q) PROVE TicketInv'
  BY <1>8, RetireKeeps DEF Withdraw, queryTo, redeemVars
<1>9. ASSUME NEW q \in Query, Cancel(q) PROVE TicketInv'
  BY <1>9, RetireKeeps DEF Cancel, queryVars, redeemVars
<1>10. ASSUME NEW q \in Query, PostCheck(q) PROVE TicketInv'
  BY <1>10, OthersKeep DEF PostCheck, ticketVars, queryVars
<1>11. ASSUME NEW q \in Query, StreamEnds(q) PROVE TicketInv'
  BY <1>11, OthersKeep DEF StreamEnds, ticketVars, queryVars
<1>12. ASSUME NEW q \in Query, NEW s \in Start, FirstLook(q, s) PROVE TicketInv'
  BY <1>12, OthersKeep DEF FirstLook, ticketVars, queryVars
<1>13. ASSUME NEW q \in Query, NEW s \in Start, Redeem(q, s) PROVE TicketInv'
  <2>1. CASE swept[q] = "pending"
    <3>1. /\ ticket' = [swept EXCEPT ![q] = "redeemed"] /\ cause' = cause
          /\ uses' = [uses EXCEPT ![q] = @ + 1] /\ query' = query /\ ticket[q] = "pending"
      BY <1>13, <2>1, SweptIsOneStep DEF Redeem, handedOut, queryVars
    <3>2. TicketTypes'
      BY <3>1, SweptIsOneStep DEF swept
    <3>3. MintedOnce'
      BY <3>1, SweptIsOneStep DEF MintedOnce, swept
    <3>4. Ledger'
      BY <3>1, SweptIsOneStep DEF Ledger, swept
    <3> QED BY <3>2, <3>3, <3>4
  <2>2. CASE swept[q] # "pending"
    BY <1>13, <2>2, SweepKeeps DEF Redeem, queryVars
  <2> QED BY <2>1, <2>2
<1>14. ASSUME NEW q \in Query, NEW s \in Start, SecondLook(q, s) PROVE TicketInv'
  BY <1>14, OthersKeep DEF SecondLook, ticketVars, queryVars
<1>15. ASSUME NEW e \in Ender, EndEnqueue(e) PROVE TicketInv'
  BY <1>15, OthersKeep DEF EndEnqueue, ticketVars, queryVars, redeemVars
<1>16. ASSUME NEW e \in Ender, EndCancel(e) PROVE TicketInv'
  BY <1>16, RetireKeeps DEF EndCancel, queryVars, redeemVars
<1>17. ASSUME NEW d \in Dataset, WatchSignals(d) PROVE TicketInv'
  BY <1>17, OthersKeep DEF WatchSignals, ticketVars, queryVars, redeemVars
<1>18. ASSUME NEW d \in Dataset, CloseDisarm(d) \/ CloseBegin(d) \/ CloseForget(d) PROVE TicketInv'
  BY <1>18, OthersKeep DEF CloseDisarm, CloseBegin, CloseForget, ticketVars, queryVars, redeemVars
<1>19. ASSUME NEW d \in Dataset, CloseCancel(d) PROVE TicketInv'
  BY <1>19, RetireKeeps DEF CloseCancel, queryVars, redeemVars
<1>20. CASE UNCHANGED vars
  BY <1>20, OthersKeep DEF vars, ticketVars, queryVars, redeemVars
<1> QED
  BY <1>1, <1>2, <1>3, <1>4, <1>5, <1>6, <1>7, <1>8, <1>9, <1>10, <1>11, <1>12, <1>13, <1>14,
     <1>15, <1>16, <1>17, <1>18, <1>19, <1>20 DEF Next

\* A ticket's stream is handed out at most once, and never after the ticket was taken back
\* while pending (skp.rs redeem, cancel; ADR-019), for all values of the constants.
THEOREM SingleUseCorrect == Spec => []SingleUse
<1>1. Init => TicketInv
  BY DEF Init, TicketInv, TicketTypes, MintedOnce, Ledger
<1>2. TicketInv => SingleUse
  BY DEF TicketInv, TicketTypes, Ledger, SingleUse
<1> QED BY <1>1, <1>2, TicketStep, PTL DEF Spec

-----------------------------------------------------------------------------
EndTypes ==
    /\ ender \in [Ender -> {"idle", "enqueue", "cancel"}]
    /\ events \in [Dataset -> Nat]
    /\ live \subseteq Dataset
    /\ on \in [Query -> Dataset]

LiveIsUnended ==
    \A d \in live :
        events[d] = 0 /\ \A e \in Ender : datasetOf(e) = d => ender[e] # "enqueue"

OneReport ==
    \A e \in Ender : ender[e] = "enqueue" =>
        /\ events[datasetOf(e)] = 0
        /\ \A f \in Ender : ender[f] = "enqueue" /\ datasetOf(f) = datasetOf(e) => f = e

\* The inductive invariant of OneEventPerSession.
EndInv == EndTypes /\ LiveIsUnended /\ OneReport /\ OneEventPerSession

\* Every caller of end_generation has a dataset.
LEMMA CallerHasDataset ==
  ASSUME on \in [Query -> Dataset]
  PROVE  \A e \in Ender : datasetOf(e) \in Dataset
BY DEF Ender, datasetOf

\* Only the call that removes the live generation reports, and it removes it.
LEMMA BeginEndKeeps ==
  ASSUME EndInv, NEW e \in Ender, NEW reason, beginEnd(e, datasetOf(e), reason), UNCHANGED on
  PROVE  EndInv'
<1> DEFINE d == datasetOf(e)
<1> USE DEF EndInv, EndTypes
<1>1. d \in Dataset
  BY CallerHasDataset
<1>2. \A f \in Ender : datasetOf(f)' = datasetOf(f) /\ datasetOf(f) \in Dataset
  BY CallerHasDataset DEF datasetOf
<1>3. /\ events' = events
      /\ ender' = [ender EXCEPT ![e] = IF d \in live THEN "enqueue" ELSE "idle"]
      /\ ender[e] = "idle"
  BY DEF beginEnd, reports
<1>4. live' = live \ {d}
  BY DEF beginEnd, invalidate, pruneOnly
<1> HIDE DEF d
<1>5. EndTypes'
  BY <1>1, <1>3, <1>4
<1>6. LiveIsUnended'
  BY <1>1, <1>2, <1>3, <1>4 DEF LiveIsUnended, d
<1>7. OneReport'
  BY <1>1, <1>2, <1>3, <1>4 DEF LiveIsUnended, OneReport, d
<1>8. OneEventPerSession'
  BY <1>3 DEF OneEventPerSession
<1> QED BY <1>5, <1>6, <1>7, <1>8

\* A step that touches no end under way, and revives no session.
LEMMA NoEndKeeps ==
  ASSUME EndInv, UNCHANGED <<ender, events, on>>, live' \subseteq live
  PROVE  EndInv'
<1>1. \A e : datasetOf(e)' = datasetOf(e)
  BY DEF datasetOf
<1> QED
  BY <1>1 DEF EndInv, EndTypes, LiveIsUnended, OneReport, OneEventPerSession

\* Every step keeps the invariant.
LEMMA EndStep == EndInv /\ [Next]_vars => EndInv'
<1> SUFFICES ASSUME EndInv, [Next]_vars PROVE EndInv'
  OBVIOUS
<1>1. CASE Tick
  BY <1>1, NoEndKeeps DEF Tick, genVars, queryVars, endVars
<1>2. ASSUME NEW q \in Query, Resolve(q) \/ QueryRefused(q) \/ Mint(q) \/ Withdraw(q) PROVE EndInv'
  BY <1>2, NoEndKeeps DEF Resolve, QueryRefused, Mint, Withdraw, queryTo, genVars, endVars
<1>3. ASSUME NEW q \in Query, RequireLive(q) \/ Attribute(q) PROVE EndInv'
  BY <1>3, NoEndKeeps DEF RequireLive, Attribute, pruneOnly, queryTo, endVars
<1>4. ASSUME NEW q \in Query, PreCheckFails(q) PROVE EndInv'
  <2>1. q \in Ender /\ datasetOf(q) = on[q]
    BY CallerAssumption DEF Ender, datasetOf
  <2> QED BY <1>4, <2>1, BeginEndKeeps DEF PreCheckFails, queryTo
<1>5. ASSUME NEW q \in Query, PostCheck(q) PROVE EndInv'
  <2>1. q \in Ender /\ datasetOf(q) = on[q]
    BY CallerAssumption DEF Ender, datasetOf
  <2> QED BY <1>5, <2>1, BeginEndKeeps DEF PostCheck, queryVars
<1>6. ASSUME NEW d \in Dataset, WatchSignals(d) PROVE EndInv'
  <2>1. d \in Ender /\ datasetOf(d) = d
    BY DEF Ender, datasetOf
  <2> QED BY <1>6, <2>1, BeginEndKeeps DEF WatchSignals, queryVars
<1>7. ASSUME NEW q \in Query, Cancel(q) \/ StreamEnds(q) PROVE EndInv'
  BY <1>7, NoEndKeeps DEF Cancel, StreamEnds, queryVars, genVars, endVars
<1>8. ASSUME NEW q \in Query, NEW s \in Start, FirstLook(q, s) \/ Redeem(q, s) \/ SecondLook(q, s)
      PROVE  EndInv'
  BY <1>8, NoEndKeeps DEF FirstLook, Redeem, SecondLook, pruneOnly, queryVars, genVars, endVars
<1>9. ASSUME NEW e \in Ender, EndEnqueue(e) PROVE EndInv'
  <2> USE DEF EndInv, EndTypes
  <2>1. /\ ender[e] = "enqueue"
        /\ events' = [events EXCEPT ![datasetOf(e)] = @ + 1]
        /\ ender' = [ender EXCEPT ![e] = IF toCancel[e] = {} THEN "idle" ELSE "cancel"]
        /\ live' = live /\ on' = on
    BY <1>9 DEF EndEnqueue, genVars, queryVars
  <2>2. \A f \in Ender : datasetOf(f)' = datasetOf(f) /\ datasetOf(f) \in Dataset
    BY <2>1, CallerHasDataset DEF datasetOf
  <2>3. EndTypes'
    BY <2>1, <2>2
  <2>4. datasetOf(e) \notin live
    BY <2>1, <2>2 DEF LiveIsUnended
  <2>5. LiveIsUnended'
    BY <2>1, <2>2, <2>4 DEF LiveIsUnended
  <2>6. OneReport'
    BY <2>1, <2>2 DEF OneReport
  <2>7. OneEventPerSession'
    BY <2>1, <2>2 DEF OneReport, OneEventPerSession
  <2> QED BY <2>3, <2>5, <2>6, <2>7
<1>10. ASSUME NEW e \in Ender, EndCancel(e) PROVE EndInv'
  <2> USE DEF EndInv, EndTypes
  <2>1. /\ events' = events /\ live' = live /\ on' = on
        /\ \E place \in {"idle", "cancel"} : ender' = [ender EXCEPT ![e] = place]
    BY <1>10 DEF EndCancel, genVars, queryVars
  <2>2. \A f \in Ender : datasetOf(f)' = datasetOf(f)
    BY <2>1 DEF datasetOf
  <2> QED BY <2>1, <2>2 DEF LiveIsUnended, OneReport, OneEventPerSession
<1>11. ASSUME NEW d \in Dataset, CloseDisarm(d) \/ CloseBegin(d) \/ CloseCancel(d) \/ CloseForget(d)
       PROVE  EndInv'
  BY <1>11, NoEndKeeps DEF CloseDisarm, CloseBegin, CloseCancel, CloseForget, genVars, queryVars, endVars
<1>12. CASE UNCHANGED vars
  BY <1>12, NoEndKeeps DEF vars, genVars, queryVars, endVars
<1> QED
  BY <1>1, <1>2, <1>3, <1>4, <1>5, <1>6, <1>7, <1>8, <1>9, <1>10, <1>11, <1>12 DEF Next

\* However many callers notice that a source changed, and whether or not a close runs, a session
\* ends with at most one event (skp.rs end_generation), for all values of the constants.
THEOREM OneEventCorrect == Spec => []OneEventPerSession
<1>1. Init => EndInv
  BY DEF Init, EndInv, EndTypes, LiveIsUnended, OneReport, OneEventPerSession
<1>2. EndInv => OneEventPerSession
  BY DEF EndInv
<1> QED BY <1>1, <1>2, EndStep, PTL DEF Spec

-----------------------------------------------------------------------------
(* What is over is over.  Two registries with a mutex each, and time.  A    *)
(* close is over when its cancellation found every ticket a client was told *)
(* of, because since begin_close none can be attributed.  An end is over    *)
(* when every ticket is cancelled that was attributed, because a ticket     *)
(* that is not attributed any more outlived its attribution, which is kept  *)
(* for the longest time its ticket can count.                               *)

OverTypes ==
    /\ now \in Nat /\ since \in [Query -> Nat] /\ attrAt \in [Query -> Nat]
    /\ \A q \in Query : since[q] <= now
    /\ flag \in [Query -> BOOLEAN] /\ token \in [Query -> BOOLEAN]
    /\ attributed \subseteq Query /\ serving \subseteq Query
    /\ on \in [Query -> Dataset]
    /\ live \subseteq Dataset /\ closing \subseteq Dataset
    /\ mark \in [Dataset -> Reason \cup {"none"}]
    /\ closer \in [Dataset -> {"idle", "disarmed", "begun", "cancelled", "done"}]
    /\ ender \in [Ender -> {"idle", "enqueue", "cancel"}]
    /\ toCancel \in [Ender -> SUBSET Query]
    /\ redeem \in [Query \X Start -> {"idle", "looked", "refused", "done"}]

LookedIsReturned ==
    \A q \in Query, s \in Start : redeem[<<q, s>>] # "idle" => query[q] = "returned"

AttributedIsReturned == \A q \in attributed : query[q] = "returned"

ServingIsRedeemed == \A q \in serving : ticket[q] \in {"redeemed", "gone"}

FlagMeansToken == \A q \in Query : flag[q] => token[q]

ClosingIsSaid ==
    \A d \in Dataset : /\ closer[d] \in {"begun", "cancelled"} => d \in closing
                       /\ closer[d] = "done" => d \notin live

\* A ticket the client was told of is not pending, and a stream that is served was cancelled.
Withdrawn(q) == /\ query[q] = "returned" => ticket[q] # "pending"
                /\ q \in serving => token[q] \/ ticket[q] = "gone"

ClosedTickets == \A q \in Query : closer[on[q]] \in {"cancelled", "done"} => Withdrawn(q)

LiveIsUnmarked == \A d \in live : mark[d] = "none"

\* An attribution counts for at least as long as its ticket.
AttributionOutlives ==
    \A q \in attributed : /\ ticket[q] = "pending" => since[q] <= attrAt[q]
                          /\ ticket[q] = "redeemed" => since[q] <= attrAt[q] + TicketTtl

\* A ticket that can neither be redeemed nor is being served unreached.
Settled(q) == ~redeemable(q) /\ ((ticket[q] = "redeemed" /\ ~expired(q)) => flag[q])

UnattributedIsSettled ==
    \A q \in Query : (query[q] = "returned" /\ on[q] \in live /\ q \notin attributed) => Settled(q)

\* An end that is not over has still to cancel the ticket.
BeingEnded(q) == \E e \in Ender : ender[e] # "idle" /\ datasetOf(e) = on[q] /\ q \in toCancel[e]

EndReaches ==
    \A q \in Query : (mark[on[q]] # "none" /\ query[q] = "returned") => BeingEnded(q) \/ Settled(q)

\* The inductive invariant of OverIsOver, with that of SingleUse.
OverInv == /\ OverTypes /\ LookedIsReturned /\ AttributedIsReturned /\ ServingIsRedeemed
           /\ FlagMeansToken /\ ClosingIsSaid /\ ClosedTickets /\ LiveIsUnmarked
           /\ AttributionOutlives /\ UnattributedIsSettled /\ EndReaches

\* The sweep's values have their types, and lie in the past.
LEMMA SweptTypes ==
  ASSUME OverTypes
  PROVE  /\ sweptSince \in [Query -> Nat] /\ \A q \in Query : sweptSince[q] <= now
         /\ sweptTokens \in [Query -> BOOLEAN]
<1>1. \A q \in Query : IF expired(q) THEN 0 <= now ELSE since[q] <= now
  BY DEF OverTypes
<1> QED BY <1>1 DEF OverTypes, sweptSince, sweptTokens

LEMMA RetireTypes ==
  ASSUME OverTypes, NEW qs, NEW who, retire(qs, who)
  PROVE  /\ since' \in [Query -> Nat] /\ \A q \in Query : since'[q] <= now
         /\ token' \in [Query -> BOOLEAN] /\ flag' \in [Query -> BOOLEAN]
<1> DEFINE taken == {q \in qs : swept[q] = "pending"}
           reached == {q \in qs : swept[q] = "redeemed" /\ ~flag[q]}
<1>1. /\ since' = [q \in Query |-> IF q \in taken THEN now ELSE sweptSince[q]]
      /\ flag' = [q \in Query |-> flag[q] \/ q \in reached]
      /\ token' = [q \in Query |-> sweptTokens[q] \/ q \in taken \cup reached]
  BY DEF retire
<1> HIDE DEF taken, reached
<1> QED BY <1>1, SweptTypes DEF OverTypes

LEMMA PruneTypes ==
  ASSUME OverTypes, pruneOnly
  PROVE  /\ attributed' \subseteq Query /\ attrAt' \in [Query -> Nat]
         /\ UNCHANGED <<live, closing, mark>>
BY DEF OverTypes, pruneOnly, pruned, keptTimes

LEMMA BeginEndTypes ==
  ASSUME OverTypes, NEW e \in Ender, NEW d \in Dataset, NEW reason \in Reason, beginEnd(e, d, reason)
  PROVE  /\ attributed' \subseteq Query /\ attrAt' \in [Query -> Nat]
         /\ live' \subseteq Dataset /\ mark' \in [Dataset -> Reason \cup {"none"}]
         /\ ender' \in [Ender -> {"idle", "enqueue", "cancel"}]
         /\ toCancel' \in [Ender -> SUBSET Query]
         /\ now' = now /\ closing' = closing
<1>1. /\ ender' \in [Ender -> {"idle", "enqueue", "cancel"}]
      /\ toCancel' \in [Ender -> SUBSET Query] /\ now' = now
  BY DEF OverTypes, beginEnd
<1>2. invalidate(d, reason)
  BY DEF beginEnd
<1>3. CASE d \in live
  <2>1. /\ live' = live \ {d} /\ closing' = closing
        /\ mark' = [mark EXCEPT ![d] = IF mark[d] = "none" THEN reason ELSE mark[d]]
        /\ attributed' = pruned(attributed, live \ {d}) /\ attrAt' = keptTimes
    BY <1>2, <1>3 DEF invalidate
  <2>2. attributed' \subseteq Query
    BY <2>1 DEF OverTypes, pruned
  <2>3. attrAt' \in [Query -> Nat]
    BY <2>1 DEF OverTypes, keptTimes
  <2>4. mark' \in [Dataset -> Reason \cup {"none"}]
    BY <2>1 DEF OverTypes
  <2> QED BY <1>1, <2>1, <2>2, <2>3, <2>4 DEF OverTypes
<1>4. CASE d \notin live
  BY <1>1, <1>2, <1>4, PruneTypes DEF OverTypes, invalidate
<1> QED BY <1>3, <1>4

\* Every step keeps the types.
LEMMA OverTypesStep == OverTypes /\ [Next]_vars => OverTypes'
<1> SUFFICES ASSUME OverTypes, [Next]_vars PROVE OverTypes'
  OBVIOUS
<1> USE DEF OverTypes
<1>1. CASE Tick
  BY <1>1 DEF Tick, genVars, ticketVars, queryVars, redeemVars, endVars, closeVars
<1>2. ASSUME NEW q \in Query, Resolve(q) PROVE OverTypes'
  BY <1>2, SweptTypes DEF Resolve, sweepOnly, queryTo, genVars, redeemVars, endVars, closeVars
<1>3. ASSUME NEW q \in Query, RequireLive(q) PROVE OverTypes'
  BY <1>3, PruneTypes DEF RequireLive, queryTo, ticketVars, redeemVars, endVars, closeVars
<1>4. ASSUME NEW q \in Query, PreCheckFails(q) PROVE OverTypes'
  BY <1>4, BeginEndTypes DEF PreCheckFails, queryTo, ticketVars, redeemVars, closeVars, Ender, Reason
<1>5. ASSUME NEW q \in Query, QueryRefused(q) PROVE OverTypes'
  BY <1>5 DEF QueryRefused, queryTo, genVars, ticketVars, redeemVars, endVars, closeVars
<1>6. ASSUME NEW q \in Query, Mint(q) PROVE OverTypes'
  <2>1. /\ UNCHANGED <<now, genVars, redeemVars, endVars, closeVars, on, flag>>
        /\ since' = sweptSince \/ since' = [sweptSince EXCEPT ![q] = now]
        /\ token' = sweptTokens
    BY <1>6 DEF Mint, sweepOnly, queryTo
  <2>2. since' \in [Query -> Nat] /\ \A p \in Query : since'[p] <= now
    BY <2>1, SweptTypes
  <2> QED BY <2>1, <2>2, SweptTypes DEF genVars, redeemVars, endVars, closeVars
<1>7. ASSUME NEW q \in Query, Attribute(q) PROVE OverTypes'
  <2>1. UNCHANGED <<now, ticketVars, redeemVars, endVars, closeVars, on, live, closing, mark>>
    BY <1>7 DEF Attribute, queryTo, pruneOnly
  <2>2. attributed' \subseteq Query /\ attrAt' \in [Query -> Nat]
    <3>1. CASE isAttributable(on[q])
      <4>1. attributed' = pruned(attributed, live) \cup {q} /\ attrAt' = [keptTimes EXCEPT ![q] = now]
        BY <1>7, <3>1 DEF Attribute
      <4>2. keptTimes \in [Query -> Nat]
        BY DEF keptTimes
      <4>3. attributed' \subseteq Query
        BY <4>1 DEF pruned
      <4> QED BY <4>1, <4>2, <4>3
    <3>2. CASE ~isAttributable(on[q])
      BY <1>7, <3>2, PruneTypes DEF Attribute
    <3> QED BY <3>1, <3>2
  <2> QED BY <2>1, <2>2 DEF ticketVars, redeemVars, endVars, closeVars
<1>8. ASSUME NEW q \in Query, Withdraw(q) \/ Cancel(q) PROVE OverTypes'
  BY <1>8, RetireTypes DEF Withdraw, Cancel, queryTo, queryVars, genVars, redeemVars, endVars, closeVars
<1>9. ASSUME NEW q \in Query, PostCheck(q) PROVE OverTypes'
  BY <1>9, BeginEndTypes DEF PostCheck, queryVars, ticketVars, closeVars, Ender, Reason
<1>10. ASSUME NEW q \in Query, StreamEnds(q) PROVE OverTypes'
  BY <1>10 DEF StreamEnds, genVars, ticketVars, queryVars, endVars, closeVars
<1>11. ASSUME NEW q \in Query, NEW s \in Start, FirstLook(q, s) \/ SecondLook(q, s) PROVE OverTypes'
  <2>1. /\ pruneOnly /\ UNCHANGED <<now, serving, posted, uses, ticketVars, queryVars, endVars, closeVars>>
        /\ \E place \in {"looked", "done"} : redeem' = [redeem EXCEPT ![<<q, s>>] = place]
    BY <1>11 DEF FirstLook, SecondLook, redeemTo
  <2> QED BY <2>1, PruneTypes DEF ticketVars, queryVars, endVars, closeVars
<1>12. ASSUME NEW q \in Query, NEW s \in Start, Redeem(q, s) PROVE OverTypes'
  <2>1. /\ UNCHANGED <<now, genVars, queryVars, endVars, closeVars, flag>>
        /\ since' = sweptSince \/ since' = [sweptSince EXCEPT ![q] = now]
        /\ token' = sweptTokens /\ serving' \subseteq serving \cup {q}
        /\ \E place \in {"refused", "done"} : redeem' = [redeem EXCEPT ![<<q, s>>] = place]
    BY <1>12 DEF Redeem, sweepOnly, handedOut, redeemTo
  <2>2. since' \in [Query -> Nat] /\ \A p \in Query : since'[p] <= now
    BY <2>1, SweptTypes
  <2> QED BY <2>1, <2>2, SweptTypes DEF genVars, queryVars, endVars, closeVars
<1>13. ASSUME NEW e \in Ender, EndEnqueue(e) PROVE OverTypes'
  BY <1>13 DEF EndEnqueue, genVars, ticketVars, queryVars, redeemVars, closeVars
<1>14. ASSUME NEW e \in Ender, EndCancel(e) PROVE OverTypes'
  <2>1. PICK q \in toCancel[e] :
           /\ retire({q}, "end")
           /\ toCancel' = [toCancel EXCEPT ![e] = @ \ {q}]
           /\ ender' = [ender EXCEPT ![e] = IF toCancel[e] = {q} THEN "idle" ELSE "cancel"]
    BY <1>14 DEF EndCancel
  <2>2. UNCHANGED <<now, events, genVars, queryVars, redeemVars, closeVars>>
    BY <1>14 DEF EndCancel
  <2> QED BY <2>1, <2>2, RetireTypes DEF genVars, queryVars, redeemVars, closeVars
<1>15. ASSUME NEW d \in Dataset, WatchSignals(d) PROVE OverTypes'
  BY <1>15, BeginEndTypes DEF WatchSignals, ticketVars, queryVars, redeemVars, closeVars, Ender
<1>16. ASSUME NEW d \in Dataset, CloseDisarm(d) \/ CloseBegin(d) PROVE OverTypes'
  BY <1>16 DEF CloseDisarm, CloseBegin, closeTo, genVars, ticketVars, queryVars, redeemVars, endVars
<1>17. ASSUME NEW d \in Dataset, CloseCancel(d) PROVE OverTypes'
  BY <1>17, RetireTypes DEF CloseCancel, closeTo, genVars, queryVars, redeemVars, endVars
<1>18. ASSUME NEW d \in Dataset, CloseForget(d) PROVE OverTypes'
  BY <1>18 DEF CloseForget, closeTo, keptTimes, ticketVars, queryVars, redeemVars, endVars
<1>19. CASE UNCHANGED vars
  BY <1>19 DEF vars, genVars, ticketVars, queryVars, redeemVars, endVars, closeVars
<1> QED
  BY <1>1, <1>2, <1>3, <1>4, <1>5, <1>6, <1>7, <1>8, <1>9, <1>10, <1>11, <1>12, <1>13, <1>14,
     <1>15, <1>16, <1>17, <1>18, <1>19 DEF Next

-----------------------------------------------------------------------------
\* What a step of the stream registry may do to one entry.
EntryMoves(q) ==
    /\ flag[q] => flag'[q]
    /\ token[q] => token'[q]
    /\ flag'[q] => token'[q]
    /\ \/ /\ q \in serving' => q \in serving
          /\ \/ ticket'[q] = ticket[q] /\ since'[q] = since[q]
             \/ expired(q) /\ ticket'[q] = "gone"
             \/ ticket[q] = "pending" /\ ticket'[q] = "cancelled"
             \/ ticket[q] = "none" /\ ticket'[q] = "pending" /\ query[q] # "returned"
       \/ /\ ticket[q] = "pending" /\ ~expired(q) /\ query[q] = "returned"
          /\ ticket'[q] = "redeemed" /\ since'[q] = now

\* An entry that expired stays expired.
LEMMA ExpiredStays ==
  ASSUME OverTypes, NEW q \in Query, expired(q), now' \in Nat, now' >= now, UNCHANGED <<ticket, since>>
  PROVE  expired(q)'
<1>1. now \in Nat /\ since[q] \in Nat /\ TicketTtl \in Nat /\ MaxAge \in Nat
  BY ClockAssumption DEF OverTypes
<1>2. ticket'[q] = ticket[q] /\ since'[q] = since[q]
  OBVIOUS
<1>3. now' - since[q] > TicketTtl \/ ~(now - since[q] > TicketTtl)
  BY <1>1
<1>4. now' - since[q] > MaxAge \/ ~(now - since[q] > MaxAge)
  BY <1>1
<1> QED BY <1>2, <1>3, <1>4 DEF expired

\* A settled ticket stays so while its entry is left alone.
LEMMA SettledStays ==
  ASSUME OverTypes, NEW q \in Query, Settled(q), now' \in Nat, now' >= now,
         UNCHANGED <<ticket, since, flag>>
  PROVE  Settled(q)'
BY ExpiredStays DEF Settled, redeemable

\* An attribution that is dropped for its age belongs to a ticket that expired.
LEMMA StaleIsSettled ==
  ASSUME OverInv, NEW q \in attributed, ~(now - attrAt[q] <= attributionLife)
  PROVE  Settled(q)
<1>1. /\ q \in Query /\ now \in Nat /\ since[q] \in Nat /\ attrAt[q] \in Nat
      /\ TicketTtl \in Nat /\ MaxAge \in Nat
  BY ClockAssumption DEF OverInv, OverTypes
<1>2. now - attrAt[q] > TicketTtl + MaxAge
  BY <1>1 DEF attributionLife
<1>3. ticket[q] = "pending" => now - since[q] > TicketTtl
  BY <1>1, <1>2 DEF OverInv, AttributionOutlives
<1>4. ticket[q] = "redeemed" => now - since[q] > MaxAge
  BY <1>1, <1>2 DEF OverInv, AttributionOutlives
<1> QED BY <1>3, <1>4 DEF Settled, redeemable, expired

\* What the stream registry's steps keep, as long as the sessions are left alone.
LEMMA TicketSide ==
  ASSUME OverInv, OverTypes', UNCHANGED <<now, on, live, mark, attributed, attrAt>>,
         \A q \in Query : EntryMoves(q),
         \A q \in Query : query'[q] = "returned" <=> query[q] = "returned"
  PROVE  /\ AttributedIsReturned' /\ ServingIsRedeemed' /\ FlagMeansToken' /\ LiveIsUnmarked'
         /\ AttributionOutlives' /\ UnattributedIsSettled'
         /\ \A q \in Query : query[q] = "returned" /\ Settled(q) => Settled(q)'
         /\ \A q \in Query : Withdrawn(q) => Withdrawn(q)'
<1>0. /\ attributed \subseteq Query /\ serving \subseteq Query /\ serving' \subseteq Query
      /\ now \in Nat /\ TicketTtl \in Nat
      /\ \A q \in Query : since[q] \in Nat /\ attrAt[q] \in Nat /\ since'[q] \in Nat
  BY ClockAssumption DEF OverInv, OverTypes
<1>1. AttributedIsReturned' /\ LiveIsUnmarked'
  BY <1>0 DEF OverInv, AttributedIsReturned, LiveIsUnmarked
<1>2. FlagMeansToken'
  BY DEF FlagMeansToken, EntryMoves
<1>3. ServingIsRedeemed'
  BY <1>0 DEF OverInv, ServingIsRedeemed, EntryMoves
<1>4. AttributionOutlives'
  <2> SUFFICES ASSUME NEW q \in attributed
               PROVE  /\ ticket'[q] = "pending" => since'[q] <= attrAt[q]
                      /\ ticket'[q] = "redeemed" => since'[q] <= attrAt[q] + TicketTtl
    BY DEF AttributionOutlives
  <2>1. /\ q \in Query /\ EntryMoves(q) /\ query[q] = "returned"
        /\ ticket[q] = "pending" => since[q] <= attrAt[q]
        /\ ticket[q] = "redeemed" => since[q] <= attrAt[q] + TicketTtl
    BY <1>0 DEF OverInv, AttributionOutlives, AttributedIsReturned
  <2>2. CASE ticket'[q] = ticket[q] /\ since'[q] = since[q]
    BY <2>1, <2>2
  <2>3. CASE ticket'[q] \in {"gone", "cancelled"}
    BY <2>3
  <2>4. CASE ticket[q] = "pending" /\ ~expired(q) /\ ticket'[q] = "redeemed" /\ since'[q] = now
    <3>1. now - since[q] <= TicketTtl
      BY <1>0, <2>1, <2>4 DEF expired
    <3>2. since[q] <= attrAt[q]
      BY <2>1, <2>4
    <3>3. now <= attrAt[q] + TicketTtl
      BY <1>0, <2>1, <3>1, <3>2
    <3> QED BY <2>4, <3>3
  <2> QED BY <2>1, <2>2, <2>3, <2>4 DEF EntryMoves
<1>5. \A q \in Query : query[q] = "returned" /\ Settled(q) => Settled(q)'
  <2> SUFFICES ASSUME NEW q \in Query, query[q] = "returned", Settled(q) PROVE Settled(q)'
    OBVIOUS
  <2>1. EntryMoves(q)
    OBVIOUS
  <2>2. CASE ticket'[q] = ticket[q] /\ since'[q] = since[q]
    <3>1. expired(q)' <=> expired(q)
      BY <2>2 DEF expired
    <3> QED BY <2>1, <2>2, <3>1 DEF EntryMoves, Settled, redeemable
  <2>3. CASE ticket'[q] \in {"gone", "cancelled"}
    BY <2>3 DEF Settled, redeemable
  <2>4. ~(ticket[q] = "pending" /\ ~expired(q))
    BY DEF Settled, redeemable
  <2> QED BY <2>1, <2>2, <2>3, <2>4 DEF EntryMoves
<1>6. UnattributedIsSettled'
  BY <1>5 DEF OverInv, UnattributedIsSettled
<1>7. \A q \in Query : Withdrawn(q) => Withdrawn(q)'
  <2> SUFFICES ASSUME NEW q \in Query, Withdrawn(q) PROVE Withdrawn(q)'
    OBVIOUS
  <2>1. EntryMoves(q) /\ (query'[q] = "returned" <=> query[q] = "returned")
    OBVIOUS
  <2>2. q \in serving => ticket[q] \in {"redeemed", "gone"}
    BY DEF OverInv, ServingIsRedeemed
  <2>3. ticket[q] = "gone" => ~expired(q)
    BY DEF expired
  <2> QED BY <2>1, <2>2, <2>3 DEF EntryMoves, Withdrawn
<1> QED BY <1>1, <1>2, <1>3, <1>4, <1>5, <1>6, <1>7

\* A sweep.
LEMMA SweepMoves ==
  ASSUME OverInv, sweepOnly, UNCHANGED serving
  PROVE  \A q \in Query : EntryMoves(q)
<1> SUFFICES ASSUME NEW q \in Query PROVE EntryMoves(q)
  OBVIOUS
<1>1. /\ ticket'[q] = IF expired(q) THEN "gone" ELSE ticket[q]
      /\ since'[q] = IF expired(q) THEN 0 ELSE since[q]
      /\ token[q] => token'[q]
      /\ flag'[q] = flag[q]
  BY DEF sweepOnly, swept, sweptSince, sweptTokens
<1>2. flag[q] => token[q]
  BY DEF OverInv, FlagMeansToken
<1> QED BY <1>1, <1>2 DEF EntryMoves

\* Taking tickets back.
LEMMA RetireMoves ==
  ASSUME OverInv, NEW qs \in SUBSET Query, NEW who, retire(qs, who), UNCHANGED serving
  PROVE  /\ \A q \in Query : EntryMoves(q)
         /\ \A q \in qs : /\ ticket'[q] # "pending"
                          /\ ticket'[q] = "redeemed" => flag'[q] /\ token'[q]
         /\ \A q \in Query \ qs : ticket'[q] = swept[q]
<1> DEFINE taken == {q \in qs : swept[q] = "pending"}
           reached == {q \in qs : swept[q] = "redeemed" /\ ~flag[q]}
<1>1. /\ ticket' = [q \in Query |-> IF q \in taken THEN "cancelled" ELSE swept[q]]
      /\ since' = [q \in Query |-> IF q \in taken THEN now ELSE sweptSince[q]]
      /\ flag' = [q \in Query |-> flag[q] \/ q \in reached]
      /\ token' = [q \in Query |-> sweptTokens[q] \/ q \in taken \cup reached]
  BY DEF retire
<1>2. ASSUME NEW q \in Query
      PROVE  EntryMoves(q) /\ (q \in qs => /\ ticket'[q] # "pending"
                                           /\ ticket'[q] = "redeemed" => flag'[q] /\ token'[q])
  <2>1. flag[q] => token[q]
    BY DEF OverInv, FlagMeansToken
  <2>2. /\ swept[q] = IF expired(q) THEN "gone" ELSE ticket[q]
        /\ sweptSince[q] = IF expired(q) THEN 0 ELSE since[q]
        /\ token[q] => sweptTokens[q]
    BY DEF swept, sweptSince, sweptTokens
  <2>3. q \in taken => q \in qs /\ ticket[q] = "pending"
    BY <2>2
  <2>4. q \in qs /\ q \notin taken => swept[q] # "pending"
    OBVIOUS
  <2>5. q \in qs /\ swept[q] = "redeemed" => flag[q] \/ q \in reached
    OBVIOUS
  <2> HIDE DEF taken, reached
  <2>6. EntryMoves(q)
    BY <1>1, <2>1, <2>2, <2>3 DEF EntryMoves
  <2>7. q \in qs => ticket'[q] # "pending"
    BY <1>1, <2>4
  <2>8. q \in qs /\ ticket'[q] = "redeemed" => flag'[q] /\ token'[q]
    BY <1>1, <2>1, <2>2, <2>5
  <2> QED BY <2>6, <2>7, <2>8
<1>3. \A q \in Query \ qs : ticket'[q] = swept[q]
  BY <1>1
<1> QED BY <1>2, <1>3

\* What the session registry's steps keep, as long as the tickets are left alone.
LEMMA SessionSide ==
  ASSUME OverInv, UNCHANGED <<now, ticket, since, flag, token, on>>, serving' \subseteq serving,
         live' \subseteq live,
         \A q \in attributed : /\ q \in attributed' => attrAt'[q] = attrAt[q]
                               /\ q \notin attributed' => \/ on[q] \notin live'
                                                          \/ ~(now - attrAt[q] <= attributionLife),
         \A q \in attributed' : q \in attributed \/ (q \in Query /\ query'[q] = "returned" /\ attrAt'[q] = now),
         \A q \in Query : query[q] = "returned" => query'[q] = "returned",
         \A q \in Query : query'[q] = "returned" => query[q] = "returned" \/ q \in attributed'
  PROVE  /\ AttributedIsReturned' /\ ServingIsRedeemed' /\ FlagMeansToken'
         /\ AttributionOutlives' /\ UnattributedIsSettled'
         /\ \A q \in Query : Settled(q)' <=> Settled(q)
<1>0. /\ attributed \subseteq Query /\ serving \subseteq Query /\ now \in Nat /\ TicketTtl \in Nat
      /\ \A q \in Query : since[q] \in Nat /\ since[q] <= now
  BY ClockAssumption DEF OverInv, OverTypes
<1>1. \A q \in Query : Settled(q)' <=> Settled(q)
  BY DEF Settled, redeemable, expired
<1>2. AttributedIsReturned' /\ FlagMeansToken'
  BY <1>0 DEF OverInv, AttributedIsReturned, FlagMeansToken
<1>3. ServingIsRedeemed'
  BY DEF OverInv, ServingIsRedeemed
<1>4. AttributionOutlives'
  <2> SUFFICES ASSUME NEW q \in attributed'
               PROVE  /\ ticket[q] = "pending" => since[q] <= attrAt'[q]
                      /\ ticket[q] = "redeemed" => since[q] <= attrAt'[q] + TicketTtl
    BY DEF AttributionOutlives
  <2>1. CASE q \in attributed
    BY <2>1 DEF OverInv, AttributionOutlives
  <2>2. CASE q \in Query /\ attrAt'[q] = now
    BY <1>0, <2>2
  <2> QED BY <2>1, <2>2
<1>5. UnattributedIsSettled'
  <2> SUFFICES ASSUME NEW q \in Query, query'[q] = "returned", on[q] \in live', q \notin attributed'
               PROVE  Settled(q)
    BY <1>1 DEF UnattributedIsSettled
  <2>1. query[q] = "returned" /\ on[q] \in live
    OBVIOUS
  <2>2. CASE q \in attributed
    BY <2>2, StaleIsSettled
  <2>3. CASE q \notin attributed
    BY <2>1, <2>3 DEF OverInv, UnattributedIsSettled
  <2> QED BY <2>2, <2>3
<1> QED BY <1>1, <1>2, <1>3, <1>4, <1>5

\* An end that is under way goes on.
LEMMA EndGoesOn ==
  ASSUME OverInv, UNCHANGED <<ender, toCancel, on>>,
         \A d \in Dataset : mark'[d] = mark[d] \/ mark'[d] = "none",
         \A q \in Query : query'[q] = "returned" /\ mark[on[q]] # "none" => query[q] = "returned",
         \A q \in Query : query[q] = "returned" /\ Settled(q) => Settled(q)'
  PROVE  EndReaches'
<1>1. \A q \in Query : on[q] \in Dataset
  BY DEF OverInv, OverTypes
<1>2. \A q \in Query : BeingEnded(q)' <=> BeingEnded(q)
  BY DEF BeingEnded, datasetOf
<1> QED BY <1>1, <1>2 DEF OverInv, EndReaches

\* A step of the stream registry alone.
LEMMA TicketStepKeeps ==
  ASSUME OverInv, OverTypes', UNCHANGED <<now, genVars, on, endVars, closer>>,
         \A q \in Query : EntryMoves(q),
         \A q \in Query : query'[q] = "returned" <=> query[q] = "returned",
         \A q \in Query, s \in Start : redeem'[<<q, s>>] # "idle" => redeem[<<q, s>>] # "idle"
  PROVE  OverInv'
<1>0. UNCHANGED <<live, closing, mark, attributed, attrAt, ender, toCancel>>
  BY DEF genVars, endVars
<1>1. /\ AttributedIsReturned' /\ ServingIsRedeemed' /\ FlagMeansToken' /\ LiveIsUnmarked'
      /\ AttributionOutlives' /\ UnattributedIsSettled'
      /\ \A q \in Query : query[q] = "returned" /\ Settled(q) => Settled(q)'
      /\ \A q \in Query : Withdrawn(q) => Withdrawn(q)'
  BY <1>0, TicketSide
<1>2. LookedIsReturned' /\ ClosingIsSaid'
  BY <1>0 DEF OverInv, LookedIsReturned, ClosingIsSaid
<1>3. ClosedTickets'
  BY <1>1 DEF OverInv, ClosedTickets
<1>4. EndReaches'
  BY <1>0, <1>1, EndGoesOn
<1> QED BY <1>1, <1>2, <1>3, <1>4 DEF OverInv

\* Recording an end: what was attributed is about to be cancelled, and the rest was settled.
LEMMA BeginEndOver ==
  ASSUME OverInv, OverTypes', NEW e \in Ender, NEW reason \in Reason,
         beginEnd(e, datasetOf(e), reason),
         UNCHANGED <<ticketVars, on, closer, redeem>>, serving' \subseteq serving,
         \A q \in Query : query'[q] = "returned" <=> query[q] = "returned"
  PROVE  OverInv'
<1> DEFINE d == datasetOf(e)
<1>0. /\ now' = now /\ ender[e] = "idle" /\ UNCHANGED <<ticket, since, flag, token>>
      /\ ender' = [ender EXCEPT ![e] = IF d \in live THEN "enqueue" ELSE "idle"]
      /\ toCancel' = [toCancel EXCEPT ![e] = IF d \in live THEN {q \in attributed : on[q] = d} ELSE {}]
      /\ invalidate(d, reason)
  BY DEF beginEnd, reports, ticketVars
<1>1. /\ on \in [Query -> Dataset] /\ d \in Dataset /\ attributed \subseteq Query /\ live \subseteq Dataset
      /\ ender \in [Ender -> {"idle", "enqueue", "cancel"}] /\ toCancel \in [Ender -> SUBSET Query]
      /\ mark \in [Dataset -> Reason \cup {"none"}] /\ serving \subseteq Query
  BY CallerHasDataset DEF OverInv, OverTypes
<1>2. \A f \in Ender : datasetOf(f)' = datasetOf(f)
  BY DEF datasetOf
<1> HIDE DEF d
<1>3. /\ live' = live \ {d} /\ closing' = closing
      /\ attributed' = {q \in attributed : now - attrAt[q] <= attributionLife /\ on[q] \in live'}
      /\ attrAt' = [q \in Query |-> IF q \in attributed' THEN attrAt[q] ELSE 0]
      /\ \A x \in Dataset : x # d => mark'[x] = mark[x]
      /\ d \notin live => mark' = mark
  <2>1. CASE d \in live
    <3>1. /\ live' = live \ {d} /\ closing' = closing
          /\ attributed' = pruned(attributed, live \ {d}) /\ attrAt' = keptTimes
          /\ mark' = [mark EXCEPT ![d] = IF mark[d] = "none" THEN reason ELSE mark[d]]
      BY <1>0, <2>1 DEF invalidate
    <3> QED BY <1>1, <2>1, <3>1 DEF pruned, isFresh, keptTimes
  <2>2. CASE d \notin live
    <3>1. /\ live' = live /\ closing' = closing /\ mark' = mark
          /\ attributed' = pruned(attributed, live) /\ attrAt' = keptTimes
      BY <1>0, <2>2 DEF invalidate, pruneOnly
    <3>2. live \ {d} = live
      BY <2>2
    <3> QED BY <1>1, <2>2, <3>1, <3>2 DEF pruned, isFresh, keptTimes
  <2> QED BY <2>1, <2>2
<1>4. /\ AttributedIsReturned' /\ ServingIsRedeemed' /\ FlagMeansToken'
      /\ AttributionOutlives' /\ UnattributedIsSettled'
      /\ \A q \in Query : Settled(q)' <=> Settled(q)
  BY <1>0, <1>1, <1>3, SessionSide
<1>5. LookedIsReturned' /\ ClosingIsSaid' /\ LiveIsUnmarked'
  BY <1>1, <1>3 DEF OverInv, LookedIsReturned, ClosingIsSaid, LiveIsUnmarked
<1>6. ClosedTickets'
  BY <1>0 DEF OverInv, ClosedTickets, Withdrawn
<1>7. EndReaches'
  <2> SUFFICES ASSUME NEW q \in Query, mark'[on[q]] # "none", query[q] = "returned"
               PROVE  BeingEnded(q)' \/ Settled(q)
    BY <1>4 DEF EndReaches
  <2>1. CASE on[q] = d /\ d \in live
    <3>1. CASE q \in attributed
      BY <1>0, <1>1, <1>2, <2>1, <3>1 DEF BeingEnded, d
    <3>2. CASE q \notin attributed
      BY <2>1, <3>2 DEF OverInv, UnattributedIsSettled
    <3> QED BY <3>1, <3>2
  <2>2. CASE ~(on[q] = d /\ d \in live)
    <3>1. BeingEnded(q) \/ Settled(q)
      BY <1>1, <1>3, <2>2 DEF OverInv, EndReaches
    <3>2. BeingEnded(q) => BeingEnded(q)'
      <4> SUFFICES ASSUME NEW f \in Ender, ender[f] # "idle", datasetOf(f) = on[q], q \in toCancel[f]
                   PROVE  BeingEnded(q)'
        BY DEF BeingEnded
      <4>1. f # e
        BY <1>0
      <4> QED BY <1>0, <1>1, <1>2, <4>1 DEF BeingEnded
    <3> QED BY <3>1, <3>2
  <2> QED BY <2>1, <2>2
<1> QED BY <1>4, <1>5, <1>6, <1>7 DEF OverInv

\* A prune drops only attributions that are stale or of no live session.
LEMMA PruneKeeps ==
  ASSUME OverInv, OverTypes', pruneOnly, UNCHANGED <<now, ticketVars, on, endVars, closer>>,
         serving' \subseteq serving,
         \A q \in Query : query'[q] = "returned" <=> query[q] = "returned",
         LookedIsReturned'
  PROVE  OverInv'
<1>1. /\ attributed' = {q \in attributed : now - attrAt[q] <= attributionLife /\ on[q] \in live}
      /\ attrAt' = [q \in Query |-> IF q \in attributed' THEN attrAt[q] ELSE 0]
      /\ UNCHANGED <<live, closing, mark>>
  BY DEF pruneOnly, pruned, isFresh, keptTimes
<1>2. UNCHANGED <<ticket, since, flag, token, ender, toCancel>>
  BY DEF ticketVars, endVars
<1>3. attributed \subseteq Query
  BY DEF OverInv, OverTypes
<1>4. /\ AttributedIsReturned' /\ ServingIsRedeemed' /\ FlagMeansToken'
      /\ AttributionOutlives' /\ UnattributedIsSettled'
      /\ \A q \in Query : Settled(q)' <=> Settled(q)
  BY <1>1, <1>2, <1>3, SessionSide
<1>5. ClosingIsSaid' /\ LiveIsUnmarked'
  BY <1>1 DEF OverInv, ClosingIsSaid, LiveIsUnmarked
<1>6. ClosedTickets'
  BY <1>2 DEF OverInv, ClosedTickets, Withdrawn
<1>7. EndReaches'
  BY <1>1, <1>2, <1>4, EndGoesOn
<1> QED BY <1>4, <1>5, <1>6, <1>7 DEF OverInv

\* A step that leaves the entries alone.
LEMMA IdleMoves ==
  ASSUME OverInv, UNCHANGED ticketVars, serving' \subseteq serving
  PROVE  \A q \in Query : EntryMoves(q)
BY DEF OverInv, FlagMeansToken, EntryMoves, ticketVars

\* A query's step that neither returns its ticket nor comes after it did.
LEMMA QueryMoves ==
  ASSUME TicketTypes, NEW q \in Query, query[q] # "returned", NEW place, place # "returned",
         queryTo(q, place)
  PROVE  /\ \A p \in Query : query'[p] = "returned" <=> query[p] = "returned"
         /\ on' = on
BY DEF TicketTypes, queryTo

\* Every step keeps the invariant.
LEMMA OverStep == TicketInv /\ OverInv /\ [Next]_vars => OverInv'
<1> SUFFICES ASSUME TicketInv, OverInv, [Next]_vars PROVE OverInv'
  OBVIOUS
<1>0. OverTypes' /\ OverTypes /\ TicketTypes
  BY OverTypesStep DEF OverInv, TicketInv
<1>1. CASE Tick
  <2>1. /\ now' = now + 1
        /\ UNCHANGED <<live, closing, mark, attributed, attrAt, ticket, since, flag, token, on, query,
                       serving, redeem, ender, toCancel, closer>>
    BY <1>1 DEF Tick, genVars, ticketVars, queryVars, redeemVars, endVars, closeVars
  <2>2. now' \in Nat /\ now' >= now
    BY <1>0, <2>1 DEF OverTypes
  <2>3. \A q \in Query : Settled(q) => Settled(q)'
    BY <1>0, <2>1, <2>2, SettledStays
  <2>4. /\ LookedIsReturned' /\ AttributedIsReturned' /\ ServingIsRedeemed' /\ FlagMeansToken'
        /\ ClosingIsSaid' /\ LiveIsUnmarked' /\ AttributionOutlives'
    BY <2>1 DEF OverInv, LookedIsReturned, AttributedIsReturned, ServingIsRedeemed, FlagMeansToken,
                ClosingIsSaid, LiveIsUnmarked, AttributionOutlives
  <2>5. ClosedTickets'
    BY <2>1 DEF OverInv, ClosedTickets, Withdrawn
  <2>6. UnattributedIsSettled'
    BY <2>1, <2>3 DEF OverInv, UnattributedIsSettled
  <2>7. EndReaches'
    BY <2>1, <2>3, EndGoesOn
  <2> QED BY <1>0, <2>4, <2>5, <2>6, <2>7 DEF OverInv
<1>2. ASSUME NEW q \in Query, Resolve(q) PROVE OverInv'
  <2>1. /\ sweepOnly /\ UNCHANGED <<now, genVars, redeemVars, endVars, closeVars>>
        /\ query[q] = "idle" /\ \E place \in {"resolved", "refused"} : queryTo(q, place)
    BY <1>2 DEF Resolve
  <2>2. (\A p \in Query : query'[p] = "returned" <=> query[p] = "returned") /\ on' = on
    BY <1>0, <2>1, QueryMoves
  <2>3. \A p \in Query : EntryMoves(p)
    BY <2>1, SweepMoves DEF redeemVars
  <2> QED BY <1>0, <2>1, <2>2, <2>3, TicketStepKeeps DEF redeemVars, closeVars
<1>3. ASSUME NEW q \in Query, RequireLive(q) PROVE OverInv'
  <2>1. /\ pruneOnly /\ UNCHANGED <<now, ticketVars, redeemVars, endVars, closeVars>>
        /\ query[q] = "resolved" /\ \E place \in {"checked", "refused"} : queryTo(q, place)
    BY <1>3 DEF RequireLive
  <2>2. (\A p \in Query : query'[p] = "returned" <=> query[p] = "returned") /\ on' = on
    BY <1>0, <2>1, QueryMoves
  <2>3. LookedIsReturned'
    BY <2>1, <2>2 DEF OverInv, LookedIsReturned, redeemVars
  <2> QED BY <1>0, <2>1, <2>2, <2>3, PruneKeeps DEF redeemVars, closeVars
<1>4. ASSUME NEW q \in Query, PreCheckFails(q) PROVE OverInv'
  <2>1. q \in Ender /\ datasetOf(q) = on[q] /\ "change" \in Reason
    BY CallerAssumption DEF Ender, datasetOf, Reason
  <2>2. /\ beginEnd(q, on[q], "change") /\ UNCHANGED <<ticketVars, redeemVars, closeVars>>
        /\ query[q] = "checked" /\ queryTo(q, "ending")
    BY <1>4 DEF PreCheckFails
  <2>3. (\A p \in Query : query'[p] = "returned" <=> query[p] = "returned") /\ on' = on
    BY <1>0, <2>2, QueryMoves
  <2> QED BY <1>0, <2>1, <2>2, <2>3, BeginEndOver DEF redeemVars, closeVars
<1>5. ASSUME NEW q \in Query, QueryRefused(q) PROVE OverInv'
  <2>1. /\ UNCHANGED <<now, genVars, ticketVars, redeemVars, endVars, closeVars>>
        /\ query[q] # "returned" /\ queryTo(q, "refused")
    BY <1>5 DEF QueryRefused
  <2>2. (\A p \in Query : query'[p] = "returned" <=> query[p] = "returned") /\ on' = on
    BY <1>0, <2>1, QueryMoves
  <2>3. \A p \in Query : EntryMoves(p)
    BY <2>1, IdleMoves DEF redeemVars
  <2> QED BY <1>0, <2>1, <2>2, <2>3, TicketStepKeeps DEF redeemVars, closeVars
<1>6. ASSUME NEW q \in Query, Mint(q) PROVE OverInv'
  <2>1. /\ UNCHANGED <<now, genVars, redeemVars, endVars, closeVars>>
        /\ query[q] = "checked" /\ \E place \in {"minted", "refused"} : queryTo(q, place)
    BY <1>6 DEF Mint
  <2>2. (\A p \in Query : query'[p] = "returned" <=> query[p] = "returned") /\ on' = on
    BY <1>0, <2>1, QueryMoves
  <2>3. \A p \in Query : EntryMoves(p)
    <3>1. CASE ~hasRoom(on[q])
      BY <1>6, <2>1, <3>1, SweepMoves DEF Mint, redeemVars
    <3>2. CASE hasRoom(on[q])
      <4>1. /\ ticket' = [swept EXCEPT ![q] = "pending"] /\ since' = [sweptSince EXCEPT ![q] = now]
            /\ token' = sweptTokens /\ flag' = flag /\ serving' = serving /\ ticket[q] = "none"
        BY <1>6, <2>1, <3>2 DEF Mint, redeemVars, TicketInv, MintedOnce
      <4> SUFFICES ASSUME NEW p \in Query PROVE EntryMoves(p)
        OBVIOUS
      <4>2. (flag[p] => token[p]) /\ (token[p] => token'[p])
        BY <4>1 DEF OverInv, FlagMeansToken, sweptTokens
      <4>3. CASE p = q
        BY <2>1, <4>1, <4>2, <4>3 DEF EntryMoves, swept
      <4>4. CASE p # q
        <5>1. /\ ticket'[p] = IF expired(p) THEN "gone" ELSE ticket[p]
              /\ since'[p] = IF expired(p) THEN 0 ELSE since[p]
          BY <4>1, <4>4 DEF swept, sweptSince
        <5> QED BY <4>1, <4>2, <5>1 DEF EntryMoves
      <4> QED BY <4>3, <4>4
    <3> QED BY <3>1, <3>2
  <2> QED BY <1>0, <2>1, <2>2, <2>3, TicketStepKeeps DEF redeemVars, closeVars
<1>7. ASSUME NEW q \in Query, Attribute(q) PROVE OverInv'
  <2>0. UNCHANGED <<now, ticketVars, redeemVars, endVars, closeVars>> /\ query[q] = "minted"
    BY <1>7 DEF Attribute
  <2>1. CASE ~isAttributable(on[q])
    <3>1. pruneOnly /\ queryTo(q, "withdrawing")
      BY <1>7, <2>1 DEF Attribute
    <3>2. (\A p \in Query : query'[p] = "returned" <=> query[p] = "returned") /\ on' = on
      BY <1>0, <2>0, <3>1, QueryMoves
    <3>3. LookedIsReturned'
      BY <2>0, <3>2 DEF OverInv, LookedIsReturned, redeemVars
    <3> QED BY <1>0, <2>0, <3>1, <3>2, <3>3, PruneKeeps DEF redeemVars, closeVars
  <2>2. CASE isAttributable(on[q])
    <3>1. /\ attributed' = pruned(attributed, live) \cup {q} /\ attrAt' = [keptTimes EXCEPT ![q] = now]
          /\ query' = [query EXCEPT ![q] = "returned"] /\ on' = on
          /\ UNCHANGED <<live, closing, mark, ticket, since, flag, token, serving, redeem, ender,
                         toCancel, closer>>
      BY <1>7, <2>0, <2>2 DEF Attribute, queryTo, ticketVars, redeemVars, endVars, closeVars
    <3>2. /\ attributed \subseteq Query /\ on \in [Query -> Dataset]
          /\ query' \in [Query -> {"idle", "resolved", "checked", "ending", "minted",
                                   "withdrawing", "returned", "refused"}]
          /\ query'[q] = "returned" /\ \A p \in Query : p # q => query'[p] = query[p]
      BY <1>0, <3>1 DEF OverTypes, TicketTypes
    <3>3. q \notin attributed
      BY <2>0 DEF OverInv, AttributedIsReturned
    <3>4. \A p \in Query : attrAt'[p] = IF p = q THEN now ELSE IF p \in attributed' THEN attrAt[p] ELSE 0
      BY <3>1 DEF keptTimes
    <3>5. attributed' = {p \in attributed : now - attrAt[p] <= attributionLife /\ on[p] \in live} \cup {q}
      BY <3>1 DEF pruned, isFresh
    <3>6. /\ AttributedIsReturned' /\ ServingIsRedeemed' /\ FlagMeansToken'
          /\ AttributionOutlives' /\ UnattributedIsSettled'
          /\ \A p \in Query : Settled(p)' <=> Settled(p)
      <4>1. \A p \in attributed : /\ p \in attributed' => attrAt'[p] = attrAt[p]
                                  /\ p \notin attributed' => \/ on[p] \notin live'
                                                             \/ ~(now - attrAt[p] <= attributionLife)
        BY <3>1, <3>2, <3>3, <3>4, <3>5
      <4>2. \A p \in attributed' : p \in attributed \/ (p \in Query /\ query'[p] = "returned" /\ attrAt'[p] = now)
        BY <3>2, <3>4, <3>5
      <4>3. \A p \in Query : query[p] = "returned" => query'[p] = "returned"
        BY <3>2
      <4>4. \A p \in Query : query'[p] = "returned" => query[p] = "returned" \/ p \in attributed'
        BY <3>2, <3>5
      <4> QED BY <2>0, <3>1, <4>1, <4>2, <4>3, <4>4, SessionSide
    <3>7. LookedIsReturned' /\ ClosingIsSaid' /\ LiveIsUnmarked'
      BY <3>1, <3>2 DEF OverInv, LookedIsReturned, ClosingIsSaid, LiveIsUnmarked
    <3>8. on[q] \in live /\ on[q] \in Dataset /\ closer[on[q]] \notin {"begun", "cancelled", "done"}
      BY <2>2, <3>2 DEF isAttributable, OverInv, ClosingIsSaid
    <3>9. ClosedTickets'
      BY <3>1, <3>2, <3>8 DEF OverInv, ClosedTickets, Withdrawn
    <3>10. EndReaches'
      <4>1. mark[on[q]] = "none"
        BY <3>8 DEF OverInv, LiveIsUnmarked
      <4> QED BY <3>1, <3>2, <3>6, <4>1, EndGoesOn
    <3> QED BY <1>0, <3>6, <3>7, <3>9, <3>10 DEF OverInv
  <2> QED BY <2>1, <2>2
<1>8. ASSUME NEW q \in Query, Withdraw(q) PROVE OverInv'
  <2>1. /\ retire({q}, "unattributed") /\ UNCHANGED <<now, genVars, redeemVars, endVars, closeVars>>
        /\ query[q] = "withdrawing" /\ queryTo(q, "refused")
    BY <1>8 DEF Withdraw
  <2>2. (\A p \in Query : query'[p] = "returned" <=> query[p] = "returned") /\ on' = on
    BY <1>0, <2>1, QueryMoves
  <2>3. \A p \in Query : EntryMoves(p)
    BY <2>1, RetireMoves DEF redeemVars
  <2> QED BY <1>0, <2>1, <2>2, <2>3, TicketStepKeeps DEF redeemVars, closeVars
<1>9. ASSUME NEW q \in Query, Cancel(q) PROVE OverInv'
  <2>1. retire({q}, "client") /\ UNCHANGED <<now, genVars, queryVars, redeemVars, endVars, closeVars>>
    BY <1>9 DEF Cancel
  <2>2. \A p \in Query : EntryMoves(p)
    BY <2>1, RetireMoves DEF redeemVars
  <2> QED BY <1>0, <2>1, <2>2, TicketStepKeeps DEF queryVars, redeemVars, closeVars
<1>10. ASSUME NEW q \in Query, PostCheck(q) PROVE OverInv'
  <2>1. q \in Ender /\ datasetOf(q) = on[q] /\ "change" \in Reason
    BY CallerAssumption DEF Ender, datasetOf, Reason
  <2>2. /\ beginEnd(q, on[q], "change") /\ UNCHANGED <<redeem, ticketVars, queryVars, closeVars>>
        /\ serving' \subseteq serving
    BY <1>10 DEF PostCheck
  <2> QED BY <1>0, <2>1, <2>2, BeginEndOver DEF queryVars, closeVars
<1>11. ASSUME NEW q \in Query, StreamEnds(q) PROVE OverInv'
  <2>1. /\ UNCHANGED <<now, genVars, ticketVars, queryVars, redeem, endVars, closeVars>>
        /\ serving' \subseteq serving
    BY <1>11 DEF StreamEnds
  <2>2. \A p \in Query : EntryMoves(p)
    BY <2>1, IdleMoves
  <2> QED BY <1>0, <2>1, <2>2, TicketStepKeeps DEF queryVars, closeVars
<1>12. ASSUME NEW q \in Query, NEW s \in Start, FirstLook(q, s) \/ SecondLook(q, s) PROVE OverInv'
  <2>1. /\ pruneOnly /\ UNCHANGED <<now, serving, ticketVars, queryVars, endVars, closeVars>>
        /\ \E place \in {"looked", "done"} : redeem' = [redeem EXCEPT ![<<q, s>>] = place]
        /\ query[q] = "returned"
    BY <1>12 DEF FirstLook, SecondLook, redeemTo, OverInv, LookedIsReturned
  <2>2. LookedIsReturned'
    BY <1>0, <2>1 DEF OverInv, OverTypes, LookedIsReturned, queryVars
  <2> QED BY <1>0, <2>1, <2>2, PruneKeeps DEF queryVars, closeVars
<1>13. ASSUME NEW q \in Query, NEW s \in Start, Redeem(q, s) PROVE OverInv'
  <2>1. /\ UNCHANGED <<now, genVars, queryVars, endVars, closeVars>>
        /\ redeem[<<q, s>>] = "looked" /\ query[q] = "returned"
        /\ \E place \in {"refused", "done"} : redeem' = [redeem EXCEPT ![<<q, s>>] = place]
    BY <1>13 DEF Redeem, redeemTo, OverInv, LookedIsReturned
  <2>2. \A p \in Query, t \in Start : redeem'[<<p, t>>] # "idle" => redeem[<<p, t>>] # "idle"
    <3> SUFFICES ASSUME NEW p \in Query, NEW t \in Start, redeem[<<p, t>>] = "idle"
                 PROVE  redeem'[<<p, t>>] = "idle"
      OBVIOUS
    <3>1. <<p, t>> # <<q, s>>
      BY <2>1
    <3>2. PICK place \in {"refused", "done"} : redeem' = [redeem EXCEPT ![<<q, s>>] = place]
      BY <2>1
    <3>3. redeem'[<<p, t>>] = redeem[<<p, t>>]
      BY <1>0, <3>1, <3>2 DEF OverTypes
    <3> QED BY <3>3
  <2>3. \A p \in Query : EntryMoves(p)
    <3>1. CASE swept[q] # "pending"
      BY <1>13, <3>1, SweepMoves DEF Redeem
    <3>2. CASE swept[q] = "pending"
      <4>1. /\ ticket' = [swept EXCEPT ![q] = "redeemed"] /\ since' = [sweptSince EXCEPT ![q] = now]
            /\ token' = sweptTokens /\ flag' = flag /\ serving' = serving \cup {q}
            /\ ticket[q] = "pending" /\ ~expired(q)
        BY <1>13, <3>2 DEF Redeem, handedOut, swept
      <4> SUFFICES ASSUME NEW p \in Query PROVE EntryMoves(p)
        OBVIOUS
      <4>2. (flag[p] => token[p]) /\ (token[p] => token'[p])
        BY <4>1 DEF OverInv, FlagMeansToken, sweptTokens
      <4>3. CASE p = q
        BY <2>1, <4>1, <4>2, <4>3 DEF EntryMoves, swept, sweptSince
      <4>4. CASE p # q
        <5>1. /\ ticket'[p] = IF expired(p) THEN "gone" ELSE ticket[p]
              /\ since'[p] = IF expired(p) THEN 0 ELSE since[p]
          BY <4>1, <4>4 DEF swept, sweptSince
        <5> QED BY <4>1, <4>2, <4>4, <5>1 DEF EntryMoves
      <4> QED BY <4>3, <4>4
    <3> QED BY <3>1, <3>2
  <2> QED BY <1>0, <2>1, <2>2, <2>3, TicketStepKeeps DEF queryVars, closeVars
<1>14. ASSUME NEW e \in Ender, EndEnqueue(e) PROVE OverInv'
  <2>1. /\ UNCHANGED <<now, toCancel, genVars, ticketVars, queryVars, redeemVars, closeVars>>
        /\ ender' = [ender EXCEPT ![e] = IF toCancel[e] = {} THEN "idle" ELSE "cancel"]
    BY <1>14 DEF EndEnqueue
  <2>2. UNCHANGED <<live, closing, mark, attributed, attrAt, ticket, since, flag, token, on, query,
                    serving, redeem, closer>>
    BY <2>1 DEF genVars, ticketVars, queryVars, redeemVars, closeVars
  <2>3. \A p \in Query : EntryMoves(p)
    BY <2>1, <2>2, IdleMoves
  <2>4. /\ AttributedIsReturned' /\ ServingIsRedeemed' /\ FlagMeansToken' /\ LiveIsUnmarked'
        /\ AttributionOutlives' /\ UnattributedIsSettled'
        /\ \A q \in Query : query[q] = "returned" /\ Settled(q) => Settled(q)'
        /\ \A q \in Query : Withdrawn(q) => Withdrawn(q)'
    BY <1>0, <2>1, <2>2, <2>3, TicketSide
  <2>5. LookedIsReturned' /\ ClosingIsSaid' /\ ClosedTickets'
    BY <2>2, <2>4 DEF OverInv, LookedIsReturned, ClosingIsSaid, ClosedTickets
  <2>6. \A q \in Query : BeingEnded(q) => BeingEnded(q)'
    <3> SUFFICES ASSUME NEW q \in Query, NEW f \in Ender,
                        ender[f] # "idle", datasetOf(f) = on[q], q \in toCancel[f]
                 PROVE  BeingEnded(q)'
      BY DEF BeingEnded
    <3>1. ender'[f] # "idle" /\ datasetOf(f)' = on'[q] /\ q \in toCancel'[f]
      BY <1>0, <2>1, <2>2 DEF OverTypes, datasetOf
    <3> QED BY <3>1 DEF BeingEnded
  <2>7. EndReaches'
    BY <2>2, <2>4, <2>6 DEF OverInv, EndReaches
  <2> QED BY <1>0, <2>4, <2>5, <2>7 DEF OverInv
<1>15. ASSUME NEW e \in Ender, EndCancel(e) PROVE OverInv'
  <2>1. PICK q \in toCancel[e] :
           /\ retire({q}, "end")
           /\ toCancel' = [toCancel EXCEPT ![e] = @ \ {q}]
           /\ ender' = [ender EXCEPT ![e] = IF toCancel[e] = {q} THEN "idle" ELSE "cancel"]
    BY <1>15 DEF EndCancel
  <2>2. /\ q \in Query
        /\ UNCHANGED <<now, live, closing, mark, attributed, attrAt, on, query, serving, redeem, closer>>
    BY <1>0, <1>15 DEF EndCancel, OverTypes, genVars, queryVars, redeemVars, closeVars
  <2>3. /\ \A p \in Query : EntryMoves(p)
        /\ ticket'[q] # "pending" /\ (ticket'[q] = "redeemed" => flag'[q])
    BY <2>1, <2>2, RetireMoves
  <2>4. /\ AttributedIsReturned' /\ ServingIsRedeemed' /\ FlagMeansToken' /\ LiveIsUnmarked'
        /\ AttributionOutlives' /\ UnattributedIsSettled'
        /\ \A p \in Query : query[p] = "returned" /\ Settled(p) => Settled(p)'
        /\ \A p \in Query : Withdrawn(p) => Withdrawn(p)'
    BY <1>0, <2>2, <2>3, TicketSide
  <2>5. LookedIsReturned' /\ ClosingIsSaid' /\ ClosedTickets'
    BY <2>2, <2>4 DEF OverInv, LookedIsReturned, ClosingIsSaid, ClosedTickets
  <2>6. Settled(q)'
    BY <2>3 DEF Settled, redeemable
  <2>7. \A p \in Query \ {q} : BeingEnded(p) => BeingEnded(p)'
    <3> SUFFICES ASSUME NEW p \in Query \ {q}, NEW f \in Ender,
                        ender[f] # "idle", datasetOf(f) = on[p], p \in toCancel[f]
                 PROVE  BeingEnded(p)'
      BY DEF BeingEnded
    <3>1. ender'[f] # "idle" /\ datasetOf(f)' = on'[p] /\ p \in toCancel'[f]
      BY <1>0, <2>1, <2>2 DEF OverTypes, datasetOf
    <3> QED BY <3>1 DEF BeingEnded
  <2>8. EndReaches'
    BY <2>2, <2>4, <2>6, <2>7 DEF OverInv, EndReaches
  <2> QED BY <1>0, <2>4, <2>5, <2>8 DEF OverInv
<1>16. ASSUME NEW d \in Dataset, WatchSignals(d) PROVE OverInv'
  <2>1. d \in Ender /\ datasetOf(d) = d
    BY DEF Ender, datasetOf
  <2>2. UNCHANGED <<ticketVars, queryVars, redeemVars, closeVars>>
        /\ \E reason \in Reason : beginEnd(d, d, reason)
    BY <1>16 DEF WatchSignals
  <2> QED BY <1>0, <2>1, <2>2, BeginEndOver DEF queryVars, redeemVars, closeVars
<1>17. ASSUME NEW d \in Dataset, CloseDisarm(d) \/ CloseBegin(d) PROVE OverInv'
  <2>1. /\ UNCHANGED <<now, live, mark, attributed, attrAt, ticketVars, queryVars, redeemVars, endVars>>
        /\ closing' = closing \/ closing' = closing \cup {d}
        /\ \/ closer' = [closer EXCEPT ![d] = "disarmed"]
           \/ closer' = [closer EXCEPT ![d] = "begun"] /\ d \in closing'
    BY <1>17 DEF CloseDisarm, CloseBegin, closeTo, genVars
  <2>2. \A p \in Query : EntryMoves(p)
    BY <2>1, IdleMoves DEF redeemVars
  <2>3. UNCHANGED <<on, query, serving, redeem, ender, toCancel>>
    BY <2>1 DEF queryVars, redeemVars, endVars
  <2>4. /\ AttributedIsReturned' /\ ServingIsRedeemed' /\ FlagMeansToken' /\ LiveIsUnmarked'
        /\ AttributionOutlives' /\ UnattributedIsSettled'
        /\ \A p \in Query : query[p] = "returned" /\ Settled(p) => Settled(p)'
        /\ \A p \in Query : Withdrawn(p) => Withdrawn(p)'
    BY <1>0, <2>1, <2>2, <2>3, TicketSide
  <2>5. LookedIsReturned' /\ ClosingIsSaid'
    BY <1>0, <2>1, <2>3 DEF OverTypes, OverInv, LookedIsReturned, ClosingIsSaid
  <2>6. ClosedTickets'
    BY <1>0, <2>1, <2>3, <2>4 DEF OverTypes, OverInv, ClosedTickets
  <2>7. EndReaches'
    BY <2>1, <2>3, <2>4, EndGoesOn
  <2> QED BY <1>0, <2>4, <2>5, <2>6, <2>7 DEF OverInv
<1>18. ASSUME NEW d \in Dataset, CloseCancel(d) PROVE OverInv'
  <2>1. /\ retire(ticketsOf(d), "close") /\ closer[d] = "begun"
        /\ closer' = [closer EXCEPT ![d] = "cancelled"]
        /\ UNCHANGED <<now, live, closing, mark, attributed, attrAt, on, query, serving, redeem, ender, toCancel>>
    BY <1>18 DEF CloseCancel, closeTo, genVars, queryVars, redeemVars, endVars
  <2>2. /\ \A p \in Query : EntryMoves(p)
        /\ \A p \in ticketsOf(d) : /\ ticket'[p] # "pending"
                                   /\ ticket'[p] = "redeemed" => flag'[p] /\ token'[p]
        /\ \A p \in Query \ ticketsOf(d) : ticket'[p] = swept[p]
    <3>1. ticketsOf(d) \in SUBSET Query
      BY DEF ticketsOf
    <3> QED BY <2>1, <3>1, RetireMoves
  <2>3. /\ AttributedIsReturned' /\ ServingIsRedeemed' /\ FlagMeansToken' /\ LiveIsUnmarked'
        /\ AttributionOutlives' /\ UnattributedIsSettled'
        /\ \A p \in Query : query[p] = "returned" /\ Settled(p) => Settled(p)'
        /\ \A p \in Query : Withdrawn(p) => Withdrawn(p)'
    BY <1>0, <2>1, <2>2, TicketSide
  <2>4. LookedIsReturned' /\ ClosingIsSaid'
    BY <1>0, <2>1 DEF OverTypes, OverInv, LookedIsReturned, ClosingIsSaid
  <2>5. ClosedTickets'
    <3> SUFFICES ASSUME NEW p \in Query, closer'[on[p]] \in {"cancelled", "done"} PROVE Withdrawn(p)'
      BY <2>1 DEF ClosedTickets
    <3>1. CASE on[p] # d
      BY <1>0, <2>1, <2>3, <3>1 DEF OverTypes, OverInv, ClosedTickets
    <3>2. CASE on[p] = d
      <4>1. ticket'[p] # "pending"
        BY <2>2, <3>2 DEF ticketsOf
      <4>2. p \in serving' => ticket'[p] \in {"redeemed", "gone"}
        BY <2>3 DEF ServingIsRedeemed
      <4>3. ticket'[p] = "redeemed" => token'[p]
        BY <2>2, <3>2 DEF ticketsOf
      <4> QED BY <4>1, <4>2, <4>3 DEF Withdrawn
    <3> QED BY <3>1, <3>2
  <2>6. EndReaches'
    BY <2>1, <2>3, EndGoesOn
  <2> QED BY <1>0, <2>3, <2>4, <2>5, <2>6 DEF OverInv
<1>19. ASSUME NEW d \in Dataset, CloseForget(d) PROVE OverInv'
  <2>1. /\ closer[d] = "cancelled" /\ closer' = [closer EXCEPT ![d] = "done"]
        /\ live' = live \ {d} /\ closing' = closing \ {d} /\ mark' = [mark EXCEPT ![d] = "none"]
        /\ attributed' = {q \in attributed : on[q] # d} /\ attrAt' = keptTimes
        /\ UNCHANGED <<now, ticket, since, flag, token, on, query, serving, redeem, ender, toCancel>>
    BY <1>19 DEF CloseForget, closeTo, ticketVars, queryVars, redeemVars, endVars
  <2>2. /\ attributed \subseteq Query
        /\ \A q \in Query : q \in attributed' => attrAt'[q] = attrAt[q]
    BY <1>0, <2>1 DEF OverTypes, keptTimes
  <2>3. /\ AttributedIsReturned' /\ ServingIsRedeemed' /\ FlagMeansToken'
        /\ AttributionOutlives' /\ UnattributedIsSettled'
        /\ \A p \in Query : Settled(p)' <=> Settled(p)
    BY <2>1, <2>2, SessionSide
  <2>4. LookedIsReturned' /\ ClosingIsSaid' /\ LiveIsUnmarked'
    BY <1>0, <2>1 DEF OverTypes, OverInv, LookedIsReturned, ClosingIsSaid, LiveIsUnmarked
  <2>5. ClosedTickets'
    BY <1>0, <2>1 DEF OverTypes, OverInv, ClosedTickets, Withdrawn
  <2>6. \A x \in Dataset : mark'[x] = mark[x] \/ mark'[x] = "none"
    BY <1>0, <2>1 DEF OverTypes
  <2>7. EndReaches'
    BY <2>1, <2>3, <2>6, EndGoesOn
  <2> QED BY <1>0, <2>3, <2>4, <2>5, <2>7 DEF OverInv
<1>20. CASE UNCHANGED vars
  <2>1. \A p \in Query : EntryMoves(p)
    BY <1>20, IdleMoves DEF vars, redeemVars
  <2> QED BY <1>0, <1>20, <2>1, TicketStepKeeps DEF vars, queryVars, redeemVars, closeVars
<1> QED
  BY <1>1, <1>2, <1>3, <1>4, <1>5, <1>6, <1>7, <1>8, <1>9, <1>10, <1>11, <1>12, <1>13, <1>14,
     <1>15, <1>16, <1>17, <1>18, <1>19, <1>20 DEF Next

\* Before the first call no dataset is open, closing or ended.
LEMMA OverStart == Init => OverInv
<1> SUFFICES ASSUME Init PROVE OverInv
  OBVIOUS
<1>1. OverTypes
  BY DEF Init, OverTypes, Ender
<1>2. \A q \in Query : query[q] = "idle" /\ mark[on[q]] = "none" /\ closer[on[q]] = "idle"
  BY DEF Init
<1>3. LookedIsReturned /\ AttributedIsReturned /\ ServingIsRedeemed /\ FlagMeansToken
  BY DEF Init, LookedIsReturned, AttributedIsReturned, ServingIsRedeemed, FlagMeansToken
<1>4. ClosingIsSaid /\ LiveIsUnmarked /\ AttributionOutlives
  BY DEF Init, ClosingIsSaid, LiveIsUnmarked, AttributionOutlives
<1>5. ClosedTickets /\ UnattributedIsSettled /\ EndReaches
  BY <1>2 DEF ClosedTickets, UnattributedIsSettled, EndReaches
<1> QED BY <1>1, <1>3, <1>4, <1>5 DEF OverInv

\* Once a close has returned or an end has run, no ticket a client was told of is redeemable and
\* every stream the registry still knows was cancelled, whatever queries, redemptions, sweeps
\* and prunes ran in between (skp.rs close_dataset, invalidate, attribute_ticket, prune_locked),
\* for every choice of the limits and of the ages.
THEOREM OverCorrect == Spec => []OverIsOver
<1>1. Init => TicketInv
  BY DEF Init, TicketInv, TicketTypes, MintedOnce, Ledger
<1>2. OverInv => OverIsOver
  <2> SUFFICES ASSUME OverInv PROVE ClosedIsClosed /\ EndedIsEnded
    BY DEF OverIsOver
  <2>1. ClosedIsClosed
    BY DEF OverInv, ClosedTickets, Withdrawn, ClosedIsClosed, redeemable
  <2>2. EndedIsEnded
    BY DEF OverInv, EndReaches, BeingEnded, Settled, EndedIsEnded
  <2> QED BY <2>1, <2>2
<1> QED BY <1>1, <1>2, TicketStep, OverStart, OverStep, PTL DEF Spec

-----------------------------------------------------------------------------
(* What a START is told.  A recorded reason is the dataset's end mark       *)
(* (DeadIsMarked), and a ticket an end took back, or is about to, has its   *)
(* record until the record's own age has passed (DeadLasts): the record is  *)
(* written with the mark, before the first of the tickets is cancelled.     *)

DueToEnd(q) == \/ cause[q] = "end"
               \/ \E e \in Ender : ender[e] # "idle" /\ q \in toCancel[e]

RecordTypes ==
    /\ dead \in [Query -> Reason \cup {"none"}] /\ deadAt \in [Query -> Nat]
    /\ answer \in [Query \X Start -> Reason \cup {"none", "stream", "own"}]

DeadIsMarked == \A q \in Query : dead[q] # "none" => dead[q] = mark[on[q]]

DeadLasts == \A q \in Query : on[q] \in catalog /\ DueToEnd(q) =>
                dead[q] # "none" \/ now - deadAt[q] > TicketTtl + MaxAge

\* The inductive invariant of RefusalNamesTheEnd.
RecordInv == RecordTypes /\ DeadIsMarked /\ DeadLasts

\* A record that was pruned was too old.
LEMMA PruneRecords ==
  ASSUME RecordTypes, now \in Nat, dead' = prunedDead(dead)
  PROVE  /\ dead' \in [Query -> Reason \cup {"none"}]
         /\ \A q \in Query : \/ dead'[q] = dead[q]
                             \/ dead'[q] = "none" /\ now - deadAt[q] > TicketTtl + MaxAge
<1>1. \A q \in Query : now - deadAt[q] <= TicketTtl + MaxAge => dead'[q] = dead[q]
  BY DEF prunedDead
<1>2. \A q \in Query : ~(now - deadAt[q] <= TicketTtl + MaxAge) => dead'[q] = "none"
  BY DEF prunedDead
<1>3. dead' \in [Query -> Reason \cup {"none"}]
  BY DEF prunedDead, RecordTypes
<1>4. \A q \in Query : deadAt[q] \in Nat
  BY DEF RecordTypes
<1> QED BY <1>1, <1>2, <1>3, <1>4, ClockAssumption

\* A step that records no end, writes no mark and takes no ticket back for an end.
LEMMA RecordsStay ==
  ASSUME RecordInv, OverTypes, OverTypes', RecordTypes', now' >= now,
         UNCHANGED <<on, mark, deadAt>>, catalog' \subseteq catalog,
         \A q \in Query : \/ dead'[q] = dead[q]
                          \/ dead'[q] = "none" /\ now - deadAt[q] > TicketTtl + MaxAge,
         \A q \in Query : DueToEnd(q)' => DueToEnd(q)
  PROVE  RecordInv'
<1>1. DeadIsMarked'
  BY DEF RecordInv, DeadIsMarked
<1>2. DeadLasts'
  <2> SUFFICES ASSUME NEW q \in Query, on[q] \in catalog, DueToEnd(q), dead'[q] = "none"
               PROVE  now' - deadAt[q] > TicketTtl + MaxAge
    BY DEF DeadLasts
  <2>1. now - deadAt[q] > TicketTtl + MaxAge
    BY DEF RecordInv, DeadLasts
  <2>2. now \in Nat /\ now' \in Nat /\ deadAt[q] \in Nat
    BY DEF OverTypes, RecordInv, RecordTypes
  <2> QED BY <2>1, <2>2, ClockAssumption, SMT
<1> QED BY <1>1, <1>2 DEF RecordInv

\* Recording an end: the mark, and the record of every ticket that is going to be cancelled.
LEMMA EndRecords ==
  ASSUME RecordInv, OverTypes, OverTypes', NEW e \in Ender, NEW d \in Dataset, NEW reason \in Reason,
         beginEnd(e, d, reason), UNCHANGED <<cause, on, catalog, answer>>
  PROVE  RecordInv'
<1>0. /\ now' = now /\ ender[e] = "idle" /\ invalidate(d, reason)
      /\ ender' = [ender EXCEPT ![e] = IF d \in live THEN "enqueue" ELSE "idle"]
      /\ toCancel' = [toCancel EXCEPT ![e] = IF d \in live THEN {q \in attributed : on[q] = d} ELSE {}]
  BY DEF beginEnd, reports
<1>1. /\ ender \in [Ender -> {"idle", "enqueue", "cancel"}] /\ toCancel \in [Ender -> SUBSET Query]
      /\ mark \in [Dataset -> Reason \cup {"none"}] /\ now \in Nat /\ on \in [Query -> Dataset]
      /\ now' >= now
  BY <1>0 DEF OverTypes
<1>2. \A q \in Query : DueToEnd(q)' => DueToEnd(q) \/ (d \in live /\ q \in attributed /\ on[q] = d)
  BY <1>0, <1>1 DEF DueToEnd
<1>3. CASE d \notin live
  <2>1. dead' = prunedDead(dead) /\ UNCHANGED <<mark, deadAt>>
    BY <1>0, <1>3 DEF invalidate, pruneOnly
  <2>2. RecordTypes'
    BY <1>1, <2>1, PruneRecords DEF RecordInv, RecordTypes
  <2>3. \A q \in Query : \/ dead'[q] = dead[q]
                         \/ dead'[q] = "none" /\ now - deadAt[q] > TicketTtl + MaxAge
    BY <1>1, <2>1, PruneRecords DEF RecordInv
  <2>4. \A q \in Query : DueToEnd(q)' => DueToEnd(q)
    BY <1>2, <1>3
  <2> QED BY <1>1, <2>1, <2>2, <2>3, <2>4, RecordsStay
<1>4. CASE d \in live
  <2> DEFINE ended == {q \in attributed : on[q] = d}
             first == IF mark[d] = "none" THEN reason ELSE mark[d]
  <2>1. /\ mark' = [mark EXCEPT ![d] = first]
        /\ deadAt' = [q \in Query |-> IF q \in ended THEN now ELSE deadAt[q]]
        /\ dead' = [q \in Query |-> IF q \in ended THEN first ELSE prunedDead(dead)[q]]
    BY <1>0, <1>4 DEF invalidate
  <2>2. first \in Reason /\ first # "none" /\ (mark[d] # "none" => first = mark[d])
    BY <1>1 DEF Reason
  <2>3. \A q \in Query : q \in ended <=> q \in attributed /\ on[q] = d
    OBVIOUS
  <2> HIDE DEF ended, first
  <2>4. \A q \in Query : q \notin ended => /\ deadAt'[q] = deadAt[q]
                                           /\ \/ dead'[q] = dead[q]
                                              \/ dead'[q] = "none" /\ now - deadAt[q] > TicketTtl + MaxAge
    <3> SUFFICES ASSUME NEW q \in Query, q \notin ended
                 PROVE  /\ deadAt'[q] = deadAt[q]
                        /\ \/ dead'[q] = dead[q]
                           \/ dead'[q] = "none" /\ now - deadAt[q] > TicketTtl + MaxAge
      OBVIOUS
    <3>1. /\ deadAt'[q] = deadAt[q]
          /\ dead'[q] = IF now - deadAt[q] <= TicketTtl + MaxAge THEN dead[q] ELSE "none"
      BY <2>1 DEF prunedDead
    <3>2. now \in Nat /\ deadAt[q] \in Nat
      BY <1>1 DEF RecordInv, RecordTypes
    <3> QED BY <3>1, <3>2, ClockAssumption, SMT
  <2>5. \A q \in Query : q \in ended => dead'[q] = first /\ deadAt'[q] = now
    BY <2>1
  <2>6. RecordTypes'
    <3>1. deadAt' \in [Query -> Nat]
      BY <1>1, <2>1 DEF RecordInv, RecordTypes
    <3>2. dead' \in [Query -> Reason \cup {"none"}]
      <4>1. \A q \in Query : dead'[q] \in Reason \cup {"none"}
        BY <2>2, <2>4, <2>5 DEF RecordInv, RecordTypes
      <4> QED BY <2>1, <4>1
    <3> QED BY <3>1, <3>2 DEF RecordInv, RecordTypes
  <2>7. DeadIsMarked'
    <3> SUFFICES ASSUME NEW q \in Query, dead'[q] # "none" PROVE dead'[q] = mark'[on[q]]
      BY DEF DeadIsMarked
    <3>1. CASE q \in ended
      BY <1>1, <2>1, <2>3, <2>5, <3>1
    <3>2. CASE q \notin ended
      <4>1. dead'[q] = dead[q] /\ dead[q] = mark[on[q]]
        BY <2>4, <3>2 DEF RecordInv, DeadIsMarked
      <4> QED BY <1>1, <2>1, <2>2, <4>1
    <3> QED BY <3>1, <3>2
  <2>8. DeadLasts'
    <3> SUFFICES ASSUME NEW q \in Query, on[q] \in catalog, DueToEnd(q)'
                 PROVE  dead'[q] # "none" \/ now - deadAt'[q] > TicketTtl + MaxAge
      BY <1>0 DEF DeadLasts
    <3>1. CASE q \in ended
      BY <2>2, <2>5, <3>1
    <3>2. CASE q \notin ended
      <4>1. DueToEnd(q)
        BY <1>2, <2>3, <3>2
      <4> QED BY <2>4, <3>2, <4>1 DEF RecordInv, DeadLasts
    <3> QED BY <3>1, <3>2
  <2> QED BY <2>6, <2>7, <2>8 DEF RecordInv
<1> QED BY <1>3, <1>4

\* Taking tickets back for another reason than an end.
LEMMA RetireIsNoEnd ==
  ASSUME NEW qs, NEW who, who # "end", retire(qs, who), UNCHANGED endVars
  PROVE  \A q \in Query : DueToEnd(q)' => DueToEnd(q)
<1>1. \A q \in Query : cause'[q] = who \/ cause'[q] = cause[q]
  BY DEF retire
<1>2. UNCHANGED <<ender, toCancel>>
  BY DEF endVars
<1> QED BY <1>1, <1>2 DEF DueToEnd

\* Every step keeps the records.
LEMMA RecordStep == TicketInv /\ OverTypes /\ RecordInv /\ [Next]_vars => RecordInv'
<1> SUFFICES ASSUME TicketInv, OverTypes, RecordInv, [Next]_vars PROVE RecordInv'
  OBVIOUS
<1>0. OverTypes' /\ now \in Nat /\ (now' = now => now' >= now) /\ on \in [Query -> Dataset]
  <2>1. OverTypes' /\ now \in Nat /\ on \in [Query -> Dataset]
    BY OverTypesStep DEF OverTypes
  <2> QED BY <2>1
<1>q. ASSUME UNCHANGED <<genVars, on, catalog, answer>>, now' >= now,
             \A q \in Query : DueToEnd(q)' => DueToEnd(q)
      PROVE  RecordInv'
  <2>1. UNCHANGED <<mark, dead, deadAt>>
    BY <1>q DEF genVars
  <2>2. RecordTypes'
    BY <1>q, <2>1 DEF RecordInv, RecordTypes
  <2> QED BY <1>0, <1>q, <2>1, <2>2, RecordsStay
<1>p. ASSUME dead' = prunedDead(dead), UNCHANGED <<mark, deadAt, now, on, catalog, ticketVars, endVars>>,
             answer' \in [Query \X Start -> Reason \cup {"none", "stream", "own"}]
      PROVE  RecordInv'
  <2>1. RecordTypes'
    BY <1>0, <1>p, PruneRecords DEF RecordInv, RecordTypes
  <2>2. \A q \in Query : DueToEnd(q)' => DueToEnd(q)
    BY <1>p DEF DueToEnd, ticketVars, endVars
  <2>3. \A q \in Query : \/ dead'[q] = dead[q]
                         \/ dead'[q] = "none" /\ now - deadAt[q] > TicketTtl + MaxAge
    BY <1>0, <1>p, PruneRecords DEF RecordInv
  <2> QED BY <1>0, <1>p, <2>1, <2>2, <2>3, RecordsStay
<1>a. answer \in [Query \X Start -> Reason \cup {"none", "stream", "own"}]
  BY DEF RecordInv, RecordTypes
<1>1. CASE Tick
  <2>1. UNCHANGED <<genVars, on, catalog, answer>> /\ now' >= now
    BY <1>0, <1>1 DEF Tick, queryVars, redeemVars, closeVars
  <2>2. \A q \in Query : DueToEnd(q)' => DueToEnd(q)
    BY <1>1 DEF Tick, ticketVars, endVars, DueToEnd
  <2> QED BY <1>q, <2>1, <2>2
<1>2. ASSUME NEW q \in Query, Resolve(q) \/ QueryRefused(q) \/ Mint(q) \/ StreamEnds(q) PROVE RecordInv'
  <2>1. UNCHANGED <<genVars, on, catalog, answer, cause, now, endVars>>
    BY <1>2 DEF Resolve, QueryRefused, Mint, StreamEnds, sweepOnly, queryTo, ticketVars, queryVars,
                redeemVars, closeVars
  <2>2. \A p \in Query : DueToEnd(p)' => DueToEnd(p)
    BY <2>1 DEF endVars, DueToEnd
  <2> QED BY <1>0, <1>q, <2>1, <2>2
<1>3. ASSUME NEW q \in Query, RequireLive(q) \/ Attribute(q) PROVE RecordInv'
  <2>1. dead' = prunedDead(dead) /\ UNCHANGED <<mark, deadAt, now, on, catalog, answer, ticketVars, endVars>>
    BY <1>3 DEF RequireLive, Attribute, pruneOnly, queryTo, redeemVars, closeVars
  <2> QED BY <1>a, <1>p, <2>1
<1>4. ASSUME NEW q \in Query, PreCheckFails(q) \/ PostCheck(q) PROVE RecordInv'
  <2>1. /\ beginEnd(q, on[q], "change") /\ UNCHANGED <<cause, on, catalog, answer>>
        /\ q \in Ender /\ "change" \in Reason /\ on[q] \in Dataset
    BY <1>0, <1>4 DEF PreCheckFails, PostCheck, queryTo, ticketVars, queryVars, redeemVars, closeVars,
                      Ender, Reason
  <2> QED BY <1>0, <2>1, EndRecords
<1>5. ASSUME NEW q \in Query, Withdraw(q) \/ Cancel(q) PROVE RecordInv'
  <2>1. /\ \E who \in {"unattributed", "client"} : retire({q}, who)
        /\ UNCHANGED <<genVars, on, catalog, answer, now, endVars>>
    BY <1>5 DEF Withdraw, Cancel, queryTo, queryVars, redeemVars, closeVars
  <2>2. \A p \in Query : DueToEnd(p)' => DueToEnd(p)
    BY <2>1, RetireIsNoEnd
  <2> QED BY <1>0, <1>q, <2>1, <2>2
<1>6. ASSUME NEW q \in Query, NEW s \in Start, FirstLook(q, s) \/ SecondLook(q, s) PROVE RecordInv'
  <2>1. /\ dead' = prunedDead(dead) /\ UNCHANGED <<mark, deadAt, now, on, catalog, ticketVars, endVars>>
        /\ \E said \in {"none", "own", prunedDead(dead)[q]} : answer' = [answer EXCEPT ![<<q, s>>] = said]
    BY <1>6 DEF FirstLook, SecondLook, pruneOnly, redeemTo, queryVars, closeVars
  <2>2. prunedDead(dead)[q] \in Reason \cup {"none"}
    BY DEF prunedDead, RecordInv, RecordTypes
  <2>3. answer' \in [Query \X Start -> Reason \cup {"none", "stream", "own"}]
    BY <1>a, <2>1, <2>2
  <2> QED BY <1>p, <2>1, <2>3
<1>7. ASSUME NEW q \in Query, NEW s \in Start, Redeem(q, s) PROVE RecordInv'
  <2>1. /\ UNCHANGED <<genVars, on, catalog, cause, now, endVars>>
        /\ \E said \in {"none", "stream"} : answer' = [answer EXCEPT ![<<q, s>>] = said]
    BY <1>7 DEF Redeem, sweepOnly, redeemTo, queryVars, closeVars
  <2>2. answer' \in [Query \X Start -> Reason \cup {"none", "stream", "own"}]
    BY <1>a, <2>1
  <2>3. UNCHANGED <<mark, dead, deadAt>>
    BY <2>1 DEF genVars
  <2>4. RecordTypes'
    BY <2>2, <2>3 DEF RecordInv, RecordTypes
  <2>5. \A p \in Query : DueToEnd(p)' => DueToEnd(p)
    BY <2>1 DEF endVars, DueToEnd
  <2> QED BY <1>0, <2>1, <2>3, <2>4, <2>5, RecordsStay
<1>8. ASSUME NEW e \in Ender, EndEnqueue(e) PROVE RecordInv'
  <2>1. /\ UNCHANGED <<genVars, on, catalog, answer, cause, now, toCancel>> /\ ender[e] = "enqueue"
        /\ \E place : ender' = [ender EXCEPT ![e] = place]
    BY <1>8 DEF EndEnqueue, ticketVars, queryVars, redeemVars, closeVars
  <2>2. \A p \in Query : DueToEnd(p)' => DueToEnd(p)
    BY <2>1 DEF DueToEnd, OverTypes
  <2> QED BY <1>0, <1>q, <2>1, <2>2
<1>9. ASSUME NEW e \in Ender, EndCancel(e) PROVE RecordInv'
  <2>1. PICK q \in toCancel[e] : /\ retire({q}, "end")
                                 /\ toCancel' = [toCancel EXCEPT ![e] = @ \ {q}]
                                 /\ ender' = [ender EXCEPT ![e] = IF toCancel[e] = {q} THEN "idle" ELSE "cancel"]
    BY <1>9 DEF EndCancel
  <2>2. UNCHANGED <<genVars, on, catalog, answer, now>> /\ ender[e] = "cancel" /\ q \in Query
    BY <1>9 DEF EndCancel, queryVars, redeemVars, closeVars, OverTypes
  <2>3. \A p \in Query : cause'[p] = cause[p] \/ p = q
    BY <2>1 DEF retire
  <2>4. \A f \in Ender : toCancel'[f] \subseteq toCancel[f] /\ (ender'[f] # "idle" => ender[f] # "idle")
    BY <2>1, <2>2 DEF OverTypes
  <2>5. \A p \in Query : DueToEnd(p)' => DueToEnd(p)
    BY <2>2, <2>3, <2>4 DEF DueToEnd
  <2> QED BY <1>0, <1>q, <2>2, <2>5
<1>10. ASSUME NEW d \in Dataset, WatchSignals(d) PROVE RecordInv'
  <2>1. PICK reason \in Reason : beginEnd(d, d, reason)
    BY <1>10 DEF WatchSignals
  <2>2. UNCHANGED <<cause, on, catalog, answer>> /\ d \in Ender
    BY <1>10 DEF WatchSignals, ticketVars, queryVars, redeemVars, closeVars, Ender
  <2> QED BY <1>0, <2>1, <2>2, EndRecords
<1>11. ASSUME NEW d \in Dataset, CloseDisarm(d) PROVE RecordInv'
  <2>1. UNCHANGED <<genVars, on, catalog, answer, cause, now, endVars>>
    BY <1>11 DEF CloseDisarm, ticketVars, queryVars, redeemVars
  <2>2. \A p \in Query : DueToEnd(p)' => DueToEnd(p)
    BY <2>1 DEF endVars, DueToEnd
  <2> QED BY <1>0, <1>q, <2>1, <2>2
<1>12. ASSUME NEW d \in Dataset, CloseBegin(d) PROVE RecordInv'
  <2>1. UNCHANGED <<mark, dead, deadAt, on, catalog, answer, cause, now, endVars>>
    BY <1>12 DEF CloseBegin, ticketVars, queryVars, redeemVars
  <2>2. \A p \in Query : DueToEnd(p)' => DueToEnd(p)
    BY <2>1 DEF endVars, DueToEnd
  <2>3. RecordTypes'
    BY <2>1 DEF RecordInv, RecordTypes
  <2> QED BY <1>0, <2>1, <2>2, <2>3, RecordsStay
<1>13. ASSUME NEW d \in Dataset, CloseCancel(d) PROVE RecordInv'
  <2>1. retire(ticketsOf(d), "close") /\ UNCHANGED <<genVars, on, catalog, answer, now, endVars>>
    BY <1>13 DEF CloseCancel, queryVars, redeemVars
  <2>2. \A p \in Query : DueToEnd(p)' => DueToEnd(p)
    BY <2>1, RetireIsNoEnd
  <2> QED BY <1>0, <1>q, <2>1, <2>2
<1>14. ASSUME NEW d \in Dataset, CloseForget(d) PROVE RecordInv'
  <2>1. /\ mark' = [mark EXCEPT ![d] = "none"] /\ catalog' = catalog \ {d}
        /\ dead' = [q \in Query |-> IF on[q] = d THEN "none" ELSE dead[q]]
        /\ UNCHANGED <<now, deadAt, on, answer, cause, endVars>>
    BY <1>14 DEF CloseForget, ticketVars, queryVars, redeemVars
  <2>2. RecordTypes'
    BY <1>a, <2>1 DEF RecordInv, RecordTypes
  <2>3. DeadIsMarked'
    BY <1>0, <2>1 DEF RecordInv, DeadIsMarked, OverTypes
  <2>4. \A p \in Query : DueToEnd(p)' => DueToEnd(p)
    BY <2>1 DEF endVars, DueToEnd
  <2>5. DeadLasts'
    <3> SUFFICES ASSUME NEW q \in Query, on[q] \in catalog, on[q] # d, DueToEnd(q)
                 PROVE  dead'[q] # "none" \/ now - deadAt[q] > TicketTtl + MaxAge
      BY <2>1, <2>4 DEF DeadLasts
    <3>1. dead'[q] = dead[q]
      BY <2>1
    <3> QED BY <3>1 DEF RecordInv, DeadLasts
  <2> QED BY <2>2, <2>3, <2>5 DEF RecordInv
<1>15. CASE UNCHANGED vars
  <2>1. UNCHANGED <<genVars, on, catalog, answer, cause, now, endVars>>
    BY <1>15 DEF vars, ticketVars, queryVars, redeemVars, closeVars
  <2>2. \A p \in Query : DueToEnd(p)' => DueToEnd(p)
    BY <2>1 DEF endVars, DueToEnd
  <2> QED BY <1>0, <1>q, <2>1, <2>2
<1> QED
  BY <1>1, <1>2, <1>3, <1>4, <1>5, <1>6, <1>7, <1>8, <1>9, <1>10, <1>11, <1>12, <1>13, <1>14, <1>15
     DEF Next

\* What a START is told is true: a reason is named only if the dataset's session ended for it,
\* and a ticket an end took back is refused by that reason and never in redeem's own words while
\* the record lasts, wherever the end, the redemption and the two looks interleave (lib.rs
\* create_from_ticket, skp.rs dead_ticket_reason).
THEOREM RefusalCorrect == Spec => RefusalNamesTheEnd
<1> DEFINE Told == \A q \in Query, s \in Start :
                      LET said == answer'[<<q, s>>]
                      IN said # answer[<<q, s>>] =>
                           /\ said \in Reason => mark[on[q]] = said
                           /\ (said = "own" /\ cause[q] = "end" /\ on[q] \in catalog)
                                 => now - deadAt[q] > TicketTtl + MaxAge
<1>1. Init => TicketInv /\ RecordInv
  <2>1. Init => TicketInv
    BY DEF Init, TicketInv, TicketTypes, MintedOnce, Ledger
  <2>2. Init => RecordTypes /\ DeadIsMarked
    BY DEF Init, RecordTypes, DeadIsMarked
  <2>3. Init => DeadLasts
    BY DEF Init, DeadLasts, DueToEnd
  <2> QED BY <2>1, <2>2, <2>3 DEF RecordInv
<1>2. TicketInv /\ OverInv /\ RecordInv /\ [Next]_vars => [Told]_vars
  <2> SUFFICES ASSUME OverTypes, RecordInv, Next PROVE Told
    BY DEF OverInv
  <2>0. answer \in [Query \X Start -> Reason \cup {"none", "stream", "own"}]
    BY DEF RecordInv, RecordTypes
  <2>1. ASSUME UNCHANGED answer PROVE Told
    BY <2>1
  <2>2. ASSUME NEW p \in Query, NEW t \in Start, NEW place, answer' = [answer EXCEPT ![<<p, t>>] = place],
               place \in Reason => mark[on[p]] = place,
               (place = "own" /\ cause[p] = "end" /\ on[p] \in catalog)
                  => now - deadAt[p] > TicketTtl + MaxAge
        PROVE  Told
    <3> SUFFICES ASSUME NEW q \in Query, NEW s \in Start, answer'[<<q, s>>] # answer[<<q, s>>]
                 PROVE  /\ answer'[<<q, s>>] \in Reason => mark[on[q]] = answer'[<<q, s>>]
                        /\ (answer'[<<q, s>>] = "own" /\ cause[q] = "end" /\ on[q] \in catalog)
                              => now - deadAt[q] > TicketTtl + MaxAge
      OBVIOUS
    <3>1. <<q, s>> = <<p, t>>
      BY <2>0, <2>2
    <3>2. answer'[<<q, s>>] = place
      BY <2>0, <2>2, <3>1
    <3> QED BY <2>2, <3>1, <3>2
  <2>3. \A q \in Query : /\ prunedDead(dead)[q] \in Reason => mark[on[q]] = prunedDead(dead)[q]
                         /\ prunedDead(dead)[q] # "own"
                         /\ (prunedDead(dead)[q] = "none" /\ cause[q] = "end" /\ on[q] \in catalog)
                               => now - deadAt[q] > TicketTtl + MaxAge
    <3> SUFFICES ASSUME NEW q \in Query
                 PROVE  /\ prunedDead(dead)[q] \in Reason => mark[on[q]] = prunedDead(dead)[q]
                        /\ prunedDead(dead)[q] # "own"
                        /\ (prunedDead(dead)[q] = "none" /\ cause[q] = "end" /\ on[q] \in catalog)
                              => now - deadAt[q] > TicketTtl + MaxAge
      OBVIOUS
    <3>1. prunedDead(dead)[q] = IF now - deadAt[q] <= TicketTtl + MaxAge THEN dead[q] ELSE "none"
      BY DEF prunedDead
    <3>2. now \in Nat /\ deadAt[q] \in Nat /\ dead[q] \in Reason \cup {"none"}
      BY DEF OverTypes, RecordInv, RecordTypes
    <3>3. dead[q] # "none" => dead[q] = mark[on[q]]
      BY DEF RecordInv, DeadIsMarked
    <3>4. cause[q] = "end" /\ on[q] \in catalog => dead[q] # "none" \/ now - deadAt[q] > TicketTtl + MaxAge
      BY DEF RecordInv, DeadLasts, DueToEnd
    <3> QED BY <3>1, <3>2, <3>3, <3>4, ClockAssumption DEF Reason
  <2>4. ASSUME NEW q \in Query, NEW s \in Start, FirstLook(q, s) PROVE Told
    <3>1. CASE prunedDead(dead)[q] # "none"
      <4>1. answer' = [answer EXCEPT ![<<q, s>>] = prunedDead(dead)[q]]
        BY <2>4, <3>1 DEF FirstLook, redeemTo
      <4> QED BY <2>2, <2>3, <4>1
    <3>2. CASE prunedDead(dead)[q] = "none"
      <4>1. answer' = [answer EXCEPT ![<<q, s>>] = "none"] /\ "none" \notin Reason
        BY <2>4, <3>2 DEF FirstLook, redeemTo, Reason
      <4> QED BY <2>2, <4>1
    <3> QED BY <3>1, <3>2
  <2>5. ASSUME NEW q \in Query, NEW s \in Start, Redeem(q, s) PROVE Told
    <3>1. PICK said \in {"none", "stream"} : answer' = [answer EXCEPT ![<<q, s>>] = said]
      BY <2>5 DEF Redeem, redeemTo
    <3>2. said \notin Reason /\ said # "own"
      BY DEF Reason
    <3> QED BY <2>2, <3>1, <3>2
  <2>6. ASSUME NEW q \in Query, NEW s \in Start, SecondLook(q, s) PROVE Told
    <3>1. CASE prunedDead(dead)[q] # "none"
      <4>1. answer' = [answer EXCEPT ![<<q, s>>] = prunedDead(dead)[q]]
        BY <2>6, <3>1 DEF SecondLook, redeemTo
      <4> QED BY <2>2, <2>3, <4>1
    <3>2. CASE prunedDead(dead)[q] = "none"
      <4>1. answer' = [answer EXCEPT ![<<q, s>>] = "own"] /\ "own" \notin Reason
        BY <2>6, <3>2 DEF SecondLook, redeemTo, Reason
      <4> QED BY <2>2, <2>3, <3>2, <4>1
    <3> QED BY <3>1, <3>2
  <2>7. ASSUME NEW q \in Query,
               \/ Resolve(q) \/ RequireLive(q) \/ PreCheckFails(q) \/ QueryRefused(q) \/ Mint(q)
               \/ Attribute(q) \/ Withdraw(q) \/ Cancel(q) \/ PostCheck(q) \/ StreamEnds(q)
        PROVE  Told
    <3>1. UNCHANGED answer
      BY <2>7 DEF Resolve, RequireLive, PreCheckFails, QueryRefused, Mint, Attribute, Withdraw, Cancel,
                  PostCheck, StreamEnds, redeemVars
    <3> QED BY <2>1, <3>1
  <2>8. ASSUME Tick \/ (\E e \in Ender : EndEnqueue(e) \/ EndCancel(e))
               \/ (\E d \in Dataset : WatchSignals(d) \/ CloseDisarm(d) \/ CloseBegin(d)
                                      \/ CloseCancel(d) \/ CloseForget(d))
        PROVE  Told
    <3>1. UNCHANGED answer
      BY <2>8 DEF Tick, EndEnqueue, EndCancel, WatchSignals, CloseDisarm, CloseBegin, CloseCancel,
                  CloseForget, redeemVars
    <3> QED BY <2>1, <3>1
  <2> HIDE DEF Told
  <2> QED BY <2>4, <2>5, <2>6, <2>7, <2>8 DEF Next
<1>3. OverInv => OverTypes
  BY DEF OverInv
<1>4. Spec => [][Told]_vars
  <2> HIDE DEF Told
  <2> QED BY <1>1, <1>2, <1>3, TicketStep, OverStart, OverStep, RecordStep, PTL DEF Spec
<1> QED BY <1>4 DEF RefusalNamesTheEnd
=============================================================================
