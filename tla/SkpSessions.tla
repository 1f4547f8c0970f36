------------------------------ MODULE SkpSessions ------------------------------
(***************************************************************************)
(* The kernel's stream tickets and dataset sessions (kernel/src/skp.rs and *)
(* the ticket half of kernel/src/lib.rs): viewport_query mints a           *)
(* single-use ticket, the data plane redeems it, and a client's cancel, a  *)
(* close or a detected change of the source takes it back.                 *)
(*                                                                         *)
(* Two registries with a mutex each: StreamRegistry (ticket, since, flag)  *)
(* and GenerationRegistry (live, mark, closing, attributed, dead).  One    *)
(* critical section is one step; a call that takes several is several      *)
(* steps, and every other call may run in between.  Each open has a name   *)
(* of its own that is never minted again, so a dataset stands for one open *)
(* and its generation; a query stands for the ticket it mints.  Time is a  *)
(* clock of whole units, compared as the code compares elapsed times.      *)
(***************************************************************************)
EXTENDS Naturals, FiniteSets

CONSTANTS Dataset,
          Query,
          TicketTtl,    \* TICKET_TTL
          MaxAge,       \* TERMINAL_ENTRY_MAX_AGE
          Start,        \* the connections a client may send one ticket over
          MaxPending,   \* MAX_PENDING_TICKETS
          MaxNow        \* bound: how far the clock runs

ASSUME ClockAssumption == TicketTtl \in Nat /\ MaxAge \in Nat /\ MaxNow \in Nat
ASSUME PendingAssumption == MaxPending \in Nat \ {0}
\* Both name callers of end_generation.
ASSUME CallerAssumption == Query \cap Dataset = {}

VARIABLES
    now,
    catalog,     \* names open_dataset admitted and no close removed
    watched,     \* datasets whose watch is armed
    live, closing,
    mark,        \* GenerationState.invalidated
    attributed,  \* GenerationState.tickets, all of the dataset's one generation
    attrAt,
    dead,        \* GenerationState.dead_tickets: the reason, per ticket
    deadAt,
    ticket,      \* StreamRegistry.tickets
    since,       \* minted_at, redeemed_at or cancelled_at
    flag,        \* Redeemed.cancelled
    on,          \* the dataset a query names
    query,       \* where each viewport_query call is
    token,       \* the ticket's source was cancelled or dropped
    serving,     \* tickets whose stream the data plane is serving
    posted,      \* tickets whose source reported its post-check's finding
    uses,        \* how often the ticket's source was handed out
    redeem,      \* where each START's create_from_ticket is
    answer,      \* what it answered
    cause,       \* who took a ticket back while it was pending
    ender,       \* where each call of end_generation is, per caller
    toCancel,    \* the tickets of its report it has still to cancel
    events,      \* session-end events enqueued, by dataset
    closer       \* where each close_dataset call is

genVars == <<live, closing, mark, attributed, attrAt, dead, deadAt>>
ticketVars == <<ticket, since, flag, token, cause>>
queryVars == <<on, query>>
redeemVars == <<redeem, answer, serving, posted, uses>>
endVars == <<ender, toCancel, events>>
closeVars == <<catalog, watched, closer>>
vars == <<now, genVars, ticketVars, queryVars, redeemVars, endVars, closeVars>>

Reason == {"change", "coverage"}
\* end_generation is called by a query's pre-check, by a stream's post-check
\* and by a dataset's watch.
Ender == Query \cup Dataset

Init == /\ now = 0
        /\ catalog = Dataset /\ live = Dataset /\ closing = {}
        /\ watched \in SUBSET Dataset
        /\ mark = [d \in Dataset |-> "none"]
        /\ attributed = {} /\ attrAt = [q \in Query |-> 0]
        /\ dead = [q \in Query |-> "none"] /\ deadAt = [q \in Query |-> 0]
        /\ ticket = [q \in Query |-> "none"] /\ since = [q \in Query |-> 0]
        /\ flag = [q \in Query |-> FALSE]
        /\ on \in [Query -> Dataset]
        /\ query = [q \in Query |-> "idle"]
        /\ token = [q \in Query |-> FALSE]
        /\ serving = {} /\ posted = {} /\ uses = [q \in Query |-> 0]
        /\ redeem = [r \in Query \X Start |-> "idle"]
        /\ answer = [r \in Query \X Start |-> "none"]
        /\ cause = [q \in Query |-> "none"]
        /\ ender = [e \in Ender |-> "idle"] /\ toCancel = [e \in Ender |-> {}]
        /\ events = [d \in Dataset |-> 0]
        /\ closer = [d \in Dataset |-> "idle"]

Tick == /\ now < MaxNow
        /\ now' = now + 1
        /\ UNCHANGED <<genVars, ticketVars, queryVars, redeemVars, endVars, closeVars>>

-----------------------------------------------------------------------------
(* StreamRegistry.  Every call sweeps first; a swept or retired pending     *)
(* entry owns its source, whose drop cancels the query, while a swept       *)
(* redeemed entry only forgets a stream that may still be served.           *)

expired(q) == \/ ticket[q] = "pending" /\ now - since[q] > TicketTtl
              \/ ticket[q] \in {"redeemed", "cancelled"} /\ now - since[q] > MaxAge

swept == [q \in Query |-> IF expired(q) THEN "gone" ELSE ticket[q]]
sweptSince == [q \in Query |-> IF expired(q) THEN 0 ELSE since[q]]
sweptTokens == [q \in Query |-> token[q] \/ (expired(q) /\ ticket[q] = "pending")]

\* The sweep and nothing else.
sweepOnly == /\ ticket' = swept /\ since' = sweptSince /\ token' = sweptTokens
             /\ UNCHANGED <<flag, cause>>

\* StreamRegistry::cancel of every ticket in qs, as one critical section: a
\* pending one is retired, a redeemed one has its source cancelled once.
retire(qs, who) ==
    LET taken == {q \in qs : swept[q] = "pending"}
        reached == {q \in qs : swept[q] = "redeemed" /\ ~flag[q]}
    IN /\ ticket' = [q \in Query |-> IF q \in taken THEN "cancelled" ELSE swept[q]]
       /\ since' = [q \in Query |-> IF q \in taken THEN now ELSE sweptSince[q]]
       /\ cause' = [q \in Query |-> IF q \in taken THEN who ELSE cause[q]]
       /\ flag' = [q \in Query |-> flag[q] \/ q \in reached]
       /\ token' = [q \in Query |-> sweptTokens[q] \/ q \in taken \cup reached]

\* cancel_all_for_dataset names the tickets by their entries' dataset.
ticketsOf(d) == {q \in Query : on[q] = d /\ swept[q] \in {"pending", "redeemed"}}

-----------------------------------------------------------------------------
(* GenerationRegistry.  All but begin_close and forget_dataset prune.       *)

\* A bug: attributions are dropped at the shorter of the two ages.
attributionLifeShort == MaxAge

\* A ticket may wait its whole TTL before its redeemed entry starts to age.
attributionLife == TicketTtl + MaxAge

isFresh(q, alive) == now - attrAt[q] <= attributionLife /\ on[q] \in alive

pruned(qs, alive) == {q \in qs : isFresh(q, alive)}
prunedDead(ds) == [q \in Query |-> IF now - deadAt[q] <= TicketTtl + MaxAge
                                   THEN ds[q] ELSE "none"]

\* An attribution's time goes with it.
keptTimes == [q \in Query |-> IF q \in attributed' THEN attrAt[q] ELSE 0]

pruneOnly == /\ attributed' = pruned(attributed, live) /\ attrAt' = keptTimes
             /\ dead' = prunedDead(dead)
             /\ UNCHANGED <<live, closing, mark, deadAt>>

\* live_generation: an end mark answers first, then a close in progress.
isLive(d) == mark[d] = "none" /\ d \notin closing /\ d \in live

\* A bug: the end mark is written and the tickets are looked up in a second
\* critical section, after the prune has swept their attributions.
invalidateLater(d, reason) ==
    IF d \in live
    THEN /\ live' = live \ {d}
         /\ mark' = [mark EXCEPT ![d] = reason]
         /\ attributed' = pruned(attributed, live \ {d}) /\ attrAt' = keptTimes
         /\ dead' = prunedDead(dead)
         /\ UNCHANGED <<closing, deadAt>>
    ELSE pruneOnly

\* invalidate: only the call that removes the live generation marks its end
\* and records its tickets as dead; the first reason stands.
invalidate(d, reason) ==
    IF d \in live
    THEN LET ended == {q \in attributed : on[q] = d}
             first == IF mark[d] = "none" THEN reason ELSE mark[d]
             at == [q \in Query |-> IF q \in ended THEN now ELSE deadAt[q]]
         IN /\ live' = live \ {d}
            /\ mark' = [mark EXCEPT ![d] = first]
            /\ deadAt' = at
            /\ dead' = [q \in Query |-> IF q \in ended THEN first ELSE prunedDead(dead)[q]]
            /\ attributed' = pruned(attributed, live \ {d}) /\ attrAt' = keptTimes
            /\ UNCHANGED closing
    ELSE pruneOnly

-----------------------------------------------------------------------------
(* end_generation by caller e: record the end, enqueue one event, cancel    *)
(* the report's tickets one by one.                                         *)

\* A bug: every caller that notices the change reports an end.
reportsAlways(d) == TRUE

\* Only the call that removed the live generation has a report.
reports(d) == d \in live

beginEnd(e, d, reason) ==
    /\ ender[e] = "idle"
    /\ invalidate(d, reason)
    /\ ender' = [ender EXCEPT ![e] = IF reports(d) THEN "enqueue" ELSE "idle"]
    /\ toCancel' = [toCancel EXCEPT ![e] =
                       IF reports(d) THEN {q \in attributed : on[q] = d} ELSE {}]
    /\ UNCHANGED <<events, now>>

datasetOf(e) == IF e \in Dataset THEN e ELSE on[e]

EndEnqueue(e) ==
    /\ ender[e] = "enqueue"
    /\ events' = [events EXCEPT ![datasetOf(e)] = @ + 1]
    /\ ender' = [ender EXCEPT ![e] = IF toCancel[e] = {} THEN "idle" ELSE "cancel"]
    /\ UNCHANGED <<now, toCancel, genVars, ticketVars, queryVars, redeemVars, closeVars>>

EndCancel(e) ==
    /\ ender[e] = "cancel"
    /\ \E q \in toCancel[e] :
          /\ retire({q}, "end")
          /\ toCancel' = [toCancel EXCEPT ![e] = @ \ {q}]
          /\ ender' = [ender EXCEPT ![e] = IF toCancel[e] = {q} THEN "idle" ELSE "cancel"]
    /\ UNCHANGED <<now, events, genVars, queryVars, redeemVars, closeVars>>

\* The watch signals a change or the loss of its coverage; its thread runs the
\* end to its finish.
WatchSignals(d) ==
    /\ d \in watched
    /\ \E reason \in Reason : beginEnd(d, d, reason)
    /\ UNCHANGED <<ticketVars, queryVars, redeemVars, closeVars>>

\* A stream's source came to its end or was dropped unredeemed, and its
\* post-check found the source changed.
PostCheck(q) ==
    /\ q \notin posted
    /\ \/ q \in serving
       \/ ticket[q] \in {"cancelled", "gone"} /\ uses[q] = 0
    /\ posted' = posted \cup {q}
    /\ serving' = serving \ {q}
    /\ beginEnd(q, on[q], "change")
    /\ UNCHANGED <<redeem, answer, uses, ticketVars, queryVars, closeVars>>

\* A stream ends with nothing to report.
StreamEnds(q) ==
    /\ q \in serving
    /\ serving' = serving \ {q}
    /\ posted' = posted \cup {q}
    /\ UNCHANGED <<now, genVars, ticketVars, queryVars, redeem, answer, uses, endVars, closeVars>>

-----------------------------------------------------------------------------
(* viewport_query: resolve, check, build and mint, attribute.               *)

queryTo(q, place) == query' = [query EXCEPT ![q] = place] /\ UNCHANGED on

Resolve(q) ==
    /\ query[q] = "idle"
    /\ sweepOnly
    /\ queryTo(q, IF on[q] \in catalog THEN "resolved" ELSE "refused")
    /\ UNCHANGED <<now, genVars, redeemVars, endVars, closeVars>>

RequireLive(q) ==
    /\ query[q] = "resolved"
    /\ pruneOnly
    /\ queryTo(q, IF isLive(on[q]) THEN "checked" ELSE "refused")
    /\ UNCHANGED <<now, ticketVars, redeemVars, endVars, closeVars>>

\* The engine's pre-check found the source changed: the session ends here.
PreCheckFails(q) ==
    /\ query[q] = "checked"
    /\ queryTo(q, "ending")
    /\ beginEnd(q, on[q], "change")
    /\ UNCHANGED <<ticketVars, redeemVars, closeVars>>

\* The query is refused: after its end of the session ran, or because its
\* filter, its lease or its stream was.
QueryRefused(q) ==
    /\ \/ query[q] = "ending" /\ ender[q] = "idle"
       \/ query[q] = "checked"
    /\ queryTo(q, "refused")
    /\ UNCHANGED <<now, genVars, ticketVars, redeemVars, endVars, closeVars>>

hasRoom(d) == Cardinality({p \in Query : swept[p] = "pending" /\ on[p] = d}) < MaxPending

Mint(q) ==
    /\ query[q] = "checked"
    /\ IF hasRoom(on[q])
       THEN /\ ticket' = [swept EXCEPT ![q] = "pending"]
            /\ since' = [sweptSince EXCEPT ![q] = now]
            /\ token' = sweptTokens
            /\ queryTo(q, "minted")
            /\ UNCHANGED <<flag, cause>>
       ELSE sweepOnly /\ queryTo(q, "refused")
    /\ UNCHANGED <<now, genVars, redeemVars, endVars, closeVars>>

\* A bug: attribution asks whether the dataset is known, not whether its
\* session is live.
isAttributableOpen(d) == d \in catalog

isAttributable(d) == d \notin closing /\ d \in live

Attribute(q) ==
    /\ query[q] = "minted"
    /\ IF isAttributable(on[q])
       THEN /\ attributed' = pruned(attributed, live) \cup {q}
            /\ attrAt' = [keptTimes EXCEPT ![q] = now]
            /\ dead' = prunedDead(dead)
            /\ queryTo(q, "returned")
            /\ UNCHANGED <<live, closing, mark, deadAt>>
       ELSE pruneOnly /\ queryTo(q, "withdrawing")
    /\ UNCHANGED <<now, ticketVars, redeemVars, endVars, closeVars>>

\* The ticket nobody was told of is cancelled and the query refused.
Withdraw(q) ==
    /\ query[q] = "withdrawing"
    /\ retire({q}, "unattributed")
    /\ queryTo(q, "refused")
    /\ UNCHANGED <<now, genVars, redeemVars, endVars, closeVars>>

-----------------------------------------------------------------------------
(* The client's cancel, and create_from_ticket for a START frame.           *)

Cancel(q) ==
    /\ query[q] = "returned"
    /\ retire({q}, "client")
    /\ UNCHANGED <<now, genVars, queryVars, redeemVars, endVars, closeVars>>

redeemTo(q, s, place, said) ==
    /\ redeem' = [redeem EXCEPT ![<<q, s>>] = place]
    /\ answer' = [answer EXCEPT ![<<q, s>>] = said]

\* The first look at the dead-ticket record.  A client may send the ticket again after
\* it was answered.
FirstLook(q, s) ==
    /\ query[q] = "returned" /\ redeem[<<q, s>>] \in {"idle", "done"}
    /\ pruneOnly
    /\ IF prunedDead(dead)[q] # "none"
       THEN redeemTo(q, s, "done", prunedDead(dead)[q])
       ELSE redeemTo(q, s, "looked", "none")
    /\ UNCHANGED <<now, serving, posted, uses, ticketVars, queryVars, endVars, closeVars>>

\* A bug: the entry stays pending, so the ticket can be redeemed again.
handedOutStays(q) == ticket' = swept /\ since' = sweptSince

\* The pending entry is replaced by a redeemed one in one critical section.
handedOut(q) == /\ ticket' = [swept EXCEPT ![q] = "redeemed"]
                /\ since' = [sweptSince EXCEPT ![q] = now]

Redeem(q, s) ==
    /\ redeem[<<q, s>>] = "looked"
    /\ IF swept[q] = "pending"
       THEN /\ handedOut(q)
            /\ token' = sweptTokens
            /\ serving' = serving \cup {q}
            /\ uses' = [uses EXCEPT ![q] = @ + 1]
            /\ redeemTo(q, s, "done", "stream")
            /\ UNCHANGED <<flag, cause, posted>>
       ELSE /\ sweepOnly
            /\ redeemTo(q, s, "refused", "none")
            /\ UNCHANGED <<serving, posted, uses>>
    /\ UNCHANGED <<now, genVars, queryVars, endVars, closeVars>>

\* The second look, on a refusal only: the end's own code, or redeem's words.
SecondLook(q, s) ==
    /\ redeem[<<q, s>>] = "refused"
    /\ pruneOnly
    /\ redeemTo(q, s, "done", IF prunedDead(dead)[q] # "none" THEN prunedDead(dead)[q] ELSE "own")
    /\ UNCHANGED <<now, serving, posted, uses, ticketVars, queryVars, endVars, closeVars>>

-----------------------------------------------------------------------------
(* close_dataset.                                                           *)

closeTo(d, place) == closer' = [closer EXCEPT ![d] = place]

\* The watch is disarmed and its threads joined before anything else.
CloseDisarm(d) ==
    /\ closer[d] = "idle" /\ ender[d] = "idle"
    /\ watched' = watched \ {d}
    /\ closeTo(d, "disarmed")
    /\ UNCHANGED <<now, catalog, genVars, ticketVars, queryVars, redeemVars, endVars>>

\* A bug: the close does not say it has begun.
CloseBeginSilent(d) ==
    /\ closer[d] = "disarmed" /\ d \in catalog
    /\ closeTo(d, "begun")
    /\ UNCHANGED <<now, catalog, watched, genVars, ticketVars, queryVars, redeemVars, endVars>>

CloseBegin(d) ==
    /\ closer[d] = "disarmed" /\ d \in catalog
    /\ closing' = closing \cup {d}
    /\ closeTo(d, "begun")
    /\ UNCHANGED <<now, catalog, watched, live, mark, attributed, attrAt, dead, deadAt,
                   ticketVars, queryVars, redeemVars, endVars>>

CloseCancel(d) ==
    /\ closer[d] = "begun"
    /\ retire(ticketsOf(d), "close")
    /\ closeTo(d, "cancelled")
    /\ UNCHANGED <<now, catalog, watched, genVars, queryVars, redeemVars, endVars>>

\* forget_dataset and the removal of the name, under the catalog's write guard.
CloseForget(d) ==
    /\ closer[d] = "cancelled"
    /\ live' = live \ {d} /\ closing' = closing \ {d}
    /\ mark' = [mark EXCEPT ![d] = "none"]
    /\ attributed' = {q \in attributed : on[q] # d} /\ attrAt' = keptTimes
    /\ dead' = [q \in Query |-> IF on[q] = d THEN "none" ELSE dead[q]]
    /\ catalog' = catalog \ {d}
    /\ closeTo(d, "done")
    /\ UNCHANGED <<now, watched, deadAt, ticketVars, queryVars, redeemVars, endVars>>

-----------------------------------------------------------------------------
Next == \/ Tick
        \/ \E q \in Query :
              \/ Resolve(q) \/ RequireLive(q) \/ PreCheckFails(q) \/ QueryRefused(q)
              \/ Mint(q) \/ Attribute(q) \/ Withdraw(q)
              \/ Cancel(q) \/ PostCheck(q) \/ StreamEnds(q)
              \/ \E s \in Start : FirstLook(q, s) \/ Redeem(q, s) \/ SecondLook(q, s)
        \/ \E e \in Ender : EndEnqueue(e) \/ EndCancel(e)
        \/ \E d \in Dataset :
              \/ WatchSignals(d)
              \/ CloseDisarm(d) \/ CloseBegin(d) \/ CloseCancel(d) \/ CloseForget(d)

Spec == Init /\ [][Next]_vars

-----------------------------------------------------------------------------
TypeOK ==
    /\ now \in 0..MaxNow
    /\ {catalog, watched, live, closing} \subseteq SUBSET Dataset
    /\ mark \in [Dataset -> Reason \cup {"none"}]
    /\ {attributed, serving, posted} \subseteq SUBSET Query
    /\ {attrAt, deadAt, since} \subseteq [Query -> 0..MaxNow]
    /\ dead \in [Query -> Reason \cup {"none"}]
    /\ ticket \in [Query -> {"none", "pending", "redeemed", "cancelled", "gone"}]
    /\ {flag, token} \subseteq [Query -> BOOLEAN]
    /\ on \in [Query -> Dataset]
    /\ query \in [Query -> {"idle", "resolved", "checked", "ending", "minted",
                            "withdrawing", "returned", "refused"}]
    /\ uses \in [Query -> Nat]
    /\ redeem \in [Query \X Start -> {"idle", "looked", "refused", "done"}]
    /\ answer \in [Query \X Start -> Reason \cup {"none", "stream", "own"}]
    /\ cause \in [Query -> {"none", "client", "close", "end", "unattributed"}]
    /\ ender \in [Ender -> {"idle", "enqueue", "cancel"}]
    /\ toCancel \in [Ender -> SUBSET Query]
    /\ closer \in [Dataset -> {"idle", "disarmed", "begun", "cancelled", "done"}]
    /\ \A d \in Dataset :
          Cardinality({q \in Query : ticket[q] = "pending" /\ on[q] = d}) <= MaxPending

redeemable(q) == ticket[q] = "pending" /\ ~expired(q)

(* ADR-019's promise: a ticket's stream is handed out at most once, and     *)
(* never after the ticket was taken back while pending, whichever of the    *)
(* client, a close, an end or its own query took it (skp.rs redeem).        *)
SingleUse == \A q \in Query : uses[q] <= 1 /\ (cause[q] # "none" => uses[q] = 0)

(* A close linearizes at begin_close: once it returned, no ticket a client  *)
(* was told of is redeemable, and every stream of the dataset that the      *)
(* registry still knew has been cancelled, whatever queries were under way  *)
(* (skp.rs close_dataset).                                                  *)
ClosedIsClosed ==
    \A q \in Query : closer[on[q]] = "done" =>
        /\ query[q] = "returned" => ~redeemable(q)
        /\ q \in serving => token[q] \/ ticket[q] = "gone"

(* Once a session's end has run, no ticket of it is redeemable and every    *)
(* redeemed stream the registry still knows was cancelled: no query slips   *)
(* between the live check and the attribution, and no attribution is pruned *)
(* before its ticket (skp.rs invalidate, attribute_ticket, prune_locked).   *)
EndedIsEnded ==
    \A q \in Query :
        ( /\ mark[on[q]] # "none" /\ query[q] = "returned"
          /\ \A e \in Ender : datasetOf(e) = on[q] => ender[e] = "idle" ) =>
        /\ ~redeemable(q)
        /\ (ticket[q] = "redeemed" /\ ~expired(q)) => flag[q]

(* What is over is over, by a close or by an end.                           *)
OverIsOver == ClosedIsClosed /\ EndedIsEnded

(* However many of the pre-check, the post-checks and the watch notice a    *)
(* change, and whether or not a close runs, a session ends with at most one *)
(* event (skp.rs end_generation).                                           *)
OneEventPerSession == \A d \in Dataset : events[d] <= 1

(* What a START is told is true: a reason is named only if the dataset's    *)
(* session ended for it, and a ticket an end took back is refused by that   *)
(* reason and never in redeem's own words while the record lasts (lib.rs    *)
(* create_from_ticket, "Why the second read is sound").                     *)
RefusalNamesTheEnd ==
    [][\A q \in Query, s \in Start :
         LET said == answer'[<<q, s>>]
         IN said # answer[<<q, s>>] =>
              /\ said \in Reason => mark[on[q]] = said
              /\ (said = "own" /\ cause[q] = "end" /\ on[q] \in catalog)
                    => now - deadAt[q] > TicketTtl + MaxAge]_vars

=============================================================================
