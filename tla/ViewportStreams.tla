---------------------------- MODULE ViewportStreams ----------------------------
(***************************************************************************)
(* The frontend's ViewportStreamManager (viewportStreamManager.ts): one    *)
(* dataset's viewport requests, each of which cancels the stream before it *)
(* and issues its own.  The code runs on one thread and gives it up at its *)
(* awaits; a step here is the code between two of them.  A request mints   *)
(* at most one ticket, so the stream has the request's name.               *)
(*                                                                         *)
(* A call that is refused at once (the session ended, stopped, throttled)  *)
(* and a batch that is dropped change nothing and are no steps.  Left out: *)
(* which terminals are shown to the user (selfCancelledHandles), batch     *)
(* numbers and filters.                                                    *)
(***************************************************************************)
EXTENDS Naturals, FiniteSets

CONSTANTS Request,     \* calls of requestViewport: a bound
          Stopper,     \* the call of stop
          NoStream

VARIABLES pc,          \* where each call awaits
          gen,         \* myGeneration of each request
          generation,
          current,     \* currentStreamHandle
          resident,    \* residentStreamHandle
          live,        \* liveTickets
          stream,      \* each ticket: "none", "minted", "started", "over"
          sent,        \* the tickets a cancel was sent for
          canvas,      \* the streams with batches in the canvas's resident set
          ended,       \* sessionEnded
          stopped

vars == <<pc, gen, generation, current, resident, live, stream, sent, canvas, ended, stopped>>

Init ==
    /\ pc = [c \in Request \cup {Stopper} |-> "idle"]
    /\ gen = [r \in Request |-> 0]
    /\ generation = 0
    /\ current = NoStream
    /\ resident = NoStream
    /\ live = {}
    /\ stream = [r \in Request |-> "none"]
    /\ sent = {}
    /\ canvas = {}
    /\ ended = FALSE
    /\ stopped = FALSE

Goto(c, s) == pc' = [pc EXCEPT ![c] = s]
Without(handle, r) == IF handle = r THEN NoStream ELSE handle
Overtaken(r) == gen[r] # generation

\* A resuming call is in the microtask queue: no answer, event or unthrottled request comes
\* before it.  Only the code that called it runs on, which may stop the manager.
Settled == \A c \in DOMAIN pc : pc[c] # "resuming"

-----------------------------------------------------------------------------
\* clearResidency: the canvas drops the stream that last held it.
ClearResidency ==
    /\ resident' = NoStream
    /\ canvas' = canvas \ {resident}

\* supersedeCurrent up to its await: with no stream to cancel it does not wait, and the caller
\* goes on in the next microtask.
Supersede(c) ==
    \/ /\ current # NoStream
       /\ current' = NoStream
       /\ sent' = sent \cup {current}
       /\ Goto(c, "cancelling")
       /\ UNCHANGED <<resident, canvas>>
    \/ /\ current = NoStream
       /\ ClearResidency
       /\ Goto(c, "resuming")
       /\ UNCHANGED <<current, sent>>

\* The cancel was answered, or its call failed.
CancelReturns(c) ==
    /\ Settled
    /\ pc[c] = "cancelling"
    /\ ClearResidency
    /\ Goto(c, "resuming")
    /\ UNCHANGED <<gen, generation, current, live, stream, sent, ended, stopped>>

\* requestViewport.
RequestViewport(r) ==
    /\ Settled
    /\ pc[r] = "idle" /\ ~ended /\ ~stopped
    /\ generation' = generation + 1
    /\ gen' = [gen EXCEPT ![r] = generation + 1]
    /\ Supersede(r)
    /\ UNCHANGED <<live, stream, ended, stopped>>

\* stop: it counts as a newer call.
Stop ==
    /\ pc[Stopper] = "idle"
    /\ stopped' = TRUE
    /\ generation' = generation + 1
    /\ Supersede(Stopper)
    /\ UNCHANGED <<gen, live, stream, ended>>

\* After supersedeCurrent: a request that was overtaken meanwhile is over.
Resume(c) ==
    /\ pc[c] = "resuming"
    /\ Goto(c, IF c # Stopper /\ ~Overtaken(c) THEN "querying" ELSE "done")
    /\ UNCHANGED <<gen, generation, current, resident, live, stream, sent, canvas, ended, stopped>>

-----------------------------------------------------------------------------
\* A bug: the generation is not compared again.
MintedUnchecked(r) ==
    /\ Settled
    /\ pc[r] = "querying"
    /\ stream' = [stream EXCEPT ![r] = "minted"]
    /\ \/ ended /\ sent' = sent \cup {r} /\ Goto(r, "done") /\ UNCHANGED <<current, resident, live>>
       \/ ~ended /\ current' = r /\ resident' = r /\ live' = live \cup {r} /\ Goto(r, "attaching")
          /\ UNCHANGED sent
    /\ UNCHANGED <<gen, generation, canvas, ended, stopped>>

\* viewport_query answered with a ticket.  Nobody else knows of it: what came too late is
\* cancelled here.
Minted(r) ==
    /\ Settled
    /\ pc[r] = "querying"
    /\ stream' = [stream EXCEPT ![r] = "minted"]
    /\ \/ /\ ended \/ Overtaken(r)
          /\ sent' = sent \cup {r}
          /\ Goto(r, "done")
          /\ UNCHANGED <<current, resident, live>>
       \/ /\ ~ended /\ ~Overtaken(r)
          /\ current' = r
          /\ resident' = r
          /\ live' = live \cup {r}
          /\ Goto(r, "attaching")
          /\ UNCHANGED sent
    /\ UNCHANGED <<gen, generation, canvas, ended, stopped>>

\* data_plane_attach answered: the same two checks, and then the socket.
Attached(r) ==
    /\ Settled
    /\ pc[r] = "attaching"
    /\ \/ /\ ended \/ Overtaken(r)
          /\ sent' = sent \cup {r}
          /\ Goto(r, "dropping")
          /\ UNCHANGED stream
       \/ /\ ~ended /\ ~Overtaken(r)
          /\ stream' = [stream EXCEPT ![r] = "started"]
          /\ Goto(r, "done")
          /\ UNCHANGED sent
    /\ UNCHANGED <<gen, generation, current, resident, live, canvas, ended, stopped>>

\* The cancel of a ticket that was never attached returned.
Dropped(r) ==
    /\ Settled
    /\ pc[r] = "dropping"
    /\ current' = Without(current, r)
    /\ resident' = Without(resident, r)
    /\ live' = IF ended THEN live \ {r} ELSE live
    /\ Goto(r, "done")
    /\ UNCHANGED <<gen, generation, stream, sent, canvas, ended, stopped>>

\* viewport_query or data_plane_attach fails: the call throws, and what it set stays.
CallFails(r) ==
    /\ Settled
    /\ pc[r] \in {"querying", "attaching"}
    /\ Goto(r, "done")
    /\ UNCHANGED <<gen, generation, current, resident, live, stream, sent, canvas, ended, stopped>>

-----------------------------------------------------------------------------
\* sink.onBatch: a batch of the current stream, whose ticket is live, reaches the canvas.
OnBatch(r) ==
    /\ Settled
    /\ stream[r] = "started"
    /\ r \in live
    /\ current = r
    /\ canvas' = canvas \cup {r}
    /\ UNCHANGED <<pc, gen, generation, current, resident, live, stream, sent, ended, stopped>>

\* endSession, whichever route came first.
EndSession ==
    /\ ended' = TRUE
    /\ live' = {}
    /\ ClearResidency
    /\ current' = NoStream

\* sink.onTerminal; one that says the source changed ends the session.
OnTerminal(r, changed) ==
    /\ Settled
    /\ stream[r] = "started"
    /\ stream' = [stream EXCEPT ![r] = "over"]
    /\ \/ changed /\ ~ended /\ EndSession
       \/ /\ ~changed \/ ended
          /\ current' = Without(current, r)
          /\ live' = live \ {r}
          /\ UNCHANGED <<resident, canvas, ended>>
    /\ UNCHANGED <<pc, gen, generation, sent, stopped>>

\* notifySessionEnded: the kernel's dataset_session_ended event.
NotifySessionEnded ==
    /\ Settled
    /\ ~ended
    /\ EndSession
    /\ UNCHANGED <<pc, gen, generation, stream, sent, stopped>>

\* cancelStream: the user's cancel, or the canvas refused a batch at a ceiling.
CancelStream(r) ==
    /\ Settled
    /\ stream[r] \in {"started", "over"}
    /\ current' = Without(current, r)
    /\ sent' = sent \cup {r}
    /\ UNCHANGED <<pc, gen, generation, resident, live, stream, canvas, ended, stopped>>

Next ==
    \/ \E r \in Request : \/ RequestViewport(r) \/ Minted(r) \/ Attached(r) \/ Dropped(r)
                          \/ CallFails(r) \/ OnBatch(r) \/ CancelStream(r)
                          \/ \E changed \in BOOLEAN : OnTerminal(r, changed)
    \/ \E c \in Request \cup {Stopper} : CancelReturns(c) \/ Resume(c)
    \/ Stop \/ NotifySessionEnded

Spec == Init /\ [][Next]_vars

-----------------------------------------------------------------------------
\* No ticket is forgotten and none is out of date (requestViewport's checks after its awaits,
\* the latch of endSession): every ticket is the current one, or it was cancelled, is over or
\* ended with the session; the current one is the newest request's, and after a stop or the end
\* of the session there is none, nothing is live and nothing is resident.
TicketsAreAccountedFor ==
    /\ \A r \in Request : stream[r] \in {"minted", "started"} => current = r \/ r \in sent \/ ended
    /\ current # NoStream => ~Overtaken(current) /\ ~ended /\ ~stopped
    /\ ended => live = {} /\ resident = NoStream

\* "The baseline resident set holds at most one stream's batches at a time, because every issue
\* supersedes through clearResidency" (sink.onTerminal).
AtMostOneResident == Cardinality(canvas) <= 1
=============================================================================
