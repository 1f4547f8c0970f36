------------------------- MODULE OpenAdmissionProofs -------------------------
(***************************************************************************)
(* What open_dataset, the watch it arms and any number of close_dataset    *)
(* calls for its name guarantee, wherever they interleave.                 *)
(*                                                                         *)
(* Neither property is inductive.  That a signal is answered needs to know *)
(* where a claimed signal is on each side of the admission (SignalIsKept), *)
(* that none is recorded between the decision and the admission            *)
(* (UndecidedIsUnsignalled) and what a refusal is about (RefusalHasReason, *)
(* RecordedIsClaimed).  That nothing is left needs to know, for every      *)
(* place of the open, what it has put where (NameIsThere, SessionIsNamed,  *)
(* RecordIsReturned), for every place of a close what it has taken         *)
(* (CloseSawTheName, CloseTook) and who is answerable for the threads and  *)
(* handles that are still there (ThreadsFollow, DropIsUnderWay).           *)
(***************************************************************************)
EXTENDS OpenAdmission, TLAPS

ToInsert == {"idle", "armParent", "armGrandparent", "unarming", "opening"}
Refusing == {"failing", "removed", "closedMeanwhile"}
UnderLatch == {"deciding", "reading", "minting", "minted"}
UnderGuard == {"minting", "minted", "recorded"}

AllClosed == \A w \in Handle : stage[w] \in {"none", "closed"}

-----------------------------------------------------------------------------
(* The admission.                                                           *)

LocksAreHeld ==
    /\ latchHeld <=> open \in UnderLatch
    /\ reading <=> open \in UnderGuard
    /\ latch = "admitted" <=> open = "recorded" \/ (open = "returned" /\ answer = "ok")

AnswerIsLast == answer = "ok" => open = "returned"

\* The name is in the catalog only between the insert and the refusal or the close.
NameIsThere ==
    /\ inCatalog => /\ open \notin ToInsert \cup Refusing
                    /\ open = "returned" => answer = "ok"
    /\ reading => inCatalog

SessionIsNamed ==
    /\ session \in {"live", "ended"} => inCatalog
    /\ session # "none" => open \in {"minted", "recorded", "returned"}
                           /\ (open = "returned" => answer = "ok")

RecordIsReturned ==
    record # "none" => /\ open = "returned" /\ answer = "ok"
                       /\ (record = "watching" => dropper = "none")

-----------------------------------------------------------------------------
(* The closes.                                                              *)

CloseSawTheName ==
    \A c \in Closer : close[c] \in {"begin", "forget", "late", "lateDrop", "closed"} =>
                         open \notin ToInsert

CloseTook ==
    \A c \in Closer :
        /\ close[c] \in {"late", "lateDrop", "closed"} => ~inCatalog
        /\ close[c] \in {"lateDrop", "closed"} => record = "none"

ClosingIsUnderWay == closing => \E c \in Closer : close[c] = "forget"

-----------------------------------------------------------------------------
(* The watch.                                                               *)

ThreadsFollow ==
    \A w \in Handle : /\ stage[w] = "closed" => th[w] = "ended"
                      /\ stage[w] = "none" => th[w] = "none"

\* Who answers for the threads and handles that are still there.
DropIsUnderWay ==
    /\ open \in {"idle", "armParent"} => \A w \in Handle : stage[w] = "none"
    /\ open \in {"idle", "armParent", "armGrandparent"} => stage["grandparent"] = "none" /\ dropper = "none"
    /\ open \in Refusing \cup {"unarming"} => dropper = "open"
    /\ dropper = "open" => open \in Refusing \cup {"unarming"} \/ AllClosed
    /\ dropper \in Closer => /\ open = "returned" /\ answer = "ok"
                             /\ close[dropper] \in {"disarming", "lateDrop"} \/ AllClosed
    /\ dropper = "none" /\ open = "returned" => AllClosed \/ record = "watching"

-----------------------------------------------------------------------------
(* The signal.                                                              *)

SignalIsKept ==
    /\ latch = "pre" => /\ fired => recorded # "none" \/ \E w \in Handle : th[w] = "sinking"
                        /\ \A w \in Handle : th[w] # "ending"
    /\ NoSessionOverASignal

UndecidedIsUnsignalled == open \in {"reading", "minting", "minted"} => recorded = "none"

RefusalHasReason == open \in {"refusing", "removed"} => fired \/ recorded # "none"

RecordedIsClaimed ==
    /\ \A w \in Handle : th[w] = "sinking" => sig[w] # "none"
    /\ recorded # "none" => \E w \in Handle : sig[w] = recorded /\ th[w] = "ended"
    /\ answer = "source_changed" => \E w \in Handle : sig[w] = "change" /\ th[w] = "ended"
    /\ answer = "source_coverage_lost" => \E w \in Handle : sig[w] = "coverage" /\ th[w] = "ended"
    /\ answer # "unrecovered"

HostInv == LocksAreHeld /\ AnswerIsLast /\ NameIsThere /\ SessionIsNamed /\ RecordIsReturned
CloseInv == CloseSawTheName /\ CloseTook /\ ClosingIsUnderWay
WatchInv == ThreadsFollow /\ DropIsUnderWay
SignalInv == SignalIsKept /\ UndecidedIsUnsignalled /\ RefusalHasReason /\ RecordedIsClaimed

\* The inductive invariant.
AdmissionInv == HostInv /\ CloseInv /\ WatchInv /\ SignalInv

-----------------------------------------------------------------------------
\* Every step keeps the types.
LEMMA TypeStep == TypeOK /\ [Next]_vars => TypeOK'
<1> SUFFICES ASSUME TypeOK, [Next]_vars PROVE TypeOK'
  OBVIOUS
<1> USE NoiseAssumption DEF TypeOK, OpenState, CloseState, ThreadState, Signal, Handle
<1>1. CASE Begin
  BY <1>1 DEF Begin, Answer, Goto, nameVars, latchVars, watchVars, fileVars
<1>2. CASE ArmParent
  BY <1>2 DEF ArmParent, arm, Goto, nameVars, latchVars, fileVars
<1>3. CASE ArmGrandparent
  BY <1>3 DEF ArmGrandparent, arm, Goto, nameVars, latchVars, fileVars
<1>4. CASE Unarmed
  BY <1>4 DEF Unarmed, Goto, nameVars, latchVars, watchVars, fileVars
<1>5. CASE OpenCancellable
  <2>1. UNCHANGED <<latchHeld, reading, session, closing, record, latch, recorded, close,
                  stage, th, io, sig, fired, hit, noise>>
    BY <1>5 DEF OpenCancellable, latchVars, watchVars, fileVars
  <2>2. inCatalog' \in BOOLEAN
    BY <1>5 DEF OpenCancellable
  <2>3. open' \in OpenState /\ dropper' \in Closer \cup {"none", "open"} /\ answer' \in {answer, "failed"}
    BY <1>5 DEF OpenCancellable, Goto
  <2> QED BY <2>1, <2>2, <2>3
<1>6. CASE Failed
  BY <1>6 DEF Failed, Goto, nameVars, latchVars, watchVars, fileVars
<1>7. CASE LockLatch
  BY <1>7 DEF LockLatch, Goto, nameVars, latchVars, watchVars, fileVars
<1>8. CASE ResolvesUnchanged
  <2>1. UNCHANGED <<answer, reading, inCatalog, session, closing, record, latch, recorded, close, dropper,
                  stage, th, io, sig, fired, hit, noise>>
    BY <1>8 DEF ResolvesUnchanged, nameVars, latchVars, watchVars, fileVars
  <2>2. latchHeld' \in BOOLEAN
    BY <1>8 DEF ResolvesUnchanged
  <2>3. open' \in OpenState
    BY <1>8 DEF ResolvesUnchanged, Goto
  <2> QED BY <2>1, <2>2, <2>3
<1>9. CASE RemoveName
  <2>1. UNCHANGED <<answer, latchHeld, reading, session, closing, record, latch, recorded, close,
                  stage, th, io, sig, fired, hit, noise>>
    BY <1>9 DEF RemoveName, latchVars, watchVars, fileVars
  <2>2. inCatalog' \in BOOLEAN
    BY <1>9 DEF RemoveName
  <2>3. open' \in OpenState /\ dropper' \in Closer \cup {"none", "open"}
    BY <1>9 DEF RemoveName, Goto
  <2> QED BY <2>1, <2>2, <2>3
<1>10. CASE RefuseSignalled
  BY <1>10 DEF RefuseSignalled, Answer, refusalOf, nameVars, latchVars, watchVars, fileVars
<1>11. CASE ReadCatalog
  <2>1. UNCHANGED <<inCatalog, session, closing, record, latch, recorded, close, stage, th, io, sig, fired, hit, noise>>
    BY <1>11 DEF ReadCatalog, nameVars, latchVars, watchVars, fileVars
  <2>2. latchHeld' \in BOOLEAN
    BY <1>11 DEF ReadCatalog
  <2>3. reading' \in BOOLEAN
    BY <1>11 DEF ReadCatalog
  <2>4. open' \in OpenState /\ dropper' \in Closer \cup {"none", "open"} /\ answer' \in {answer, "unknown_dataset"}
    BY <1>11 DEF ReadCatalog, Goto
  <2> QED BY <2>1, <2>2, <2>3, <2>4
<1>12. CASE MintForOpen
  BY <1>12 DEF MintForOpen, Goto, latchVars, watchVars, fileVars
<1>13. CASE Admit
  <2>1. UNCHANGED <<answer, reading, inCatalog, session, closing, record, recorded, close, dropper, stage, th, io, sig, fired, hit, noise>>
    BY <1>13 DEF Admit, nameVars, watchVars, fileVars
  <2>2. latchHeld' \in BOOLEAN
    BY <1>13 DEF Admit
  <2>3. open' \in OpenState /\ latch' = "admitted"
    BY <1>13 DEF Admit, Goto
  <2> QED BY <2>1, <2>2, <2>3
<1>14. CASE InsertRecord
  BY <1>14 DEF InsertRecord, Answer, latchVars, watchVars, fileVars
<1>15. ASSUME NEW c \in Closer, CloseBegins(c) PROVE TypeOK'
  BY <1>15 DEF CloseBegins, takeRecord, CloseGoto, closeUnchanged, hostVars, latchVars, watchVars,
               fileVars
<1>16. ASSUME NEW c \in Closer, CloseLooks(c) PROVE TypeOK'
  BY <1>16 DEF CloseLooks, CloseGoto, closeUnchanged, hostVars, nameVars, latchVars, watchVars,
               fileVars
<1>17. ASSUME NEW c \in Closer, BeginClose(c) PROVE TypeOK'
  BY <1>17 DEF BeginClose, CloseGoto, closeUnchanged, hostVars, latchVars, watchVars, fileVars
<1>18. ASSUME NEW c \in Closer, Forget(c) PROVE TypeOK'
  <2>1. UNCHANGED <<open, answer, latchHeld, reading, record, dropper, latch, recorded, stage, th, io, sig, fired, hit, noise>>
    BY <1>18 DEF Forget, closeUnchanged, hostVars, latchVars, watchVars, fileVars
  <2>2. inCatalog' \in BOOLEAN /\ closing' \in BOOLEAN
    BY <1>18 DEF Forget
  <2>3. session' \in {"none", "forgotten"} /\ close' \in [Closer -> CloseState]
    BY <1>18 DEF Forget, CloseGoto
  <2> QED BY <2>1, <2>2, <2>3
<1>19. ASSUME NEW c \in Closer, TakeLateRecord(c) PROVE TypeOK'
  BY <1>19 DEF TakeLateRecord, takeRecord, CloseGoto, closeUnchanged, hostVars, latchVars,
               watchVars, fileVars
<1>20. ASSUME NEW c \in Closer, Closed(c) PROVE TypeOK'
  BY <1>20 DEF Closed, CloseGoto, closeUnchanged, hostVars, nameVars, latchVars, watchVars, fileVars
<1>21. ASSUME NEW w \in Handle, Change(w) PROVE TypeOK'
  BY <1>21 DEF Change, hostVars, nameVars, latchVars, watchVars
<1>22. ASSUME NEW w \in Handle, ReadMatches(w) PROVE TypeOK'
  BY <1>22 DEF ReadMatches, readUnchanged, hostVars, nameVars, latchVars
<1>23. ASSUME NEW w \in Handle, ReadOther(w) PROVE TypeOK'
  BY <1>23 DEF ReadOther, readUnchanged, hostVars, nameVars, latchVars
<1>24. ASSUME NEW w \in Handle, ReadFails(w) PROVE TypeOK'
  BY <1>24 DEF ReadFails, readUnchanged, hostVars, nameVars, latchVars
<1>25. ASSUME NEW w \in Handle, Wake(w) PROVE TypeOK'
  <2>1. UNCHANGED <<open, answer, latchHeld, reading, inCatalog, session, closing, record, latch, recorded, close, dropper, stage, io, hit, noise>>
    BY <1>25 DEF Wake, hostVars, nameVars, latchVars, fileVars
  <2>2. fired' \in BOOLEAN
    BY <1>25 DEF Wake, claim
  <2>3. sig' \in [Handle -> Signal \cup {"none"}]
    BY <1>25 DEF Wake, claim
  <2>4. th' \in [Handle -> ThreadState]
    BY <1>25 DEF Wake, claim
  <2> QED BY <2>1, <2>2, <2>3, <2>4
<1>26. ASSUME NEW w \in Handle, Reissue(w) PROVE TypeOK'
  <2>1. UNCHANGED <<open, answer, latchHeld, reading, inCatalog, session, closing, record, latch, recorded, close, dropper, stage, hit, noise>>
    BY <1>26 DEF Reissue, hostVars, nameVars, latchVars, fileVars
  <2>2. fired' \in BOOLEAN
    BY <1>26 DEF Reissue, claim
  <2>3. sig' \in [Handle -> Signal \cup {"none"}]
    BY <1>26 DEF Reissue, claim
  <2>4. th' \in [Handle -> ThreadState]
    BY <1>26 DEF Reissue, claim
  <2>5. io' \in [Handle -> {"none", "pending", "aborted", "match", "other", "failed"}]
    BY <1>26 DEF Reissue, claim
  <2> QED BY <2>1, <2>2, <2>3, <2>4, <2>5
<1>27. ASSUME NEW w \in Handle, Recheck(w) PROVE TypeOK'
  BY <1>27 DEF Recheck, disarming, hostVars, nameVars, latchVars, fileVars
<1>28. ASSUME NEW w \in Handle, Sink(w) PROVE TypeOK'
  BY <1>28 DEF Sink, hostVars, nameVars, fileVars
<1>29. ASSUME NEW w \in Handle, EndGeneration(w) PROVE TypeOK'
  BY <1>29 DEF EndGeneration, hostVars, latchVars, fileVars
<1>30. ASSUME NEW w \in Handle, StoreDisarming(w) PROVE TypeOK'
  BY <1>30 DEF StoreDisarming, hostVars, nameVars, latchVars, fileVars
<1>31. ASSUME NEW w \in Handle, CancelIo(w) PROVE TypeOK'
  BY <1>31 DEF CancelIo, hostVars, nameVars, latchVars, fileVars
<1>32. ASSUME NEW w \in Handle, Join(w) PROVE TypeOK'
  BY <1>32 DEF Join, hostVars, nameVars, latchVars, fileVars
<1>33. CASE UNCHANGED vars
  BY <1>33 DEF vars, hostVars, nameVars, latchVars, watchVars, fileVars
<1> QED
  BY <1>1, <1>2, <1>3, <1>4, <1>5, <1>6, <1>7, <1>8, <1>9, <1>10, <1>11, <1>12, <1>13, <1>14, <1>15,
     <1>16, <1>17, <1>18, <1>19, <1>20, <1>21, <1>22, <1>23, <1>24, <1>25, <1>26, <1>27, <1>28,
     <1>29, <1>30, <1>31, <1>32, <1>33
     DEF Next, OpenStep, CloseStep, WatchStep, DropStep

\* A step that leaves a part of the state alone keeps what is said of that part.
LEMMA FrameKeeps ==
  ASSUME AdmissionInv
  PROVE  /\ UNCHANGED <<open, answer, latchHeld, reading, latch, inCatalog, session, record, dropper>>
               => HostInv'
         /\ UNCHANGED <<close, open, inCatalog, record, closing>> => CloseInv'
         /\ UNCHANGED <<stage, th, open, answer, dropper, close, record>> => WatchInv'
         /\ UNCHANGED <<latch, fired, recorded, th, sig, session, open, answer>> => SignalInv'
<1>1. UNCHANGED <<open, answer, latchHeld, reading, latch, inCatalog, session, record, dropper>> => HostInv'
  BY DEF AdmissionInv, HostInv, LocksAreHeld, AnswerIsLast, NameIsThere, SessionIsNamed, RecordIsReturned
<1>2. UNCHANGED <<close, open, inCatalog, record, closing>> => CloseInv'
  BY DEF AdmissionInv, CloseInv, CloseSawTheName, CloseTook, ClosingIsUnderWay
<1>3. UNCHANGED <<stage, th, open, answer, dropper, close, record>> => WatchInv'
  BY DEF AdmissionInv, WatchInv, ThreadsFollow, DropIsUnderWay, AllClosed
<1>4. UNCHANGED <<latch, fired, recorded, th, sig, session, open, answer>> => SignalInv'
  BY DEF AdmissionInv, SignalInv, SignalIsKept, NoSessionOverASignal, UndecidedIsUnsignalled,
         RefusalHasReason, RecordedIsClaimed
<1> QED BY <1>1, <1>2, <1>3, <1>4

\* Every step keeps the invariant.
LEMMA AdmissionStep == TypeOK /\ AdmissionInv /\ [Next]_vars => AdmissionInv'
<1> SUFFICES ASSUME TypeOK, AdmissionInv, [Next]_vars PROVE AdmissionInv'
  OBVIOUS
<1>0. HostInv /\ CloseInv /\ WatchInv /\ SignalInv
  BY DEF AdmissionInv
<1> USE CloserAssumption DEF TypeOK, ToInsert, Refusing, UnderLatch, UnderGuard, Handle, Signal
<1>1. CASE Begin
  <2>1. HostInv'
    BY <1>0, <1>1 DEF Begin, Answer, Goto, nameVars, latchVars, HostInv, LocksAreHeld, AnswerIsLast,
           NameIsThere, SessionIsNamed, RecordIsReturned
  <2>2. CloseInv'
    BY <1>0, <1>1 DEF Begin, Answer, Goto, nameVars, CloseInv, CloseSawTheName, CloseTook,
           ClosingIsUnderWay
  <2>3. WatchInv'
    BY <1>0, <1>1 DEF Begin, Answer, Goto, nameVars, watchVars, WatchInv, ThreadsFollow,
           DropIsUnderWay, AllClosed
  <2>4. SignalInv'
    BY <1>0, <1>1 DEF Begin, Answer, Goto, nameVars, latchVars, watchVars, SignalInv, SignalIsKept,
           NoSessionOverASignal, UndecidedIsUnsignalled, RefusalHasReason, RecordedIsClaimed
  <2> QED BY <2>1, <2>2, <2>3, <2>4 DEF AdmissionInv
<1>2. CASE ArmParent
  <2>1. HostInv'
    BY <1>0, <1>2 DEF ArmParent, Goto, nameVars, latchVars, HostInv, LocksAreHeld, AnswerIsLast,
           NameIsThere, SessionIsNamed, RecordIsReturned
  <2>2. CloseInv'
    BY <1>0, <1>2 DEF ArmParent, Goto, nameVars, CloseInv, CloseSawTheName, CloseTook,
           ClosingIsUnderWay
  <2>3. WatchInv'
    BY <1>0, <1>2 DEF ArmParent, arm, Goto, nameVars, WatchInv, ThreadsFollow, DropIsUnderWay,
           AllClosed
  <2>4. SignalInv'
    BY <1>0, <1>2 DEF ArmParent, arm, Goto, nameVars, latchVars, SignalInv, SignalIsKept,
           NoSessionOverASignal, UndecidedIsUnsignalled, RefusalHasReason, RecordedIsClaimed,
           WatchInv, ThreadsFollow, DropIsUnderWay, AllClosed
  <2> QED BY <2>1, <2>2, <2>3, <2>4 DEF AdmissionInv
<1>3. CASE ArmGrandparent
  <2>1. HostInv'
    BY <1>0, <1>3 DEF ArmGrandparent, Goto, nameVars, latchVars, HostInv, LocksAreHeld,
           AnswerIsLast, NameIsThere, SessionIsNamed, RecordIsReturned
  <2>2. CloseInv'
    BY <1>0, <1>3 DEF ArmGrandparent, Goto, nameVars, CloseInv, CloseSawTheName, CloseTook,
           ClosingIsUnderWay
  <2>3. WatchInv'
    BY <1>0, <1>3 DEF ArmGrandparent, arm, Goto, nameVars, WatchInv, ThreadsFollow, DropIsUnderWay,
           AllClosed
  <2>4. SignalInv'
    BY <1>0, <1>3 DEF ArmGrandparent, arm, Goto, nameVars, latchVars, SignalInv, SignalIsKept,
           NoSessionOverASignal, UndecidedIsUnsignalled, RefusalHasReason, RecordedIsClaimed,
           WatchInv, ThreadsFollow, DropIsUnderWay, AllClosed
  <2> QED BY <2>1, <2>2, <2>3, <2>4 DEF AdmissionInv
<1>4. CASE Unarmed
  <2>1. HostInv'
    BY <1>0, <1>4 DEF Unarmed, Goto, nameVars, latchVars, HostInv, LocksAreHeld, AnswerIsLast,
           NameIsThere, SessionIsNamed, RecordIsReturned
  <2>2. CloseInv'
    BY <1>0, <1>4 DEF Unarmed, Goto, nameVars, CloseInv, CloseSawTheName, CloseTook,
           ClosingIsUnderWay
  <2>3. WatchInv'
    BY <1>0, <1>4 DEF Unarmed, Dropped, armed, Goto, nameVars, watchVars, WatchInv, ThreadsFollow,
           DropIsUnderWay, AllClosed
  <2>4. SignalInv'
    BY <1>0, <1>4 DEF Unarmed, Goto, nameVars, latchVars, watchVars, SignalInv, SignalIsKept,
           NoSessionOverASignal, UndecidedIsUnsignalled, RefusalHasReason, RecordedIsClaimed
  <2> QED BY <2>1, <2>2, <2>3, <2>4 DEF AdmissionInv
<1>5. CASE OpenCancellable
  <2>1. HostInv'
    BY <1>0, <1>5 DEF OpenCancellable, Goto, latchVars, HostInv, LocksAreHeld, AnswerIsLast,
           NameIsThere, SessionIsNamed, RecordIsReturned
  <2>2. CloseInv'
    BY <1>0, <1>5 DEF OpenCancellable, Goto, CloseInv, CloseSawTheName, CloseTook, ClosingIsUnderWay
  <2>3. WatchInv'
    BY <1>0, <1>5 DEF OpenCancellable, Goto, watchVars, WatchInv, ThreadsFollow, DropIsUnderWay,
           AllClosed
  <2>4. SignalInv'
    BY <1>0, <1>5 DEF OpenCancellable, Goto, latchVars, watchVars, SignalInv, SignalIsKept,
           NoSessionOverASignal, UndecidedIsUnsignalled, RefusalHasReason, RecordedIsClaimed
  <2> QED BY <2>1, <2>2, <2>3, <2>4 DEF AdmissionInv
<1>6. CASE Failed
  <2>1. HostInv'
    BY <1>0, <1>6 DEF Failed, Goto, nameVars, latchVars, HostInv, LocksAreHeld, AnswerIsLast,
           NameIsThere, SessionIsNamed, RecordIsReturned
  <2>2. CloseInv'
    BY <1>0, <1>6 DEF Failed, Goto, nameVars, CloseInv, CloseSawTheName, CloseTook,
           ClosingIsUnderWay
  <2>3. WatchInv'
    BY <1>0, <1>6 DEF Failed, Dropped, armed, Goto, nameVars, watchVars, WatchInv, ThreadsFollow,
           DropIsUnderWay, AllClosed
  <2>4. SignalInv'
    BY <1>0, <1>6 DEF Failed, Goto, nameVars, latchVars, watchVars, SignalInv, SignalIsKept,
           NoSessionOverASignal, UndecidedIsUnsignalled, RefusalHasReason, RecordedIsClaimed
  <2> QED BY <2>1, <2>2, <2>3, <2>4 DEF AdmissionInv
<1>7. CASE LockLatch
  <2>1. HostInv'
    BY <1>0, <1>7 DEF LockLatch, Goto, nameVars, latchVars, HostInv, LocksAreHeld, AnswerIsLast,
           NameIsThere, SessionIsNamed, RecordIsReturned
  <2>2. CloseInv'
    BY <1>0, <1>7 DEF LockLatch, Goto, nameVars, CloseInv, CloseSawTheName, CloseTook,
           ClosingIsUnderWay
  <2>3. WatchInv'
    BY <1>0, <1>7 DEF LockLatch, Goto, nameVars, watchVars, WatchInv, ThreadsFollow, DropIsUnderWay,
           AllClosed
  <2>4. SignalInv'
    BY <1>0, <1>7 DEF LockLatch, Goto, nameVars, latchVars, watchVars, SignalInv, SignalIsKept,
           NoSessionOverASignal, UndecidedIsUnsignalled, RefusalHasReason, RecordedIsClaimed
  <2> QED BY <2>1, <2>2, <2>3, <2>4 DEF AdmissionInv
<1>8. CASE ResolvesUnchanged
  <2>1. HostInv'
    BY <1>0, <1>8 DEF ResolvesUnchanged, Goto, nameVars, latchVars, HostInv, LocksAreHeld,
           AnswerIsLast, NameIsThere, SessionIsNamed, RecordIsReturned
  <2>2. CloseInv'
    BY <1>0, <1>8 DEF ResolvesUnchanged, Goto, nameVars, CloseInv, CloseSawTheName, CloseTook,
           ClosingIsUnderWay
  <2>3. WatchInv'
    BY <1>0, <1>8 DEF ResolvesUnchanged, Goto, nameVars, watchVars, WatchInv, ThreadsFollow,
           DropIsUnderWay, AllClosed
  <2>4. SignalInv'
    BY <1>0, <1>8 DEF ResolvesUnchanged, signalled, watching, armed, Goto, nameVars, latchVars,
           watchVars, SignalInv, SignalIsKept, NoSessionOverASignal, UndecidedIsUnsignalled,
           RefusalHasReason, RecordedIsClaimed
  <2> QED BY <2>1, <2>2, <2>3, <2>4 DEF AdmissionInv
<1>9. CASE RemoveName
  <2>1. HostInv'
    BY <1>0, <1>9 DEF RemoveName, Goto, latchVars, HostInv, LocksAreHeld, AnswerIsLast, NameIsThere,
           SessionIsNamed, RecordIsReturned
  <2>2. CloseInv'
    BY <1>0, <1>9 DEF RemoveName, Goto, CloseInv, CloseSawTheName, CloseTook, ClosingIsUnderWay
  <2>3. WatchInv'
    BY <1>0, <1>9 DEF RemoveName, Goto, watchVars, WatchInv, ThreadsFollow, DropIsUnderWay,
           AllClosed
  <2>4. SignalInv'
    BY <1>0, <1>9 DEF RemoveName, Goto, latchVars, watchVars, SignalInv, SignalIsKept,
           NoSessionOverASignal, UndecidedIsUnsignalled, RefusalHasReason, RecordedIsClaimed
  <2> QED BY <2>1, <2>2, <2>3, <2>4 DEF AdmissionInv
<1>10. CASE RefuseSignalled
  <2>1. HostInv'
    BY <1>0, <1>10 DEF RefuseSignalled, Dropped, armed, Answer, refusalOf, nameVars, latchVars,
           HostInv, LocksAreHeld, AnswerIsLast, NameIsThere, SessionIsNamed, RecordIsReturned
  <2>2. CloseInv'
    BY <1>0, <1>10 DEF RefuseSignalled, Answer, nameVars, CloseInv, CloseSawTheName, CloseTook,
           ClosingIsUnderWay
  <2>3. WatchInv'
    BY <1>0, <1>10 DEF RefuseSignalled, Dropped, armed, Answer, refusalOf, nameVars, watchVars,
           WatchInv, ThreadsFollow, DropIsUnderWay, AllClosed
  <2>4. SignalInv'
    BY <1>0, <1>10 DEF RefuseSignalled, Dropped, armed, Answer, refusalOf, nameVars, latchVars,
           watchVars, SignalInv, SignalIsKept, NoSessionOverASignal, UndecidedIsUnsignalled,
           RefusalHasReason, RecordedIsClaimed, HostInv, WatchInv, ThreadsFollow, LocksAreHeld
  <2> QED BY <2>1, <2>2, <2>3, <2>4 DEF AdmissionInv
<1>11. CASE ReadCatalog
  <2>1. HostInv'
    BY <1>0, <1>11 DEF ReadCatalog, Goto, nameVars, latchVars, HostInv, LocksAreHeld, AnswerIsLast,
           NameIsThere, SessionIsNamed, RecordIsReturned
  <2>2. CloseInv'
    BY <1>0, <1>11 DEF ReadCatalog, Goto, nameVars, CloseInv, CloseSawTheName, CloseTook,
           ClosingIsUnderWay
  <2>3. WatchInv'
    BY <1>0, <1>11 DEF ReadCatalog, Goto, nameVars, watchVars, WatchInv, ThreadsFollow,
           DropIsUnderWay, AllClosed
  <2>4. SignalInv'
    BY <1>0, <1>11 DEF ReadCatalog, Goto, nameVars, latchVars, watchVars, SignalInv, SignalIsKept,
           NoSessionOverASignal, UndecidedIsUnsignalled, RefusalHasReason, RecordedIsClaimed
  <2> QED BY <2>1, <2>2, <2>3, <2>4 DEF AdmissionInv
<1>12. CASE MintForOpen
  <2>1. HostInv'
    BY <1>0, <1>12 DEF MintForOpen, Goto, latchVars, HostInv, LocksAreHeld, AnswerIsLast,
           NameIsThere, SessionIsNamed, RecordIsReturned
  <2>2. CloseInv'
    BY <1>0, <1>12 DEF MintForOpen, Goto, CloseInv, CloseSawTheName, CloseTook, ClosingIsUnderWay
  <2>3. WatchInv'
    BY <1>0, <1>12 DEF MintForOpen, Goto, watchVars, WatchInv, ThreadsFollow, DropIsUnderWay,
           AllClosed
  <2>4. SignalInv'
    BY <1>0, <1>12 DEF MintForOpen, Goto, latchVars, watchVars, SignalInv, SignalIsKept,
           NoSessionOverASignal, UndecidedIsUnsignalled, RefusalHasReason, RecordedIsClaimed,
           HostInv, LocksAreHeld
  <2> QED BY <2>1, <2>2, <2>3, <2>4 DEF AdmissionInv
<1>13. CASE Admit
  <2>1. HostInv'
    BY <1>0, <1>13 DEF Admit, Goto, nameVars, HostInv, LocksAreHeld, AnswerIsLast, NameIsThere,
           SessionIsNamed, RecordIsReturned
  <2>2. CloseInv'
    BY <1>0, <1>13 DEF Admit, Goto, nameVars, CloseInv, CloseSawTheName, CloseTook,
           ClosingIsUnderWay
  <2>3. WatchInv'
    BY <1>0, <1>13 DEF Admit, Goto, nameVars, watchVars, WatchInv, ThreadsFollow, DropIsUnderWay,
           AllClosed
  <2>4. SignalInv'
    BY <1>0, <1>13 DEF Admit, Goto, nameVars, watchVars, SignalInv, SignalIsKept,
           NoSessionOverASignal, UndecidedIsUnsignalled, RefusalHasReason, RecordedIsClaimed
  <2> QED BY <2>1, <2>2, <2>3, <2>4 DEF AdmissionInv
<1>14. CASE InsertRecord
  <2>1. HostInv'
    BY <1>0, <1>14 DEF InsertRecord, watching, armed, Answer, latchVars, HostInv, LocksAreHeld,
           AnswerIsLast, NameIsThere, SessionIsNamed, RecordIsReturned
  <2>2. CloseInv'
    BY <1>0, <1>14 DEF InsertRecord, Answer, latchVars, CloseInv, CloseSawTheName, CloseTook,
           ClosingIsUnderWay, HostInv, NameIsThere, LocksAreHeld
  <2>3. WatchInv'
    BY <1>0, <1>14 DEF InsertRecord, watching, armed, Answer, watchVars, WatchInv, ThreadsFollow,
           DropIsUnderWay, AllClosed
  <2>4. SignalInv'
    BY <1>0, <1>14 DEF InsertRecord, Answer, latchVars, watchVars, SignalInv, SignalIsKept,
           NoSessionOverASignal, UndecidedIsUnsignalled, RefusalHasReason, RecordedIsClaimed
  <2> QED BY <2>1, <2>2, <2>3, <2>4 DEF AdmissionInv
<1>15. ASSUME NEW c \in Closer, CloseBegins(c) PROVE AdmissionInv'
  <2>1. SignalInv'
    BY <1>15, FrameKeeps DEF CloseBegins, closeUnchanged, hostVars, latchVars, watchVars
  <2>2. HostInv'
    BY <1>0, <1>15 DEF CloseBegins, takeRecord, CloseGoto, closeUnchanged, hostVars, latchVars,
           HostInv, LocksAreHeld, AnswerIsLast, NameIsThere, SessionIsNamed, RecordIsReturned
  <2>3. CloseInv'
    BY <1>0, <1>15 DEF CloseBegins, takeRecord, CloseGoto, closeUnchanged, hostVars, CloseInv,
           CloseSawTheName, CloseTook, ClosingIsUnderWay
  <2>4. WatchInv'
    BY <1>0, <1>15 DEF CloseBegins, takeRecord, CloseGoto, closeUnchanged, hostVars, watchVars,
           WatchInv, ThreadsFollow, DropIsUnderWay, AllClosed, HostInv, RecordIsReturned
  <2> QED BY <2>1, <2>2, <2>3, <2>4 DEF AdmissionInv
<1>16. ASSUME NEW c \in Closer, CloseLooks(c) PROVE AdmissionInv'
  <2>1. HostInv' /\ SignalInv'
    BY <1>16, FrameKeeps DEF CloseLooks, closeUnchanged, hostVars, nameVars, latchVars, watchVars
  <2>2. CloseInv'
    BY <1>0, <1>16 DEF CloseLooks, CloseGoto, closeUnchanged, Dropped, armed, hostVars, nameVars,
           CloseInv, CloseSawTheName, CloseTook, ClosingIsUnderWay, HostInv, NameIsThere
  <2>3. WatchInv'
    BY <1>0, <1>16 DEF CloseLooks, CloseGoto, closeUnchanged, Dropped, armed, hostVars, nameVars,
           watchVars, WatchInv, ThreadsFollow, DropIsUnderWay, AllClosed
  <2> QED BY <2>1, <2>2, <2>3 DEF AdmissionInv
<1>17. ASSUME NEW c \in Closer, BeginClose(c) PROVE AdmissionInv'
  <2>1. HostInv' /\ SignalInv'
    BY <1>17, FrameKeeps DEF BeginClose, closeUnchanged, hostVars, latchVars, watchVars
  <2>2. CloseInv'
    BY <1>0, <1>17 DEF BeginClose, CloseGoto, closeUnchanged, hostVars, CloseInv, CloseSawTheName,
           CloseTook, ClosingIsUnderWay
  <2>3. WatchInv'
    BY <1>0, <1>17 DEF BeginClose, CloseGoto, closeUnchanged, hostVars, watchVars, WatchInv,
           ThreadsFollow, DropIsUnderWay, AllClosed
  <2> QED BY <2>1, <2>2, <2>3 DEF AdmissionInv
<1>18. ASSUME NEW c \in Closer, Forget(c) PROVE AdmissionInv'
  <2>1. HostInv'
    BY <1>0, <1>18 DEF Forget, closeUnchanged, hostVars, latchVars, HostInv, LocksAreHeld,
           AnswerIsLast, NameIsThere, SessionIsNamed, RecordIsReturned
  <2>2. CloseInv'
    BY <1>0, <1>18 DEF Forget, CloseGoto, closeUnchanged, hostVars, CloseInv, CloseSawTheName,
           CloseTook, ClosingIsUnderWay
  <2>3. WatchInv'
    BY <1>0, <1>18 DEF Forget, CloseGoto, closeUnchanged, hostVars, watchVars, WatchInv,
           ThreadsFollow, DropIsUnderWay, AllClosed
  <2>4. SignalInv'
    BY <1>0, <1>18 DEF Forget, closeUnchanged, hostVars, latchVars, watchVars, SignalInv,
           SignalIsKept, NoSessionOverASignal, UndecidedIsUnsignalled, RefusalHasReason,
           RecordedIsClaimed
  <2> QED BY <2>1, <2>2, <2>3, <2>4 DEF AdmissionInv
<1>19. ASSUME NEW c \in Closer, TakeLateRecord(c) PROVE AdmissionInv'
  <2>1. SignalInv'
    BY <1>19, FrameKeeps DEF TakeLateRecord, closeUnchanged, hostVars, latchVars, watchVars
  <2>2. HostInv'
    BY <1>0, <1>19 DEF TakeLateRecord, takeRecord, CloseGoto, closeUnchanged, hostVars, latchVars,
           HostInv, LocksAreHeld, AnswerIsLast, NameIsThere, SessionIsNamed, RecordIsReturned
  <2>3. CloseInv'
    BY <1>0, <1>19 DEF TakeLateRecord, takeRecord, CloseGoto, closeUnchanged, hostVars, CloseInv,
           CloseSawTheName, CloseTook, ClosingIsUnderWay
  <2>4. WatchInv'
    BY <1>0, <1>19 DEF TakeLateRecord, takeRecord, CloseGoto, closeUnchanged, hostVars, watchVars,
           WatchInv, ThreadsFollow, DropIsUnderWay, AllClosed, HostInv, RecordIsReturned
  <2> QED BY <2>1, <2>2, <2>3, <2>4 DEF AdmissionInv
<1>20. ASSUME NEW c \in Closer, Closed(c) PROVE AdmissionInv'
  <2>1. HostInv' /\ SignalInv'
    BY <1>20, FrameKeeps DEF Closed, closeUnchanged, hostVars, nameVars, latchVars, watchVars
  <2>2. CloseInv'
    BY <1>0, <1>20 DEF Closed, CloseGoto, closeUnchanged, Dropped, armed, hostVars, nameVars,
           CloseInv, CloseSawTheName, CloseTook, ClosingIsUnderWay
  <2>3. WatchInv'
    BY <1>0, <1>20 DEF Closed, CloseGoto, closeUnchanged, Dropped, armed, hostVars, nameVars,
           watchVars, WatchInv, ThreadsFollow, DropIsUnderWay, AllClosed
  <2> QED BY <2>1, <2>2, <2>3 DEF AdmissionInv
<1>21. ASSUME NEW w \in Handle, Change(w) PROVE AdmissionInv'
  <2>1. HostInv' /\ CloseInv' /\ WatchInv' /\ SignalInv'
    BY <1>21, FrameKeeps DEF Change, hostVars, nameVars, latchVars, watchVars
  <2> QED BY <2>1 DEF AdmissionInv
<1>22. ASSUME NEW w \in Handle, ReadMatches(w) PROVE AdmissionInv'
  <2>1. HostInv' /\ CloseInv' /\ WatchInv' /\ SignalInv'
    BY <1>22, FrameKeeps DEF ReadMatches, readUnchanged, hostVars, nameVars, latchVars
  <2> QED BY <2>1 DEF AdmissionInv
<1>23. ASSUME NEW w \in Handle, ReadOther(w) PROVE AdmissionInv'
  <2>1. HostInv' /\ CloseInv' /\ WatchInv' /\ SignalInv'
    BY <1>23, FrameKeeps DEF ReadOther, readUnchanged, hostVars, nameVars, latchVars
  <2> QED BY <2>1 DEF AdmissionInv
<1>24. ASSUME NEW w \in Handle, ReadFails(w) PROVE AdmissionInv'
  <2>1. HostInv' /\ CloseInv' /\ WatchInv' /\ SignalInv'
    BY <1>24, FrameKeeps DEF ReadFails, readUnchanged, hostVars, nameVars, latchVars
  <2> QED BY <2>1 DEF AdmissionInv
<1>25. ASSUME NEW w \in Handle, Wake(w) PROVE AdmissionInv'
  <2>1. HostInv' /\ CloseInv'
    BY <1>25, FrameKeeps DEF Wake, hostVars, nameVars, latchVars
  <2>2. WatchInv'
    BY <1>0, <1>25 DEF Wake, claim, disarming, hostVars, nameVars, WatchInv, ThreadsFollow,
           DropIsUnderWay, AllClosed
  <2>3. SignalInv'
    BY <1>0, <1>25 DEF Wake, claim, disarming, hostVars, nameVars, latchVars, SignalInv,
           SignalIsKept, NoSessionOverASignal, UndecidedIsUnsignalled, RefusalHasReason,
           RecordedIsClaimed
  <2> QED BY <2>1, <2>2, <2>3 DEF AdmissionInv
<1>26. ASSUME NEW w \in Handle, Reissue(w) PROVE AdmissionInv'
  <2>1. HostInv' /\ CloseInv'
    BY <1>26, FrameKeeps DEF Reissue, hostVars, nameVars, latchVars
  <2>2. WatchInv'
    BY <1>0, <1>26 DEF Reissue, claim, hostVars, nameVars, WatchInv, ThreadsFollow, DropIsUnderWay,
           AllClosed
  <2>3. SignalInv'
    BY <1>0, <1>26 DEF Reissue, claim, hostVars, nameVars, latchVars, SignalInv, SignalIsKept,
           NoSessionOverASignal, UndecidedIsUnsignalled, RefusalHasReason, RecordedIsClaimed
  <2> QED BY <2>1, <2>2, <2>3 DEF AdmissionInv
<1>27. ASSUME NEW w \in Handle, Recheck(w) PROVE AdmissionInv'
  <2>1. HostInv' /\ CloseInv'
    BY <1>27, FrameKeeps DEF Recheck, hostVars, nameVars, latchVars
  <2>2. WatchInv'
    BY <1>0, <1>27 DEF Recheck, hostVars, nameVars, WatchInv, ThreadsFollow, DropIsUnderWay,
           AllClosed
  <2>3. SignalInv'
    BY <1>0, <1>27 DEF Recheck, hostVars, nameVars, latchVars, SignalInv, SignalIsKept,
           NoSessionOverASignal, UndecidedIsUnsignalled, RefusalHasReason, RecordedIsClaimed
  <2> QED BY <2>1, <2>2, <2>3 DEF AdmissionInv
<1>28. ASSUME NEW w \in Handle, Sink(w) PROVE AdmissionInv'
  <2>1. HostInv' /\ CloseInv'
    BY <1>28, FrameKeeps DEF Sink, hostVars, nameVars
  <2>2. WatchInv'
    BY <1>0, <1>28 DEF Sink, hostVars, nameVars, WatchInv, ThreadsFollow, DropIsUnderWay, AllClosed
  <2>3. SignalInv'
    BY <1>0, <1>28 DEF Sink, hostVars, nameVars, SignalInv, SignalIsKept, NoSessionOverASignal,
           UndecidedIsUnsignalled, RefusalHasReason, RecordedIsClaimed, HostInv, LocksAreHeld
  <2> QED BY <2>1, <2>2, <2>3 DEF AdmissionInv
<1>29. ASSUME NEW w \in Handle, EndGeneration(w) PROVE AdmissionInv'
  <2>1. CloseInv'
    BY <1>29, FrameKeeps DEF EndGeneration, hostVars
  <2>2. HostInv'
    BY <1>0, <1>29 DEF EndGeneration, hostVars, latchVars, HostInv, LocksAreHeld, AnswerIsLast,
           NameIsThere, SessionIsNamed, RecordIsReturned
  <2>3. WatchInv'
    BY <1>0, <1>29 DEF EndGeneration, hostVars, WatchInv, ThreadsFollow, DropIsUnderWay, AllClosed
  <2>4. SignalInv'
    BY <1>0, <1>29 DEF EndGeneration, hostVars, latchVars, SignalInv, SignalIsKept,
           NoSessionOverASignal, UndecidedIsUnsignalled, RefusalHasReason, RecordedIsClaimed
  <2> QED BY <2>1, <2>2, <2>3, <2>4 DEF AdmissionInv
<1>30. ASSUME NEW w \in Handle, StoreDisarming(w) PROVE AdmissionInv'
  <2>1. HostInv' /\ CloseInv' /\ SignalInv'
    BY <1>30, FrameKeeps DEF StoreDisarming, hostVars, nameVars, latchVars
  <2>2. WatchInv'
    BY <1>0, <1>30 DEF StoreDisarming, hostVars, nameVars, WatchInv, ThreadsFollow, DropIsUnderWay,
           AllClosed
  <2> QED BY <2>1, <2>2 DEF AdmissionInv
<1>31. ASSUME NEW w \in Handle, CancelIo(w) PROVE AdmissionInv'
  <2>1. HostInv' /\ CloseInv' /\ SignalInv'
    BY <1>31, FrameKeeps DEF CancelIo, hostVars, nameVars, latchVars
  <2>2. WatchInv'
    BY <1>0, <1>31 DEF CancelIo, hostVars, nameVars, WatchInv, ThreadsFollow, DropIsUnderWay,
           AllClosed
  <2> QED BY <2>1, <2>2 DEF AdmissionInv
<1>32. ASSUME NEW w \in Handle, Join(w) PROVE AdmissionInv'
  <2>1. HostInv' /\ CloseInv' /\ SignalInv'
    BY <1>32, FrameKeeps DEF Join, hostVars, nameVars, latchVars
  <2>2. WatchInv'
    BY <1>0, <1>32 DEF Join, hostVars, nameVars, WatchInv, ThreadsFollow, DropIsUnderWay, AllClosed
  <2> QED BY <2>1, <2>2 DEF AdmissionInv
<1>33. CASE UNCHANGED vars
  BY <1>33, FrameKeeps DEF vars, hostVars, nameVars, latchVars, watchVars, AdmissionInv
<1> QED
  BY <1>1, <1>2, <1>3, <1>4, <1>5, <1>6, <1>7, <1>8, <1>9, <1>10, <1>11, <1>12, <1>13, <1>14, <1>15,
     <1>16, <1>17, <1>18, <1>19, <1>20, <1>21, <1>22, <1>23, <1>24, <1>25, <1>26, <1>27, <1>28,
     <1>29, <1>30, <1>31, <1>32, <1>33
     DEF Next, OpenStep, CloseStep, WatchStep, DropStep

\* The invariant holds from the start.
LEMMA AdmissionStart == Init => TypeOK /\ AdmissionInv
<1> SUFFICES ASSUME Init PROVE TypeOK /\ AdmissionInv
  OBVIOUS
<1>1. TypeOK
  <2>1. noise \in [Handle -> 0 .. MaxNoise]
    BY NoiseAssumption DEF Init
  <2>2. latchHeld \in BOOLEAN /\ reading \in BOOLEAN /\ inCatalog \in BOOLEAN /\ closing \in BOOLEAN
        /\ fired \in BOOLEAN
    BY DEF Init
  <2> QED BY <2>1, <2>2 DEF Init, TypeOK, OpenState, CloseState, ThreadState
<1>2. HostInv
  BY DEF Init, HostInv, LocksAreHeld, AnswerIsLast, NameIsThere, SessionIsNamed, RecordIsReturned,
         UnderLatch, UnderGuard
<1>3. CloseInv
  BY DEF Init, CloseInv, CloseSawTheName, CloseTook, ClosingIsUnderWay
<1>4. WatchInv
  BY CloserAssumption DEF Init, WatchInv, ThreadsFollow, DropIsUnderWay, AllClosed, Refusing, Handle
<1>5. SignalInv
  BY DEF Init, SignalInv, SignalIsKept, NoSessionOverASignal, UndecidedIsUnsignalled,
         RefusalHasReason, RecordedIsClaimed
<1> QED BY <1>1, <1>2, <1>3, <1>4, <1>5 DEF AdmissionInv

\* The open, the closes, the watch's threads and the latch keep their types, for any number of
\* close_dataset calls (skp.rs open_dataset, close_dataset; watch.rs arm, Drop for SourceWatch).
THEOREM AdmissionTypes == Spec => []TypeOK
BY AdmissionStart, TypeStep, PTL DEF Spec

\* A change or a loss of coverage that a watch thread has claimed is never lost: it ends the
\* session, or it is what the open is refused for, on whichever side of the admission it falls
\* and whichever close runs meanwhile (skp.rs open_dataset and its latch, watch.rs).
THEOREM SignalCorrect == Spec => []SignalIsAnswered
<1>1. TypeOK /\ AdmissionInv => SignalIsAnswered
  BY DEF AdmissionInv, SignalInv, SignalIsKept, RecordedIsClaimed, SignalIsAnswered, RefusalNamesTheSignal
<1> QED BY <1>1, AdmissionStart, TypeStep, AdmissionStep, PTL DEF Spec

\* A refused open and an answered close leave no name, session, record, thread or handle behind,
\* whichever of them comes last (skp.rs open_dataset's refusals, close_dataset and its late
\* record, Drop for SourceWatch).
THEOREM NothingLeftCorrect == Spec => []NothingIsLeft
<1>1. TypeOK /\ AdmissionInv => NothingIsLeft
  <2> SUFFICES ASSUME TypeOK, AdmissionInv PROVE RefusedLeavesNothing /\ ClosedLeavesNothing
    BY DEF NothingIsLeft
  <2>0. HostInv /\ CloseInv /\ WatchInv
    BY DEF AdmissionInv
  <2>1. AllClosed => Quiet /\ \A w \in armed : stage[w] = "closed"
    BY <2>0 DEF WatchInv, ThreadsFollow, AllClosed, Quiet, armed, TypeOK
  <2>2. RefusedLeavesNothing
    <3> SUFFICES ASSUME open = "returned", answer # "ok"
                 PROVE  ~inCatalog /\ session = "none" /\ record = "none" /\ AllClosed
      BY <2>1 DEF RefusedLeavesNothing
    <3>1. ~inCatalog /\ session = "none" /\ record = "none"
      BY <2>0 DEF HostInv, NameIsThere, SessionIsNamed, RecordIsReturned
    <3>2. AllClosed
      BY <2>0, <3>1 DEF WatchInv, DropIsUnderWay, TypeOK, Refusing
    <3> QED BY <3>1, <3>2
  <2>3. ClosedLeavesNothing
    <3> SUFFICES ASSUME open = "returned", NEW c \in Closer, close[c] = "closed",
                        \A b \in Closer : close[b] \in {"idle", "closed", "unknown"}
                 PROVE  ~inCatalog /\ session # "live" /\ record = "none" /\ ~closing /\ AllClosed
      BY <2>1 DEF ClosedLeavesNothing
    <3>1. ~inCatalog /\ record = "none" /\ ~closing
      BY <2>0 DEF CloseInv, CloseTook, ClosingIsUnderWay
    <3>2. session # "live"
      BY <2>0, <3>1 DEF HostInv, SessionIsNamed
    <3>3. AllClosed
      BY <2>0, <3>1 DEF WatchInv, DropIsUnderWay, TypeOK, Refusing
    <3> QED BY <3>1, <3>2, <3>3
  <2> QED BY <2>2, <2>3
<1> QED BY <1>1, AdmissionStart, TypeStep, AdmissionStep, PTL DEF Spec
=============================================================================
