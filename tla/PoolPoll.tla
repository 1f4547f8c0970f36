------------------------------- MODULE PoolPoll -------------------------------
(***************************************************************************)
(* The desktop shell's pool indicator (src-tauri/src/pool_poll.rs): one    *)
(* polling task for each open dataset, a map of the tasks' abort handles,  *)
(* and one supervisor for each task that logs how it stopped and clears    *)
(* what is left of it in the map.  start and stop are called from          *)
(* commands.rs; nothing keeps start from being called twice for a dataset  *)
(* (record's own comment), so it may be here.                              *)
(***************************************************************************)
EXTENDS Naturals

CONSTANTS Datasets,
          Polls,       \* the tasks that may ever be spawned: a bound
          NoPoll       \* no entry under a key

VARIABLES tasks,    \* PoolPollTasks: the poll that each dataset's entry names
          poll,     \* [of, task, aborted, start, sup] of each poll
          catalog   \* the kernel's catalog: "unopened", "open", "closed"

vars == <<tasks, poll, catalog>>

Init ==
    /\ tasks = [d \in Datasets |-> NoPoll]
    /\ poll \in [Polls -> {[of |-> d, task |-> "unborn", aborted |-> FALSE, start |-> "none",
                            sup |-> "none"] : d \in Datasets}]
    /\ catalog = [d \in Datasets |-> "unopened"]

\* AbortHandle::abort of the entry that a key had, if it had one; a task that is over
\* does not notice.
Abort(p, i) == IF i = NoPoll THEN p ELSE [p EXCEPT ![i].aborted = @ \/ p[i].task = "running"]

-----------------------------------------------------------------------------
\* commands::open_dataset and close_dataset: the kernel's part, then start and stop.
Open(d) ==
    /\ catalog[d] = "unopened"
    /\ catalog' = [catalog EXCEPT ![d] = "open"]
    /\ UNCHANGED <<tasks, poll>>

Close(d) ==
    /\ catalog[d] = "open"
    /\ catalog' = [catalog EXCEPT ![d] = "closed"]
    /\ UNCHANGED <<tasks, poll>>

\* start: the task runs from here on, before the map knows of it ...
Spawn(i) ==
    /\ poll[i].start = "none"
    /\ catalog[poll[i].of] # "unopened"
    /\ poll' = [poll EXCEPT ![i].start = "spawned", ![i].task = "running"]
    /\ UNCHANGED <<tasks, catalog>>

\* A bug: an older poll is replaced and left to run.
RecordWithoutAbort(i) ==
    /\ poll[i].start = "spawned"
    /\ tasks' = [tasks EXCEPT ![poll[i].of] = i]
    /\ poll' = [poll EXCEPT ![i].start = "recorded"]
    /\ UNCHANGED catalog

\* ... record takes the place of an older entry and aborts it ...
Record(i) ==
    LET d == poll[i].of
    IN /\ poll[i].start = "spawned"
       /\ tasks' = [tasks EXCEPT ![d] = i]
       /\ poll' = [Abort(poll, tasks[d]) EXCEPT ![i].start = "recorded"]
       /\ UNCHANGED catalog

\* ... and the supervisor awaits the task.
Supervise(i) ==
    /\ poll[i].start = "recorded"
    /\ poll' = [poll EXCEPT ![i].start = "supervised", ![i].sup = "awaiting"]
    /\ UNCHANGED <<tasks, catalog>>

\* stop, after the kernel's close: whatever the key names now.
Stop(d) ==
    /\ catalog[d] = "closed"
    /\ tasks[d] # NoPoll
    /\ poll' = Abort(poll, tasks[d])
    /\ tasks' = [tasks EXCEPT ![d] = NoPoll]
    /\ UNCHANGED catalog

-----------------------------------------------------------------------------
\* poll_loop: it returns when the catalog no longer has its dataset; a tick may panic;
\* an abort takes effect at the task's next await.
Ends(i, how) ==
    /\ poll[i].task = "running"
    /\ how = "returned" => catalog[poll[i].of] = "closed"
    /\ how = "cancelled" => poll[i].aborted
    /\ poll' = [poll EXCEPT ![i].task = how]
    /\ UNCHANGED <<tasks, catalog>>

\* supervise: one line with the reason ...
Log(i) ==
    /\ poll[i].sup = "awaiting"
    /\ poll[i].task \in {"returned", "cancelled", "panicked"}
    /\ poll' = [poll EXCEPT ![i].sup = "logged"]
    /\ UNCHANGED <<tasks, catalog>>

\* A bug: the entry is cleared, whosever it is.
ForgetAny(i) ==
    /\ poll[i].sup = "logged"
    /\ poll' = [Abort(poll, tasks[poll[i].of]) EXCEPT ![i].sup = "done"]
    /\ tasks' = [tasks EXCEPT ![poll[i].of] = NoPoll]
    /\ UNCHANGED catalog

\* ... and forget_if_current: the entry, if it is still this task's own.
ForgetIfCurrent(i) ==
    LET d == poll[i].of
    IN /\ poll[i].sup = "logged"
       /\ poll' = [poll EXCEPT ![i].sup = "done"]
       /\ tasks' = IF tasks[d] = i THEN [tasks EXCEPT ![d] = NoPoll] ELSE tasks
       /\ UNCHANGED catalog

Next ==
    \/ \E d \in Datasets : Open(d) \/ Close(d) \/ Stop(d)
    \/ \E i \in Polls : Spawn(i) \/ Record(i) \/ Supervise(i) \/ Log(i) \/ ForgetIfCurrent(i)
    \/ \E i \in Polls, how \in {"returned", "cancelled", "panicked"} : Ends(i, how)

Spec == Init /\ [][Next]_vars

-----------------------------------------------------------------------------
\* The map is exact (record, stop, forget_if_current): a poll that runs once it was recorded
\* is the one under its key, unless its abort is on the way, so no poll is orphaned; of the
\* polls of an open dataset one was not aborted, so the end of an older poll never takes the
\* newer one with it; and an entry is gone when the supervisor of its poll is.
PollMapIsExact ==
    LET Recorded(d) == {i \in Polls : poll[i].of = d /\ poll[i].start \in {"recorded", "supervised"}}
    IN \A d \in Datasets :
          /\ \A i \in Recorded(d) : poll[i].task = "running" => poll[i].aborted # (tasks[d] = i)
          /\ catalog[d] = "open" /\ Recorded(d) # {} => \E i \in Recorded(d) : ~poll[i].aborted
          /\ tasks[d] # NoPoll => tasks[d] \in Recorded(d) /\ poll[tasks[d]].sup # "done"
=============================================================================
