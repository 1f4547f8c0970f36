# A TLA+ verification project for spatial-ide

spatial-ide is a desktop program for looking at large geospatial files. A Rust
*kernel* opens datasets and answers viewport queries, a Rust *engine* runs them
in DuckDB, a *data plane* carries the resulting batches over WebSockets, and a
TypeScript *shell* inside Tauri draws them and publishes bundles. This directory
models the parts of it that are concurrent or have to survive failures, and the
algorithms whose slips a test would hardly meet, checks them with TLC and proves
the central ones with TLAPS. Paths below are relative
to the repository root.

Contents: [1 Inventory](#1-inventory) · [2 Modules and code](#2-modules-and-code) ·
[3 Runs](#3-runs) · [4 Where code and text disagree](#4-where-code-and-text-disagree) ·
[5 Bounds](#5-bounds) · [6 Fairness](#6-fairness) · [7 Proofs](#7-proofs) ·
[8 Not modelled](#8-what-is-not-modelled) · [9 Plan](#9-plan)

## 1 Inventory

How a batch comes to the screen:

    shell --viewport_query--> kernel SKP host --ticket--> shell
    shell --START(ticket)---> data-plane server --create_from_ticket--> kernel
                                   |                                      |
                              drive/reader <--channel-- pump <-- engine producer thread
                                                                   |  lease
                                                              connection pool --> DuckDB

A dataset *session* (the code's "generation") lives from `open_dataset` to a
`close_dataset`, or to the moment the source file is seen to have changed; a
watch on the file's directories, a check before every query and a check after
every stream can see it.

| Component | State | Operations | What is hard | Correct when |
|---|---|---|---|---|
| Connection pool `engine/src/pool.rs` | idle connections, live and per-class counts behind one mutex | acquire, release_healthy, drop | slot reserved under the lock, connection made without it, undone under it | no slot leaked or invented, ceilings hold, one owner per connection |
| Cancellation token `engine/src/cancel.rs` | cancelled flag, bound connection, in-execute flag, re-interrupter thread | attach, detach, cancel, cancel_for_drop | DuckDB clears an interrupt when a query starts; a late interrupt may hit another stream | every cancel reaches its query and no other |
| Stream producer `engine/src/stream.rs` | a thread, a bounded channel, a lease | open, produce, flush, terminal | order of detach, lease, post-check and terminal; full channel; failing spawn | a terminal means the lease is back and the source was checked |
| Data-plane stream `protocol/data-plane/src/{pump,adapter_ws,transport}.rs` | pump thread, writer and reader tasks, credit, halt, counters | generate, send, grant, cancel, drain | three actors see an end in different orders; credit that never comes | memory bounded, credit spent, the end needs no credit and stops the source, nothing partial is called complete |
| Data-plane server `protocol/data-plane/src/server.rs` | two semaphores, bounded stream registry | connect, admit, create, drive, drain | a dozen ways out of one handler | permits are held for work only; registry exact |
| SKP tickets and sessions `kernel/src/skp.rs`, `kernel/src/lib.rs` | ticket registry, generation registry (a mutex each), attributions | viewport_query, cancel, redeem, close_dataset, end_generation | calls of several critical sections interleave; entries age | a ticket works once; an ended or closed session leaves nothing redeemable |
| Open admission and source watch `kernel/src/skp.rs`, `engine/src/watch.rs` | latch, catalog guard, watch threads, directory handles | open_dataset, arm, disarm, close_dataset | a signal while the open decides; joins; a close during the open | no session over a signalled source; nothing left behind; everything returns |
| Permission boundary, audit log `kernel/src/permission/` | grants, pending approval, append-only log | execute, append, rotate | crash between intent and outcome; expiry during approval | every publish was granted, approved and recorded first |
| Publish pipeline `kernel/src/publish/` | staging directory | create, write, finalize, remove | failure or cancel at each step | the destination is whole or absent |
| Session history `kernel/src/session_history.rs` | append-only file, stopped latch | record, recover | torn lines, failing sync | recovery keeps the longest valid prefix |
| Shell publishing `frontends/shell/src-tauri/src/publish.rs` | pending attempts, shared grants, running publishes | prepare, execute, cancel, exit drain | expiry, double use, exit racing a new publish | an attempt is used once; exit waits or cancels |
| Requests and codecs `skp.rs`, `params.rs`, `wire.rs`, `protocol/skp/` | none | describe, viewport_query, encode, parse | lengths at their width, refusals in order | what describe lists can be asked for and is served; what is read was written |
| Filters and projections `engine/src/{predicate,attributes}.rs` | none | admit | text that escapes its brackets, widths where digits stop being exact | an admitted filter is one predicate and compares exactly |
| Plans and batches `engine/src/{stream,index,rowgroup}.rs` | caches of two indexes | plan, cut | doubtful statistics, missing identities, a row beyond every target | narrowing keeps the answer; batches hold its rows once and in order |
| Opening a source `engine/src/{dataset,geoparquet,crs,identity}.rs` | none | open | names that match in two ways, axis order, doubtful extents, duplicate ids | what is admitted is what the file says |
| Geometries `engine/src/{wkb,geoarrow}.rs` | builders | push, build, validate | byte orders of parts, cut rows, a refused row half appended | coordinates come back |
| Tiers, layouts, references `engine/src/{lod,layout,descriptor,pin}.rs`, `kernel/src/dataset_ref.rs` | files beside the source | build, reuse, rewrite, compare | a build cut off anywhere, files of another source | a derived file is its source's; a change is noticed |
| Styles and bundles `renderer/`, `kernel/src/{bundle,publish}/` | none | parse, compile, preflight, redact | null and unmatched values, texts a viewer asset may hold | what is drawn is what the style says; a bundle speaks for itself |
| Paths and records `kernel/src/permission/` | none | resolve, cover, normalise | links, spellings, nested roots | grants cover places; records name no user |
| Tracing `engine/src/trace.rs` | a flag, a slot, a buffer | start, mark, drop | marks of other threads during a drop | a closed trace is final |
| Pool indicator `src-tauri/src/pool_poll.rs` | map of abort handles, tasks, supervisors | start, stop, supervise | a replaced poll's supervisor | no poll orphaned, none taken by another's end |
| Frontend stream managers `frontends/shell/src/streaming/` | supersede counter, live tickets, session-ended latch | requestViewport, stop, onBatch | awaits | a superseded stream paints nothing and is cancelled |

`PROJECT.json` lists all components with their files, and the hazards line by line.

## 2 Modules and code

Every module has one action per critical section or per shared access of the
code it models, and its `Next` names the actors. Definitions keep the source's
names where there is one. Definitions whose comment starts "A bug:" are mutated
forms used to check that a property can fail; no specification uses them.

**ConnectionPool** (`pool.rs`). A *holder* is one thread's attempt at one lease.
`pc` says where it is: `creating` between acquire's two critical sections,
`verifying` while `release_healthy` runs its statement, `closing` after the slot
is given back and before the connection is closed. Actions: `TakeExisting`,
`ReserveNew`, `Refuse` (both refusals), `ConfigureOk`, `ConfigureErr`,
`BeginRelease`, `ReturnHealthy`, `Discard`, `Close`.

**EngineStream** (`stream.rs`, `cancel.rs`) instantiates ConnectionPool with its
streams as the holders, so the lease in it is the real one. `prod` is the
producer's place; `canceller` the place of each `cancel` call; `reinterrupter`
the thread that repeats an interrupt while a query starts. DuckDB is external: a
flag per connection, cleared when an execution starts, honoured while one runs.
Rows are abstracted to "some are pending". A row's turn is `Row` (the one cancel
check of the loop, and the cut before the append) and `AppendRow` (the append, and
the cut after it); `resume` is where `produce` goes on after a flush, which may be in
the middle of a turn, at the next row, at the next fetch (the time budget at the end
of a chunk) or at its return. `late` counts what is done under a cancelled token.

**DataPlaneDrive** (`pump.rs`, `adapter_ws.rs`, `transport.rs`, and the kernel's
`EngineCancel`). The pump thread, the writer `drive`, its reader task and the
owner's cancel. A biased `select!` is polled branch by branch, so a branch that
is ready may be taken although an earlier branch became ready since it was
polled. One batch is one unit of bytes.

**DataPlaneServer** (`server.rs`, with the pool's stream ceiling). The handler
of each connection from upgrade to close, both semaphores and the registry with
its pruning: the live entries counted by connection, and the recorded ends as
positions in the order in which the streams ended. The inside of a driven stream is DataPlaneDrive's; here it ends
with its source, after the lease is resolved (which is
`EngineStream!EndMeansLeaseResolved`), or is cut, and then the lease outlives it.
All connections query one dataset, the worst case for the pool.

**SkpSessions** (`skp.rs`, `lib.rs`). Tickets, attributions, marks and dead-ticket
records; `viewport_query`, `cancel`, `close_dataset`, `create_from_ticket`, and
`end_generation` called by the pre-check, by a post-check and by the watch. One
critical section is one step. Names are minted per open and never reused, so a
dataset is one open. A dataset is closed by one call at a time; each source
reports its post-check once.

**OpenAdmission** (`skp.rs`, `watch.rs`). One `open_dataset` with its latch, the
catalog's read guard, the parent's and the grandparent's watch threads with
their directory handles and overlapped reads, `arm` with its failures, the
disarm with its joins, and a `close_dataset` of the name being admitted.

**PublishPipeline**, **PublishBoundary** and **ShellPublish** (`publish/mod.rs`;
`permission/boundary.rs`, `grant.rs`, `approval.rs`; the shell's `publish.rs`,
`commands.rs`, `lib.rs`, and `bin/publish-bundle.rs`) are one composition, each
extending the one before. A *call* is one publish; `pc` its place in
`boundary::execute` and, inside it, in `publish_prepared`. The staging directory
and the destination are what they hold: parts, partitions and whether the source
was still the pinned one. Attempts, grants with their lifetimes, the grants'
mutex, the registry of running publishes, the exit request with its drain, and
the end and the restart of the process are the shell's. **PublishOnce** is the
abstract specification: a bundle appears in one step, whole, on a free
destination, recorded, and under a grant nothing else can use. ShellPublish
implements it under the mapping at its end (`PublishesOnce`).

**AuditLog** (`audit/log.rs`, `reader.rs`): appending with every way a write is
cut short, rotation with every failing rename, and the reader's pairing. The
first is used by PublishBoundary, all three are checked as functions.

**SessionHistory** (`session_history.rs`): recorders, one file for each path and
set of claims, append with its ceilings and stopped latch, the normal end,
crashes that lose what was not flushed, and `recover`.

**The algorithms** are operators over small inputs, with a property at the end
of each module that says what the result must be without repeating how it is
computed:

| Module | Code | The property compares with |
|---|---|---|
| ViewportRequest, Attributes | `skp.rs` describe, viewport_query, error tables; `attributes.rs`; `stream.rs` entry points | what describe said, and the data plane's own way in |
| RequestCodec | `wire.rs`, `params.rs`, `codec.rs`, `handles.rs` | the value that was written |
| PredicateTypes, PredicateAdmission | `predicate.rs` | the values each type can hold; the clause as DuckDB parses it beside the engine's own |
| QueryPlan | `stream.rs` build_sql, `index.rs`, `rowgroup.rs` | the rows the box and the filter select |
| BatchCutting | `stream.rs` produce, flush, policies | the rows of the source |
| DatasetOpen | `dataset.rs`, `geoparquet.rs`, `crs.rs`, `identity.rs`, `addressability.rs` | the file's tree of columns, its definition of axes and its ids |
| GeometryDecode | `wkb.rs`, `geoarrow.rs` | the geometry the bytes were written from |
| LodTiers | `lod.rs` | the simplification of the source itself, over up to three builds |
| LayoutRewrite | `layout.rs` | the multiset of source rows and the curve's order |
| SourceReference | `descriptor.rs`, `pin.rs`, `dataset_ref.rs` | the two files compared directly |
| StyleCompile | `renderer/` | the style document read directly for each feature |
| BundleContents | `publish/mod.rs` preflight and manifest, `ceilings.rs`, `viewer_assets.rs`, `bundle/` | the repository's `verify-bundle` and the request |
| PathScope | `grant.rs`, `audit/log.rs`, `audit/normalize.rs` | the directories that are meant |

**Trace** (`trace.rs`), **PoolPoll** (`pool_poll.rs`) and **ViewportStreams**
(`viewportStreamManager.ts`) are state machines: the threads that stamp and the
guard that drops, one lock; the polling tasks, their map and their supervisors; the
viewport's requests, whose steps are the code between two awaits, with the tickets
they mint, the stream that is current, the one that is resident and the streams the
canvas holds. A call that resumes from a microtask goes before any answer or event
(`Settled`).

**Books** puts these three and SessionHistory into one specification whose
behaviours are about one subject each, and states what each of the four promises; it is
the module that the run checks and the proofs are about. **MCInputs** holds the inputs of
the algorithms, and **MCAlgorithms** adds them to Books as further subjects. The other
`MC*` modules only define symmetry sets and the constant values a configuration cannot
write.

## 3 Runs

| Run | Question | Answer |
|---|---|---|
| `pool_reuse` | Four threads, three classes, failing setup and verification, idle connections kept and dropped as surplus: do the counts stay true? | `PoolAccounting`, `ExclusiveLease`; `ClassesAreIsolated`: the refusal the code comments as unreachable is unreachable |
| `stream_one` | One stream, cancelled, dropped and its source replaced at any point | `EndMeansLeaseResolved`; `EndIsTrue`: no change is missed and no terminal says what is not so; `BoundedWorkAfterCancel` (one row, one send, one build); under fairness `CancelReachesTheQuery`, `DropFreesTheLease` |
| `stream_two` | Two streams share connections, and possibly a token; re-interrupters and release checks may fail | `InterruptIsOwn`: no interrupt reaches another query or an idle connection; `BindingEndsWithTheStream` |
| `drive` | A data-plane stream against a failing source and any peer, that may never grant again | `FlowIsControlled` (memory and credit), `DrainAccountsForAll`, `CompletedIsWhole`; under fairness `EndNeedsNoCredit`, `EndStopsTheSource` |
| `server` | Four connections over two slots, one idle permit, two records, two leases | `HandlersGiveBack` (slots mean work, the registry is exact), `ExhaustionNeedsACut` (the pool refuses an admitted stream only after another stream was cut) |
| `skp` | Two queries, STARTs sent again and again, time past every limit, a close and all enders at once | `SingleUse`, `OverIsOver` (closed is closed, ended is ended), `OneEventPerSession`, `RefusalNamesTheEnd` |
| `open` | An open with both watch threads, changes, lost coverage and a close | `SignalIsAnswered` (no session over a signal, and the refusal names it), `NothingIsLeft` (of a refused and of a closed open); under fairness `EveryCallReturns`, `ChangeEndsTheSession` |
| `publish` | Two publishes to one destination; an upset (error, cancel, expiry, exit, end of the process, change of the source) at any step | `PublishesOnce` (refinement), `OutcomeIsTrue`, `StagingIsAccountedFor`, `GuardNotHeldWhilePublishing` |
| `algorithms` | Every algorithm over its inputs; tracing, polling, the viewport's requests and the session history (three records in two histories, two failures, crashes and restarts) in every interleaving | eleven properties, one for each kind of question (`Books`, `MCAlgorithms`); those of the algorithms are conjunctions of the modules' own and action properties, about the step that gives an algorithm its input; `ShellKeepsItsBooks` is about polls and viewport tickets, `RecoveredIsRecorded` and `HistoriesOnlyGrow` about the histories |
| `drive_cancel_race`, `history_end_race`, `viewport_cancel_race` | see section 4 | violated |

Every property has at least one mutant in `PROJECT.json`: a plausible slip in the
modelled code under which TLC finds the property false; a property that is a
conjunction has one for its parts. Deadlock is checked where a model has no natural end
state (the drives and the server have an explicit final stutter); the other runs
stop when bounded supplies are used up.

In `stream_one` the re-interrupter's thread always starts (`SpawnMayFail =
FALSE`): without it an interrupt that lands in the start window is lost, which
the code accepts and comments on, so the liveness claim is about the normal
case. `stream_two` lets the spawn fail.

## 4 Where code and text disagree

* **A stream cut short may be reported as complete** (`drive_cancel_race`,
  `NoPartialAsComplete`). On CANCEL the reader stamps the stream as cancelled,
  cancels the source and then publishes `halt`. The pump leaves on the stamp and
  drops its sender; a writer waiting for the channel can see it closed before it
  sees the halt, and ends with Completed. `adapter_ws.rs:394` calls that outcome
  forbidden. `CompletedIsWhole` states what does hold: it happens only when the
  peer itself cancelled, never for an owner's cancel or a failure.
* **A normal end may leave a history** (`history_end_race`, `NormalEndClears`).
  `record_step` runs on the blocking pool and may run after the exit handler
  called `end_session`; what it writes is recovered at the next start as after a
  crash. `session_history.rs:13` says a normal end clears.
* **Two streams may be resident** (`viewport_cancel_race`, `AtMostOneResident`).
  `supersedeCurrent` calls `clearResidency` after its await of the cancel
  (`viewportStreamManager.ts:402`), and only then is the generation compared. A
  request that waits for a slow cancel while a newer one has issued its stream
  clears the newer stream and forgets which stream is resident; what that stream
  paints afterwards is cleared by no supersede and by no end of the session. The
  comment at `:319` and the test at `viewportStreamManager.test.ts:1101` say that at
  most one stream is resident. Four requests are needed to see two streams, three to
  see one stay after the session ended.

Observations without a run of their own, each visible in the model:

* Streams. A failed OPEN send returns from `drive` without cancelling the source
  (`adapter_ws.rs:104`, against the comment at `:303`); `EndStopsTheSource` is
  about opened streams. A redeemed entry is swept at its age although its stream
  is still served, and a close then does not reach that stream (`skp.rs:201`,
  against `SKP-V0.md:148`). The pool's `Drop` gives the slot back before the
  connection closes (`pool.rs:592`; the ceilings are on slots). A panic in the
  release check ends a channel without a terminal (`stream.rs:1307`; `stream_one`
  has `VerifyMayUnwind = FALSE`). "At most one further batch after cancel"
  (`slice.rs:926`, `stream.rs:2550`) holds of the counter the tests read, which counts
  batches built and dropped; a batch built before may in addition be sent after the
  cancel, as `flush` sends without looking again (`stream.rs:2546-2570`).
* Requests. `put_str` and `start_payload` cast a length to 16 bits unchecked; the
  codec's property is about texts that fit, and what is read was written in any
  case. A cancel key shaped like a ticket is routed to the ticket registry.
* Geometries. The comments on `read_ring` promise bit-exact closure (`wkb.rs:119`, `:142`),
  and the line that decides compares floats (`wkb.rs:144`): a ring whose first and last
  position differ in the sign of a zero is read, and one that ends in the very NaN it
  starts with is refused. The model follows the comparison (`Same`), the property says
  that rings close as numbers (`Closes`), and both rings are among the inputs; with a
  comparison of bits (`SameBits`) the property fails.
* Identities. `admit_column_type` admits 8 to 32-bit columns, which the batch
  reader (`stream.rs:2658`) and the tiers refuse; the experimental index drops
  features without an identity, and its plan is not offered for such a file's
  full answer.
* Derived files. A build of tiers for another identity column overwrites files
  before its manifest says so; a file of the recorded length is reused unhashed.
  Where free space cannot be read every build is refused. A refused layout
  rewrite removes a file that was already at its destination (`layout.rs:226`). A
  reference with a blank mapped column or a number past 2^53-1 is written and
  cannot be read back.
* Publishing. A torn audit line takes the next record onto it. A rotation between
  intent and outcome puts the pair into two files, and a rotation that fails
  again and again drops one more generation each time. `is_inside` compares
  spellings. `verify-bundle` refuses a colon anywhere in a path
  (`verify-bundle.rs:353`) where `validate_relative_path` refuses it at the start
  (`viewer_assets.rs:226`); a column called `geometry` can be published and is
  then refused by `verify-bundle`.
* Tracing. `events()` says two pushes may be out of order; the slot's lock, held
  over the whole of a mark, prevents it (`TracesAreTrue` checks that sorting
  changes nothing). A mark begun under one trace may land in the next.

## 5 Bounds

* Pool: four holders over ceilings 2+1+1, so each class fills, a class is
  refused while others have room, and connections are reused. `max_idle` is
  2, below the physical ceiling of 4, so that both keeping and closing a surplus
  connection happen; the product's value is the physical ceiling and the
  proofs cover every value. `MaxCreated` and `MaxIssued` bound counters that only
  name connections and uses.
* Streams: three batches over a channel of two make the producer block on a full
  channel and still have a final flush, and a row's turn can cut twice. Two streams suffice for interference:
  a connection passes from one stream to one other. `TokenMaps` has the streams
  with a token each and with one token.
* Drives: capacity 1 and three batches fill the channel with a batch held and one
  behind it; `MaxGranted` of 3 over `MaxPermits` of 2 meets the semaphore's ceiling.
* Server: four connections over two slots and one idle permit; two records and
  an `Age` step reach both kinds of eviction. The registry's ceiling on records
  is at least the number of slots, as in the code, and the pool's stream ceiling
  equals the binding's, as `pool.rs` asserts.
* SKP: one dataset, since names are never shared and locks are per registry; two
  queries, ages of 1 and 0 and a clock to 2, so that every entry can expire, be
  swept and have its attribution pruned while another is fresh; `MaxPending` of 1
  makes the ceiling refuse.
* Open: one open (names are unique), one close, one notification about another
  name per handle; a second only repeats the loop.
* Publish: two calls and two attempts on one destination are what interferes; one
  partition is enough for "whole or not"; `MaxUpsets` of 1 puts one mishap at every
  step of every interleaving; `MaxRestarts` of 1 gives leftovers of an earlier
  process.
* History: three records of one or two bytes into files of six, so that both
  ceilings are met; two faults let a failure follow a failure.
* Algorithms: the inputs are chosen so that every refusal and every branch of the
  code is taken (`MCInputs` says for which purpose). Widths
  are kept where they matter: bytes are digits of a small base, so that counts,
  casts and byte orders overflow as they do in the code; integer literals are kept
  as bits and digits up to 2^128. Trace has two markers, two traces and a buffer
  of two; PoolPoll has three polls of one dataset;
  ViewportStreams has three requests and a stop, so that a request can be overtaken
  twice, and four in its violation.

Symmetry is used for interchangeable threads, connections, queries and STARTs, in
runs without liveness.

## 6 Fairness

Weak fairness is on the steps a thread or a task takes by itself: the operating
system and the runtime schedule every runnable one. None is on what the other
side chooses:

* DuckDB: a call that is not interrupted need never return; one whose interrupt
  flag is set returns.
* Source: a call need not return until it is cancelled (`token`).
* Peer: it need never grant, cancel, read or close. The transport takes or
  refuses each frame; how long a full socket may hold a send is left out
  (`PROJECT.json`, hazard at `adapter_ws.rs:316`).
* Consumer: it need never read or drop its stream.
* Windows: a read that has the watched name to report completes
  (`ReadMatches`); reads about other names and failures need not happen.
* Clients: no call of `cancel`, `close_dataset` or `open_dataset` has to be made.

## 7 Proofs

`ConnectionPoolProofs` proves, for every finite set of holders, all positive
ceilings and every `max_idle` and bound: `TypeCorrect`, `AccountingCorrect`,
`CeilingsCorrect`, `ExclusionCorrect`, `GenerationCorrect` and
`PhysicalRefusalUnreachable`. Assumptions are the three ASSUMEs of
ConnectionPool: holders are finite, ceilings positive (the code asserts it at
compile time), bounds natural.

The argument is one inductive invariant. None of the properties is inductive:
`PoolAccounting` counts holders by class, so a step that frees a slot must know
that the holder is counted where it says (`Ownership`: which of class,
connection and generation a holder has in each place); `ExclusiveLease` needs
`IdsAreFresh`, that every connection in use has an id below `nextPhysicalId`, so
that a new one is really new; `TypeOK` needs `PoolAccounting`, since a counter is
natural after a decrement only if it counted the holder that leaves; and
`ClassesAreIsolated` needs `PoolAccounting` and `CeilingsHold`: when the idle list
is empty, `live` is the sum of the class counts, and a class below its own
ceiling keeps that sum below the physical one. The lemmas `SlotTaken`,
`SlotFreed` and `SlotKept` are the cardinality facts, `PopFacts` the facts about
taking the last idle connection, and there is one lemma per action.

`EngineStreamProofs` is about any number of streams, tokens and connections, with
the tokens given to the streams in any way. Its invariant has five layers, each
inductive with the ones before it.

* `LeaseInv`: at which place of the producer a stream has a lease, and that a
  connection has one owner.
* `BindInv`: a token's slot names the connection of the one stream bound to it. Then
  an interrupt aimed at a slot, at once or by a re-interrupter later, stays with
  that stream: `InterruptsCorrect` (`InterruptIsOwn`). The interleaving that has to be
  excluded is a canceller that reads the slot, waits, and interrupts a connection
  another stream has meanwhile taken; the token's lock excludes it, and `CancelIsSaid`
  and `FlagIsOwn` say so in the form an induction needs. `BindingCorrect` is
  `BindingEndsWithTheStream`.
* `LateInv`: a producer that has appended a row, built a batch or sent one after its
  cancel is at a place (`After`) from which it does no more of that kind before the
  token is looked at again: `LateCorrect` (`BoundedWorkAfterCancel`). The three kinds
  have to be told apart: the batch that was cut to make room for a row may be sent
  late, the row is then appended and the batch may be cut again, all in one turn of the
  loop with its one check behind it; that last batch meets the check of its own flush
  and is not sent. So a send and a build may both be late, and no kind is twice.
* `EndInv`: the terminal in the channel is the last item and the producer's outcome,
  and a producer that ends has resolved its lease: `LeaseBackCorrect`
  (`EndMeansLeaseResolved`) and `HonestCorrect` (`TerminalIsHonest`, the part of
  `EndIsTrue` that also holds where a verification unwinds the thread).
* `ChangeInv`: a change that was read is in the outcome, and is sent: `EndCorrect`
  (`EndIsTrue`). It has `VerifyMayUnwind = FALSE` as a hypothesis, because the property
  is false without it (section 4, `stream.rs:1307`).

`UsesThePool` is the refinement of ConnectionPool: every behaviour of the streams is, on the
pool's variables, a behaviour of the pool's own specification, so what
`ConnectionPoolProofs` proves of the pool holds where the streams use it.

`DataPlaneServerProofs` proves `HandlersCorrect` (`HandlersGiveBack`), with its first half
also as `PermitsCorrect`, and `ExhaustionCorrect` (`ExhaustionNeedsACut`), for any finite
number of connections and all ceilings the module's ASSUMEs admit. The registry is
exact because a connection has an entry for each stream it serves and for no other,
and because the two rules of the pruning, age and number, both take a prefix of the
recorded ends: what is kept is always an interval of positions that ends at the last
one (`IntervalSize`, and the lemmas on `keptTerminals`). `ExhaustionNeedsACut` relates
two counters of two components, and needs that a lease lies within its stream's slot
until it is resolved or its stream is cut (`LeasesAreCovered`): then a connection that
is about to create a stream has a slot without a lease, and fewer leases are out than
the ceiling.

`DataPlaneDriveProofs` proves all three safety properties of the drive for every
capacity, source and sequence of grants: `CompletedCorrect` (`CompletedIsWhole`),
`FlowCorrect` (`FlowIsControlled`; its credit half is `CreditCorrect`) and `DrainCorrect`
(`DrainAccountsForAll`). The writer concludes completion from an empty and closed
channel; that is sound because every generated batch is in one place
(`BatchesAreSomewhere`), a failed source leaves an item as the channel's last
(`FailureIsQueued`), and a writer that dropped a batch never returns to its loop
(`DiscardingIsFinal`). The bound on memory and the drain's count need a second layer,
`BInv`: the pump has a place in the channel before it makes a batch
(`SlotIsReserved`), it counts a batch after making it (`CountedAfterGenerated`), and at
most one is uncounted at a time (`UncountedIsBounded`).

`SkpSessionsProofs` proves the four properties of the registries for any number of
datasets, queries and STARTs and all limits and ages. `SingleUseCorrect` needs what every
state of an entry says of its ticket's past (`Ledger`) and that a query mints once
(`MintedOnce`); `OneEventCorrect` that a live session has no report under
way (`LiveIsUnended`) and an ended one at most one (`OneReport`). `OverCorrect`
(`OverIsOver`) needs to know where every ticket of a closed or ended dataset is:
a query that was answered before the end is in the set the end is going to cancel or
is settled already (`EndReaches`), a query that has not looked yet will see the end
(`ClosedTickets`, `LiveIsUnmarked`), and an entry swept by age outlives its token only as
an attribution (`AttributionOutlives`). `RefusalCorrect` is an action property
(`RefusalNamesTheEnd`): the record of an end is written with the mark and before the first
ticket is cancelled (`DeadIsMarked`), and is there until its own age has passed
(`DeadLasts`).

`OpenAdmissionProofs` proves `AdmissionTypes`, `SignalCorrect` (`SignalIsAnswered`) and
`NothingLeftCorrect` (`NothingIsLeft`) for any finite number of closers and of unrelated
notifications. The invariant says of every place of the open what it has put where
(`HostInv`), of every place of a close what it has taken (`CloseInv`), who is answerable
for each watch thread and handle (`WatchInv`), and where a claimed signal is on either
side of the admission (`SignalInv`): recorded and about to be read under the latch, or
delivered to a session that is there.

`ShellPublishProofs` is about any number of calls, attempts, destinations, restarts and
audit records, with all faults of the model. Its assumptions are the named ASSUMEs of
PublishPipeline, AuditLog and ShellPublish; `NamesAssumption` says that an attempt's id
is none of the fixed keys and that a `publish-bundle` has a grant of its own. The
invariant `PublishInv` has these layers.

* `RegistryInv`: a running call of the shell is registered, and no other runs under its
  attempt; a registered attempt was prompted for in this process; a drain that did not
  meet the ceiling found all calls it waited for ended.
* `GrantInv`: a grant was minted once and is in one place, the shared set or one call's
  hands; past the first check a call has exactly the grant it found. A call that keeps
  the guard found no grant for its destination, and finds none later, because no grant is
  minted while the mutex is held and time only expires grants: `GuardCorrect`
  (`GuardNotHeldWhilePublishing`).
* `BundleInv`: what is staged at each place of the pipeline. The bundle that is renamed has
  all parts and was read from the pinned content: nothing is written after the second
  verification but the sidecar. With the drain's part of the first layer this gives
  `StagingCorrect` (`StagingIsAccountedFor`).
* `OutcomeInv`: a record of an outcome is of a call that is over, so a later rename cannot
  make it false; lemmas say what `WriteLine`, `AppendDone`, `AppendFailures` and
  `OpenResults` leave in the file, whole or cut short: `OutcomeCorrect`
  (`OutcomeIsTrue`).

`PublishesOnceCorrect` is the refinement: every step is a step of PublishOnce. A rename is
its `Publish`, because the grant of the call that renames is in no other place and so
leaves `usable` with it; a prepare and a `publish-bundle` mint a grant whose id no
published call's grant has; every other step lets grants lapse or records an intent.

`AlgorithmsProofs` proves what the run `algorithms` checks of its four state machines and of
the four algorithms named last below, for every value of their constants. The assumptions
are the four ASSUMEs of Books: names of threads, polls, requests and calls are none of the
markers for "nobody"; sizes are natural numbers; a history may be as large as its header
line (the code's ceiling is megabytes). `BooksRefineTheirParts` shows that the composition
implements each part's own specification, so that a part's theorem carries over.

* ViewportStreams, `TicketsCorrect`. A request that was not overtaken finds no other
  stream in place because generations are claimed once, and none is claimed after a stop
  (`GenerationsAreClaimedOnce`); a ticket whose attach is dropped was cancelled
  (`CallsFollowTheirTickets`).
* PoolPoll, `PollsCorrect`. The case to exclude is a supervisor that outlives a
  replacement and removes the newer poll's entry. An entry names a poll that was recorded
  and not aborted, whose supervisor is not done (`EntriesAreCurrent`), so a supervisor that
  finds another poll there leaves it; a recorded poll that nobody aborts is under its key
  (`RunningIsListed`), and a newer one is all that may replace it (`OneIsLeft`). With the
  tickets this is `ShellCorrect` (`ShellKeepsItsBooks`).
* Trace, `FinishedCorrect` (`FinishedTracesAreFinal`): a thread that stamps does so into
  the trace in the slot and holds the slot's lock, so the drop waits for it (`TraceInv`).
  `TracesCorrect` (`TracesAreTrue`) adds `BufferInv`: the buffer is a prefix of what it was
  given, in the order of time and no later than the stamp that waits to be pushed. The
  sort in `events` then changes nothing (`SortedStay`), and the first stamp of a name in
  a prefix is the first of the whole (`FirstInPrefix`).
* SessionHistory, `RecoveryCorrect` (`RecoveredIsRecorded`) and `OnlyGrowthCorrect`
  (`HistoriesOnlyGrow`). What recover makes of a file is a recursive function over its
  lines. The library's induction takes an operator, which these provers cannot instantiate,
  so `Induction` is stated over a set (from the well-foundedness of the natural numbers)
  and `RecursionExists` proves from it that the recursion has a value at every line. Then
  one line more is one step of the reading more, and the invariant can be about readings:
  a history that has not stopped can be appended to and reads as all that was answered Ok
  (`RecordsAreCurrent`); every file reads as that and at most one step more, and breaks
  only at a torn last line (`FilesAreAccounted`). An append, whole or cut off at any byte,
  and a crash that tears the last line keep both.

* QueryPlan, `PlansKeepTheAnswer`: what `build_sql` says of both its indexes, that beside
  the bbox comparison they leave "the result set provably identical to the unindexed one",
  for every file, viewport, grid and ceiling. The ranges of a plan cover every range that
  is kept (`MergedCovers`, by `RecursionExists`), so it is enough that no row of the
  viewport is left out before. For row groups: a group whose statistics are admitted has
  its ids between the two it names (`IdsAreBounded`), and its envelope, a unit wider than
  the statistics, meets the viewport (`RowsInViewAreRead`); the hypothesis `Stats` is that
  a rendered bound is at most a unit off, which is what the widening in `admit` is for. For
  the grid: two boxes that meet share a cell (`CellsMeet`), because a coordinate's cell
  does not decrease with it (`CellsFollow`). An inverted box has no cells, and an index
  over one would drop its row: that `build_observed` refuses such a file (`Indexable`) is
  what the proof needs, and a box of the inputs shows it is needed. Rows without an
  identity are a precondition of the property for the experimental index.
* AuditLog, `RotationKeepsTheRest`: for logs of any records, any ceiling and any number of
  generations, `RotationLosesOnlyTheOldest`. Written oldest first, every rotation, also one
  that breaks off, moves the files before a place by one and leaves that place empty
  (`RotationFrees`); what a concatenation of files loses by that is its first file
  (`FirstIsLost`, by induction over the files).
* PathScope, `RecordsAreFitToKeep`: for any findings and any places of the log and the
  bundle, `RecordIsFitToKeep`.
* PredicateTypes, `ConversionsStayExact` and `FiltersAreMadeOfOperands`. The run tries
  operands computed in one step; the theorem is about every operand a filter of any depth
  can compute. `Operand` says what is kept: of what is within the ceilings, nothing has the
  128-bit type without a sign (which is what `int_bits_signed`'s comment relies on, and
  what two integers need to have a common type), and decimals and literal integers have
  the digits the ceilings allow. The second theorem shows that columns and literals are
  operands and that every operation returns one; the first that an admitted pair of
  operands converts nothing inexactly and is judged alike in either order. `Ceilings` is
  what it assumes of the two constants, MAX_INTEGER_LITERAL_DIGITS and
  MAX_DECIMAL_LITERAL_SCALE: 20 digits for the 64-bit columns and no more than 38 together.
  The code's 20 and 18 leave nothing to spare: with one digit more a comparison with a
  decimal is no longer exact.

Every invariant of the passing runs is proved. Only model-checked: of the properties in
`MCAlgorithms`, which compare whole computations with a reference over the inputs of
MCInputs, all but those of QueryPlan, RotationLosesOnlyTheOldest, RecordIsFitToKeep and
ConversionsAreExact; all liveness, which the prover does not handle; and the
three violations. `EXTENDS` brings DatasetOpen and PredicateAdmission, which have RECURSIVE
operators, into `MCAlgorithms`, so its conjunctions themselves are not stated by theorems.

## 8 What is not modelled

* Text: SQL, JSON layout, error wording, log lines, command lines. Where text
  carries meaning (filters, handles, paths, references, styles) its parse is
  modelled.
* Floating point and the geometry of simplification: a coordinate is a number, and
  what the simplifier makes of a row is a part of the input.
* The CRS catalogue (a table), the generator of test files, the transport bake-off
  (a finished measurement), site, probe and scripts.
* The server's listener, static assets, credentials and shutdown; of the watch,
  name matching and the walk over the notification buffer; of the shell, the
  commands that only forward and the origin check.
* Of the TypeScript frontend, the tiled stream manager, the socket adapter, rendering
  and view state. ViewportStreams has the plain manager; SkpSessions models the other
  side, where a ticket nobody redeems expires.
* The two Windows-only and platform-dependent paths are modelled as built for the
  platform named in the module's header.

## 9 Plan

Done: ConnectionPool and its proofs, EngineStream, DataPlaneDrive,
DataPlaneServer, SkpSessions, OpenAdmission; then PublishPipeline, PublishBoundary,
ShellPublish with PublishOnce, AuditLog, SessionHistory, the algorithms, Trace,
PoolPoll and ViewportStreams; the proofs of section 7.

To be proved next: the other algorithms of `MCAlgorithms` one by one, beginning with those
whose loops are short (the grants' places, the reader of the audit log).

To be modelled: the tiled stream manager, and both managers composed with an abstract
ticket service that SkpSessions is shown to implement.
