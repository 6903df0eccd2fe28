# Verification of gufo's component cache and scheduler

Gufo is an inference server. Its text models keep conversations in a *component
cache*: execution slots in device memory, checkpoints that point into the slots,
backing memory under a ledger, and a disk tier. One *scheduler* thread per model
runs the requests over that cache. This directory holds TLA+ modules that model
both from the C++ source, the TLC instances that check them, and TLAPS proofs of
the parts that matter most.

Paths below are relative to the repository; `cache/` is `src/cache/`, `serve/`
is `src/cli/serve/`, `core/` is `src/core/`. PROJECT.json maps every definition
to the lines it models (with one more leading `src/`).

## 1. The system and its parts

| Component | State | Operations | Interacts with | What is hard | Correct when |
|---|---|---|---|---|---|
| Resource ledger (`cache/ledger.cpp`) | allocations, charge tokens, pin tokens, counters, peaks, limits | Reserve, Convert, ReserveBacking, PinPersistence, destructors, ConstrainLimits | everything that allocates holds tokens | a release is three destructors with the mutex released between them; unsigned room calculations | counters equal the live objects; one owner per pool block; a pin keeps its block |
| Slot lease and guard (`cache/slot.cpp`, `completion.cpp`, `adapter.hpp`) | one slot's rows, generation, captured ranges, lease, idle worker | Acquire, Capture, guarded writes, Reset, Release, Preserve (pieces, batches), Pin, IsValid | takes backing from the ledger; read by restores and by disk writes | readers on other threads, cancellation, partial copies, a lock-free check | captured rows are read exactly, or are given up openly |
| Disk store (`cache/disk.cpp`, `core/platform/fs_posix.cpp`) | files in four directories, index, pins, quarantine, byte count, recovery flag | startup, Publish, Retire, Reclaim, Open and Pin, Invalidate | written by the queue's worker, retired by the catalogue | process and power failures between any two steps, uncertain renames | published stays, retired stays away, exposed entries are complete, budget holds |
| Persistence queue (`cache/streaming.cpp`, callbacks in `serve/component_text_cache.cpp`) | slots, active job, counts, the client's handle table | TrySubmit, worker loop, callbacks, Drain, Stop | between request threads and the disk store | supersession reported outside the lock, pins that fail half way, starvation | no handle outlives its job, no job starves, drain returns |
| Streamed store (`cache/streaming.cpp`) | one staging buffer | Write, Restore | slot, disk store | restores preempt writes; failure half way through a restore | a slot is executable only after every piece was verified |
| Disk catalogue (`cache/disk_catalog.cpp`) | records, LRU, reverse dependencies, epochs | Track, Touch, EvictOne, Invalidate, Reconcile, ReclaimInvalid | disk store, prefix index | stale epochs, busy and pinned results | acts only on the publication it recorded |
| Checkpoints, prefix index, retention (`cache/checkpoint.*`, `prefix_index.*`, `retention.*`) | immutable checkpoints, a compressed token tree, 128 ranked records | Publish, Insert, Lookup, AttachDurable, DropResident, RemoveDurable, Admit, Reclaim | callers serialise them with the cache's mutex | long sequences of legal calls | lookups return exactly the stored prefixes; pressure removes the least useful |
| Component text cache (`serve/component_text_cache.cpp`) | entries (a slot each), pending handles, index, retention | Acquire, Restore, PublishSnapshot, Persist, Commit | all of the above | one mutex and many callbacks | a request continues from the deepest usable prefix |
| Scheduler (`serve/text_generation_scheduler.cpp`) | requests by phase, output budget, monitors | Submit, Cancel, step, Consume | runner, component cache | cancellation, deadlines, back-pressure, stalls | every request ends once; budgets are returned |
| Two-host control (`serve/tp_control.cpp`, `tp_executor.cpp`, `tp_disk_store.cpp`, `tp_snapshot_gate.hpp`) | channel, sequence numbers, expected acknowledgement, poison flag | handshake, instruct, acknowledge, respond, capture | scheduler, caches on both hosts | interleaved sequences on one channel, peer loss, nested turns | both hosts execute the same instructions in the same order |
| Video jobs (`serve/video_jobs.cpp`) | queue of one, jobs, artefacts on disk | Create, Get, Content, Delete, worker, expiry, reload | HTTP API | deletion and expiry during execution | only complete, undeleted artefacts are served |
| Audio and embedding services (`serve/asr_service.cpp`, `tts_service.cpp`, `embedding_service.cpp`, `core/cancellable_gate.hpp`) | FIFO tickets, active count | Acquire, cancel, release | device | cancellation at the head of the queue | FIFO, capacity respected, nobody is forgotten |
| Speculation, sampling, constraints (`core/speculative`, `core/sampling.cpp`, `core/json_constraint.cpp`, `serve/stop_sequences.hpp`) | none or per request | pure functions | runner | edge cases | agree with their definitions |
| HTTP, WebSocket, OpenAI API, models, kernels, tools | – | parsing, formatting, GPU code | – | data and numerics | not a matter of protocol |

## 2. Modules and how they correspond to the code

**Ledger** – every locked region of `ledger.cpp` is one action. `alloc`, `tok`
and `pin` are the `Allocation`, `ChargeToken` and `PinToken` objects, and a
reference count is the set of objects that refer to one. `DropHandle`,
`DestroyPin`, `DestroyToken` and `DestroyAllocation` are the stages of a release,
so other threads run between them. `snap` and `peak` are `ResourceSnapshot`;
`faults` is the fault injection of the tests. Left out: lock timing
(`LockCosts`), `FindFreeBacking`, which only reads, and the object a refused
reservation has built before it asks for room: it was never admitted, and its
destructor returns at once (`ledger.cpp:112`).

**SlotLease** – one slot with one append component. A row's content is the
number of the write that produced it, so that "the reader sees the captured
bytes" is an equality. `fg` is the thread that holds or wants the lease, with the
point it has reached in Acquire, a guard, a batched reassignment or Release;
`idle` is the idle worker; `pins` and `want` are readers on other threads; `chk`
holds calls of `IsValid` between their atomic loads. A transfer is two steps, its
submission and its settlement, and may fail. Left out: `RowPin::Clone`, which
counts one more reader of a range that has one, and a failure of the conversion
that follows the last piece.

**DiskStore** and **CheckpointStore** – DiskStore has one action per step of
`Publish`, `Retire`, `Reclaim` and startup. `home` and `tmp` are the directories
as the process sees them; `mayHome` and `mayTmp` hold, for every name, each
content a power failure may leave, so a sync shrinks these sets and nothing else
does. `pc` is the step of the one operation that holds the I/O mutex; readers
and quarantine run in between. `PublishThrow`, `RetireThrow` and `ReclaimThrow`
stand for an exception at any step. `acked` and `gone` record what callers were
told. CheckpointStore says the same without files: publication and retirement
are atomic and permanent, only what was in flight may go either way.
The file system is external and modelled from what the code relies on: fsync of
a file fixes its bytes, fsync of a directory its entries, everything else may or
may not survive. Abstractions: `"empty"` stands for every wrong length and
`"torn"` for right length and wrong bytes; two manifests never disagree about the
geometry of a chunk they share; publication epochs, the verification cache (an
optimisation of a check that DiskStore always makes), decay of synced bytes,
removal of legacy files, a failed admission during startup, and the read-only
calls beyond their pin are left out.

**PersistenceQueue** – `slots`, `order`, `active`, `count` and `pinned` are the
queue (`order` lists the slots by `submitted_`); `subs` are request threads inside
`Persist` and `TrySubmit`; `table` is the client's handle table of
`2 * kPersistenceDepth` entries (the client has two such tables, for checkpoints
and for durable captures, used in the same way; the model has one); `stored` is
the disk store, abstracted to the set of checkpoints in it. The worker reports
before it settles, and a submitter reports a supersession after it has left the
mutex, as in the code. Abstractions: the minimum distance between persisted
boundaries only refuses jobs before they reach the queue; `WriteReclaims` may
retire any stored checkpoint (the catalogue's LRU choice is not modelled), and
its refusals (busy, pinned) are failed writes; stored checkpoints share no
chunks; statistics that no decision reads are left out; an allocation failure of
the job itself is a refusal. `SubmitUnpinned` is both ways a pin can fail:
`std::bad_alloc`, which TrySubmit handles, and rows retired meanwhile
(`PinFaults` says which happen), which it does not.

**DiskTier** – the disk tier as serving uses it: the catalogue, the durable side
of the prefix index, `StreamedStore::Restore`, the writer with its callbacks, and
the store's reclamation of orphans. A publication is an *epoch*, so that an ID
that is retired and published again gives two different objects; `pub[e]` is the
ID of epoch `e`. `io`, `cm` and `staging` are the three mutexes, held over several
steps where the code holds them over calls. Quarantine takes none of them, so
`ReadPayload` may condemn publications at any moment, also one that is being
written. `slot[r].rows` records with which content each payload reached the slot,
before its checksum is known. The files are DiskStore's files reduced to absent,
good and bad: crashes are DiskStore's subject, not this module's. `Damage` is the
outside world. A check of a payload fails when the file is bad, and also when a
healthy file cannot be opened, examined or read (`disk.cpp:971-973`, 1612-1618,
1630-1635): the code cannot tell the two apart and condemns every publication that
needs the file. Failed checks of healthy files and damage count together against
`MaxFaults`. `suspect` is a history variable: the files of which a check failed
since they were last written. `FailHistory` is the one way a request may fail after
its restore succeeded: `RestoredUnshared` or `Touch` throws, the slot is emptied,
and the request still counts as restored
(`component_text_cache.cpp:1286-1316`), so it goes on without the cold
initialization of other failures. What the runner makes of such a state is outside
the module. Serving never gives an ID twice and never calls `Retire` or
`ReclaimInvalid` (only tests do); the interface allows both, and `Reuse` includes
them. The prefix index is reduced to the copies it knows of each checkpoint:
deeper checkpoints come first, and the token tree that finds them is not modelled.
Constructing the cache is `Init`: a directory above its budget has been cut down
before the first request.

**Scheduler** – `req[r]` is a `ScheduledRequest` with the parts of its runner
request that the scheduler relies on; `lists` are the worker's four deques,
`clients` the round-robin queue, `work` the worker's place in its loop with the
batch in hand, `budget` the shared output budget, `watch` what the stall monitor
last saw. The prepare, execute and publish phases of a batch are separate steps,
request by request and token by token, so that consumers, cancellations,
deadlines, captures and the monitor act in between. `mode` is chosen once and is
what a runner pool's descriptor offers: single, multi-token or batched multi-token
decoding, the width of its plans, stop sequences. A token is its position in the
output, text is the sequence of the tokens it spells, and `eos` fixes where the
model stops, so "the stream is the model's output" is an equality. The stop filter
withholds and releases arbitrarily; what it matches is a choice. After the end of a
request only what its consumer and its destructor read is kept (`Ended`).

Captures run on threads of their own. A prefill call may end with one
(`BeginCapture`, a step of its own because the capture may be over before the worker
asks on), a prompt snapshot begins one, and the worker polls them. `Cancel` and
`Invalidate` do not poll: they join (`text_model_runner.cpp:1718`, 1774). So a step
of the worker that returns a lease takes place when no capture of that request runs
(`CapturesJoined`), and `Joins` says where the worker may have to wait for it: after
a prefill call, and in `CancelRemaining`, which is one step and waits for all of
them. A loss that the monitor declares during a join is taken to be declared before
the request's end was decided, or after the join. `stall` of a mode is
`stall_timeout`; with 0, the documented default, there is no monitor
(`text_generation_scheduler.cpp:570`). `commit` of a mode says whether the runner's
`Commit` of a request throws (`Mishap`); a failure after it, in `FinalizeResult`, is
left out. A request found stopped right after its prefill call ends in the same
step as the call.

Left out: log probabilities, progress callbacks, statistics, `PrepareBatchExecution`
and logging. Every backend in the tree supports incremental prefill and returns the
same plan for the requests of a batch that are left after preparation, so the
serial fallbacks of the two batch functions are not reached and not modelled.

## 3. Runs

Deadlock is checked for DiskStore, DiskTier and the queue. Ledger and SlotLease
have bounded counters and finite sets of objects that really run out; a scheduler
that was destroyed has nothing left to do.

| Run | Instance | Shows |
|---|---|---|
| `ledger_accounting` | 2 blocks, 3 tokens, 2 pins, sizes 1–2, limits lowered once, one-shot faults | counters equal live objects (`Conservation`), `WithinLimits`, `ExclusiveBacking`, `PinnedStaysOwned`, `PinnedBlockStable`; `LedgerDrains`: when every handle is gone and every destructor has run, nothing is charged |
| `slot_guard` | 1 range of ≤2 rows in pieces of one, 2 readers, 1 concurrent `IsValid` | exact reads and backing, no write under a reader, loss only by a failed copy, `NoFalseRejection` |
| `slot_batch` | 2 ranges, 1 reader of both, fair | pins are counted on every exception path, no range stays closed, refusals keep the frontier; `ForegroundEnds`: no deadlock between a batch and a reader of two ranges |
| `disk_store` | 3 manifests, a shared chunk, a private file, two manifests with one checkpoint ID, 1 reader, two budgets | the crash properties, the refinement of CheckpointStore, pins, exact byte count, no capacity spent before its removal is durable |
| `disk_tier` | 2 checkpoints that share a chunk, up to 3 publications, 1 request, 1 file damaged or unreadable, orphans of an earlier run, a budget that orphans exceed | `RestoredExact`, `NoFalseQuarantine`, `IndexTracked`, `EvictionSparesRam`, `WriteNeverBusy` |
| `queue` | 4 jobs, one learned, depth 3, evictions, failed writes, pins without room, early stop | `CountsExact`, `NoStrandedHandle`, `FirstBoundaryKept`, `JobsSettle`, `DrainReturns` |
| `queue_retired` | rows may be retired before the pin | `SupersededReported` **violated**, see findings |
| `queue_eviction` | a checkpoint whose payload equals the budget | **violated**, see findings |
| `scheduler_stream` | 2 streamed requests; plain, speculative with a stop filter, and two-host pools; captures, previews, full buffers, failing lanes, a `Commit` that throws, a lost device; 1.9 million states | `BudgetExact`, `StreamExact`, `RunnerContract`, `DecodersGetTurns`, `LossKeepsLeases` |
| `scheduler_ends` | 2 requests on one or two sessions, one with a cached prompt and a deadline, a shared prefix, publications, with and without a stall monitor; runner calls and, under the monitor, captures that hang; destruction | `SessionsExact`, `NoRequestLost`, `EveryRequestEnds` |
| `scheduler_terminate` | 2 lanes with stop sequences, an output budget that is full | **violated**, see findings |
| `scheduler_stall` | 1 lone request that waits for a publication longer than the stall timeout | **violated**, see findings |

*Why these bounds are enough.* Ledger: the interference between assignments
needs two blocks, a group of two and one competing token; limits are chosen so
that each of the four is the binding one somewhere. SlotLease: two rows and
pieces of one row give a range that is partly copied; two readers, or two ranges
and a reader of both, give every blocking pattern of a guard (a guard waits for
one range at a time). `MaxWrites` and `MaxGen` allow an overwrite after a reset
after a capture. DiskStore: a shared chunk needs two owners, a collision of
identities two manifests, and a third shows that neither disturbs the rest; the
number of crashes is not bounded. DiskTier: two publications that share a chunk
are what a quarantine spreads over, the third epoch is the ID that returns, and a
request that fails on one candidate goes on with the other. PersistenceQueue: a
chain of three boundaries plus a stranger is what coalescing distinguishes; depth
three makes both kinds of pressure happen. Scheduler: two requests are a batch, a
peer of a prefill, a leader and a follower; two tokens with a draft of two make a
preview, a single and a multi-token step of one request possible; buffers of two
bytes fill while one piece is unread. Of the three ways a `Commit` may end TLC tries
success and an ordinary error; the proofs cover a lost device as well.

*Fairness.* SlotLease: threads inside the slot's code run, transfers settle
(`CompletionSignal::Wait` must settle), and a reader that is not blocked eventually
drops each pin, whatever it pins meanwhile (hence strong fairness of `Unpin`).
PersistenceQueue: the worker is a thread whose store calls return, and a thread
inside TrySubmit leaves it. That store calls return is an assumption about
`StreamedStore::Write`: for rows that cannot be read from the slot it waits for
their preservation (`streaming.cpp:370`), which under continuous load has no bound
of its own; serving passes `copy_observed_rows`, which avoids the wait. Scheduler: the worker
thread runs, its runner calls return, and the timer fires; nothing is assumed of
consumers and clients. A capture that the worker only polls, under a stall monitor,
may hang for ever: the monitor then declares the device lost, and its lease is kept
without a join. No code bounds the other waits, so for them
`EveryRequestEnds` assumes that the capture ends (`Awaited`): a capture the worker is
joining, and any capture once the scheduler was told to stop (the destructor has
joined the monitor by then, and the worker joins what is left) or where no monitor
is configured. A capture that hangs there hangs the scheduler; that is a limit of the
code, and it is named in the property's comment. A runner call that hangs is the
monitor's case: with `"hang"` in `Faults` it may declare the device lost while a call
is under way, and the call is then taken to return (a call that never does leaves the
process to its supervisor, `serve.cpp`). The fairness of the worker is written
without ENABLED: `Worker` can take a step unless its loop has ended or it joins a
capture that runs (`AtRest`).

## 4. Findings

* `queue_retired`: `TrySubmit` removes the superseded job before it pins the new
  one and catches only `std::bad_alloc` (`streaming.cpp:796-820`). A row range
  retired after the job was built makes `PinPersistence` throw
  `std::runtime_error` (`slot.cpp:626`), and the supersession is never reported
  (`SupersededReported`): in the run's trace the queue is full, a third job displaces
  the oldest one and fails to pin, and nobody is left to report the displaced job. Its
  handle stays in the client's table, keeps its memory and uses up a place, as
  does that of the new job. `streaming.hpp:154` promises the report.
* `queue_eviction`: the reclaim callback compares the payload bytes alone with
  the budget (`component_text_cache.cpp:441`), the store admits payload and
  manifest (`disk.cpp:1113-1121`). In the gap between the two, every stored
  checkpoint is evicted for a write that cannot succeed, which the comment at
  `component_text_cache.cpp:439` excludes.

* `scheduler_terminate`: the last loop of `StepDecodeBatch` calls `FinishAdvanced`
  outside any try block (`text_generation_scheduler.cpp:1754`). At the token limit
  `CompleteSuccess` publishes the tail the stop filter withheld and throws when a
  buffer limit refuses it (954-963), and a `Commit` that throws would do the same; the
  other callers catch that, here it leaves
  `Run`, which is `noexcept`, and the process ends. A test says that "a failing
  batch member must not fail or corrupt a healthy peer"
  (`tests/cli/text_generation_scheduler_test.cpp:1171`).
* `scheduler_stall`: a request that waits for a disk publication is still queued,
  and is polled every millisecond without progress
  (`text_generation_scheduler.cpp:2041`). The wait may last 120 s, the stall timeout
  may be 60 s: alone, it makes the monitor declare the device lost. "An idle server
  and a queued request never count as stalled" (`docs/SERVER.md:1330`).

## 5. Proofs

All theorems hold for every value of the constants that satisfies the named
assumptions, in particular any number of objects, files and readers.

**LedgerProofs** (from `LedgerAssumption`). The inductive invariant is
`Ownership`: objects are typed (`Objects`), a held token is alive (`Handles`), the blocks of
a live token are alive and agree on category and state, a pool block has exactly
one assigned owner while it is not free and none while it is (`Owners`), an
original handle names one block that nobody else created and that stays free
until the reservation is converted (`Originals`), and a pin keeps its token alive
and is counted in each of its blocks (`Pins`).
`ExclusiveBacking` alone is not inductive: that a block is free exactly when it
has no owner depends on tokens that no handle refers to but a pin still keeps
alive. One lemma per action shows that it preserves `Ownership`.
Theorems: `BackingIsExclusive`, `PinsKeepOwners`, `PinnedBlocksAreStable`.

The second part of LedgerProofs rests on SumLemmas. `Balance` adds
the sums to `Ownership` (`Accounts`): each counter is the total of the sizes of
the blocks it counts, and none passes its limit. A step moves a group of blocks between five
classes (total, RAM, one category, reserved, pinned); the lemmas say what such a
move does to each sum. Theorems: `CountersAreExact`, `LimitsAreKept`,
`LedgerEmpties`. The last one also needs that a block alive is reached from a
handle, a pin or a destructor that still has to run.

**SlotLeaseProofs** (from `SlotAssumption`). The argument turns on one notion, a
*settled* range: preserved or retired, and read by nobody in the slot. `Sources`
says that a range that is not settled is in the slot as it was captured, below the
execution frontier; `Passed` that the guard under way has every range it concerns
either on a list or settled; and a settled range stays so. That last fact, with
what the pieces do to the backing, is `Advance`, the only thing a step may do to a
registered range. `Room` says that the bounds on generations and writes leave room
for what a lease still has to do, so that no safety property holds because a bound
was hit. Theorems: `SourceIntactHolds`, `PinnedReadsExactHolds`,
`BackingExactHolds`, `ReadersCountedHolds`, `ClosedOnlyWhilePreservingHolds`,
`NoFalseRejectionHolds`, `NoWriteUnderReaderHolds`, `RefusalKeepsFrontierHolds`.

**DiskStoreProofs** (the first part from `DiskAssumption` alone, without any
assumption on sizes or finiteness). `CrashSafe` is inductive. It speaks of three sets of names: those
whole in the running system (`Held`), those that may be whole after a power
failure (`Maybe`), and those that must be (`Sure`); `Files` orders them. `Control`
ties `pc` to the subject and the work left; `Promised` says that every promised
manifest and its payloads are in `Sure`; `Compatible` says that manifests that
may be found together do not contradict each other, `Accounted` that without the
recovery flag each of them is indexed or being retired; `Publication`,
`Retirement` and `Reclamation` record what each barrier has already achieved;
`Removed` keeps reported removals out of `Maybe`; `Readers` bounds pins by the
index. A power failure replaces `Held` by any set between `Sure` and `Maybe`,
which is why the invariant is about these sets and not about what is on disk now.
Theorems: `PublishedCheckpointsSurvive`, `ExposedEntriesAreComplete`,
`RetiredCheckpointsStayGone`, `PinsKeepFiles`, and
`DiskStoreImplementsCheckpointStore` (initial states and steps map to those of
CheckpointStore under `visible <- durable, promised <- acked`).

The second part of DiskStoreProofs, about the byte count, needs `SizeAssumption` as
well: finitely many files, sizes above zero. `managed_bytes` counts what the process
sees, the budget is about what a power failure may leave, and `Space` ties the two
together. Without the recovery flag, a name that may come back in a directory is
seen there, except for the removals of the retirement under way that are not
synced yet (`Removals`); a name that may come back in tmp/ is seen there or has
been renamed and is at its home, which no retirement removes before tmp/ is synced
(`Renames`). `Count` is exact without the flag and never too low with it.
Theorems: `ManagedBytesAreExact`, `GrowthStaysWithinBudget`.

**PersistenceQueueProofs** (from `QueueAssumption`). `Exact` is inductive: a job is
in the queue once, because TrySubmit refuses what is pending or active, so the
slots, their order and the active job never name a job twice and the counters are
its numbers and bytes. `NoHandleIsStranded` adds `Handles`: a handle belongs to a
job in the queue that is still to be reported, or a thread owes its release. It
assumes `"retired" \notin PinFaults`, which is what the code relies on and what
`queue_retired` shows to be wrong (section 4); with that fault the statement is
false. Theorems: `QueueCountsAreExact`, `FirstBoundaryIsKept`,
`NoHandleIsStranded`.

**DiskTierProofs** (from `TierAssumption`). The argument rests on the pins. `Pins`:
a candidate of a request is durable under the ID the lookup found it by, until the
request has settled. An ID has one entry at a time (`Stored`), so what Restore
opens by ID is what the lookup pinned (`Loads`); its payloads stay on disk, so one
that failed is still the file that failed its check when the failure is reported
(`Failed`), and not one written since under the same name, which is why quarantine
hits nothing else. `Catalogued` says that the index offers valid
records only; `Locks` who holds the store's mutex: the reclamation has it only
while it runs, and the reclaim callback has joined it. Theorems:
`RestoredExactHolds`, `NoFalseQuarantineHolds`, `IndexTrackedHolds`,
`WriteNeverBusyHolds`, `EvictionSparesRamHolds`.

**SchedulerLemmas** and **SchedulerProofs** (from `SchedulerAssumption`). The
lemmas say what each operator of the model does to the requests, the queue and the
lists; the proofs put the invariant `Scheduled` on top of them. It has two parts.

* `Placed`: every accepted request without an end is in exactly one place, the
  queue, one of the worker's four lists or its batch (`Placement`); the counted ones
  have a session each, within the capacity (`Seating`); the batch fits the place the
  worker has reached (`Batching`; a lane whose first token is published is the one at
  hand, and none is published after a failed probe, which is what lets the code ask
  only once per lane whether its request was stopped), and the worker leaves its loop
  for a reason and leaves nothing behind (`Draining`). The budget is the sum over the requests of what
  their pieces cost, which is part of `World \in Worlds`. `BudgetExact`,
  `SessionsExact`, `NoRequestLost` and, step by step, `LossKeepsLeases` follow.
* `Phases`: the output of a request in each phase of a work unit. Whatever the phase,
  `Stream` holds: sent text, withheld text and what a stop sequence or an early end
  cut off are together the tokens, which count up. Between units a request is `Calm`
  (the runner holds what was published, but for a token selected or previewed); one
  prepared for a single-token step is `Chosen`; one that was stepped is in a `Lane`,
  where the tokens published and those still in the lane's result are what the
  runner advanced by. `StreamExact` and `RunnerContract` follow. Neither is inductive
  without the other: that no selection is advanced twice depends on where the stream
  stands, and where the stream stands depends on the runner not being misused.

Most steps change one request and move it between places, so most lemmas say what
becomes of that request (`Ran`, `Ruined`, `Level`, `Tended`, `Fate`) and that the
others stay (`Beside`, `Serves`). The steps that go over a whole list (BeginLoop, a
failed batch, CancelRemaining, requeueing) are folds; the equation of each fold is
solved once, by least counterexample.

`DecodersGetTurns` needs `Turning` besides `Placed` and `Phases`. A decoder that was
passed over is due and still among the decoders (`PassedOver`); a chunk beside
decoders runs only when none is due, or as the first one since the last batch while no
decoder has a token yet (`Allowed`); and where a batch takes every decoder, none is
owed a turn when the next one is chosen (`Even`). The property does not say that nobody
waits for more than one chunk. `assemble_initial_batch` asks whether the present
decoders have tokens and whether a chunk has run since the last batch; it does not
ask whether decoding has started, as the comment at
`text_generation_scheduler.cpp:2061` has it ("Once decoding starts, every due decoder
runs before more prefill"). Where more requests are resident than a batch is wide,
each batch whose members all end lets another chunk run ahead of the decoders that
have had no turn: five requests on a plan of width two show it in the model. The
theorem confines this to decoders without a token and to such pools.
Theorems: `SchedulerInvariant`, `BudgetIsExact`, `SessionsAreExact`,
`NoRequestIsLost`, `StreamIsExact`, `RunnerContractHolds`, `LeasesAreKept`,
`DecodersGetTheirTurns`.

**SumLemmas** holds what the proofs know of sums over finite sets. The induction
theorems of the library take an operator as a parameter, which no installed prover
can instantiate; every induction here takes a least counterexample instead
(`LeastNat`). A sum is a solution of the equation that the fold of the community
modules iterates; that equation has one solution, and the solution does not depend
on the order in which the fold picks its elements (`SumRemove`); its last part does
this for folds in general. `KeptExists` and
`FilterIs` of DiskTierProofs do the same for a sequence without some of its members.
For that reason the modules write such a sequence with a function of their own
(`Filter`, `Oldest`, `Waiting`) and not with SelectSeq, whose definition the provers
cannot expand.

*Assumptions beyond those TLC needs.* Readers (`SlotAssumption`), checkpoints
(`TierAssumption`), blocks and pins, and files are finite sets, since their
elements are counted or summed, and so are the requests (`SchedulerAssumption`, which
also bounds the queue limits, the capacity and the plan width from below by one, and
gives each `Commit` one of three ends); a
boundary does not precede itself (`QueueAssumption`). The code justifies each: these
are objects in memory or on disk, limits and capacities of zero are refused, and a
prior boundary is shorter.

**Only model-checked**: liveness and ENABLED, which are out of the prover's reach
(`LedgerDrains` is a safety property and proved; `ForegroundEnds`, `JobsSettle`,
`DrainReturns` and `EveryRequestEnds` are not), and the four runs that find a
violation. Every safety invariant and every action property of a passing run is
proved.

## 6. Plan

Done: Ledger, SlotLease, DiskStore with CheckpointStore, PersistenceQueue, DiskTier
and Scheduler; proofs of every safety property of all of them. In order:

1. **TpControl**: leader and worker, acknowledgements and results on one channel,
   peer loss, poisoning; **SnapshotGate** with the recursive call mutex.
2. **VideoJobs** and **CancellableGate**.
3. **Retention** and the token tree of **PrefixIndex**, each against a reference
   definition (a ranked set; a set of prefixes), and **Checkpoint** lineage.
4. `StreamedStore::Write` piece by piece, composed with SlotLease.
5. The speculative verifier as an operator checked against its definition; the
   continuation cache.

## 7. Not modelled

GPU kernels, quantisation and model definitions (numerics without protocol), which
are most of the repository's lines; HTTP, WebSocket and JSON (parsing and
formatting); command line, evaluation and extension loading (sequential tools); the
older continuation cache, which the component cache replaces where an adapter
exists; `IsValid`'s memory ordering beyond interleaving of its loads (the code uses
acquire and release, under which the interleavings are all there is for these
words). A runner whose widest batched multi-token step is narrower than its plan
(`text_generation_scheduler.cpp:1650`) would mix the two kinds of step in one batch;
no backend in the tree is one.
