--------------------------- MODULE PersistenceQueue ---------------------------
(***************************************************************************)
(* The queue between the serving cache and the disk store                  *)
(* (PersistenceQueue in src/src/cache/streaming.cpp) together with its     *)
(* only client (Persist and the queue's callbacks in                       *)
(* src/src/cli/serve/component_text_cache.cpp).                            *)
(*                                                                         *)
(* Request threads put a checkpoint into the client's table of serving     *)
(* handles and submit a job for it; one worker writes the jobs, oldest     *)
(* first.  A job may be superseded by a deeper boundary of the same        *)
(* conversation or, under pressure, by any later job.  The queue's mutex   *)
(* is not held while a callback runs, so a supersession is reported to the *)
(* client some time after it happened.                                     *)
(***************************************************************************)
EXTENDS Integers, Sequences, FiniteSets, FiniteSetsExt

CONSTANTS Job,        \* checkpoints with their manifests and payload sources
          Submitter,  \* request threads that call Persist
          Depth,      \* max_depth
          MaxBytes,   \* max_pinned_bytes
          Size,       \* Size[j]: pinned_bytes_ of j
          Prior,      \* Prior[j]: the jobs that j Extends
          Learned,    \* jobs with purpose kLearned
          Payload,    \* Payload[j]: the bytes of j's payload files
          Manifest,   \* Manifest[j]: the bytes of j's manifest
          DiskBudget, \* the disk store's budget
          PinFaults   \* how Pin may fail: "bad_alloc", "retired"

None == "none"
Slot == 1 .. Depth
\* The client's table has room for twice the queue's depth.
Entry == 1 .. 2 * Depth

ASSUME QueueAssumption ==
  /\ Depth \in Nat \ {0} /\ MaxBytes \in Nat \ {0} /\ DiskBudget \in Nat
  /\ None \notin Job
  /\ Size \in [Job -> Nat] /\ Payload \in [Job -> Nat]
  /\ Manifest \in [Job -> Nat \ {0}]
  /\ Prior \in [Job -> SUBSET Job] /\ Learned \subseteq Job
  /\ \A j \in Job : j \notin Prior[j]
  /\ PinFaults \subseteq {"bad_alloc", "retired"}

VARIABLES
  slots,   \* pending: the queue's slots
  order,   \* the occupied slots by submitted_, oldest first
  active,  \* the job the worker owns
  count,   \* stats.pending, the active job included
  pinned,  \* stats.pinned_bytes
  stopped, \* Stop was called
  worker,  \* the worker's next step
  subs,    \* what each submitter is doing
  table,   \* the client's serving handles
  closing, \* the client is being destroyed: Drain, then Stop
  stored   \* the checkpoints in the disk store

queue  == <<slots, order, active, count, pinned>>
vars   == <<queue, stopped, worker, subs, table, closing, stored>>

Pending == {slots[s] : s \in Slot} \ {None}
Live    == Pending \cup ({active} \ {None})

Bytes(S) == MapThenSumSet(LAMBDA j : Size[j], S)

Idle == [pc |-> "idle", job |-> None, entry |-> 0, owes |-> None, ok |-> FALSE]

Init ==
  /\ slots = [s \in Slot |-> None] /\ order = <<>>
  /\ active = None /\ count = 0 /\ pinned = 0 /\ stopped = FALSE
  /\ worker = "wait"
  /\ subs = [t \in Submitter |-> Idle]
  /\ table = [e \in Entry |-> None]
  /\ closing = FALSE /\ stored = {}

-----------------------------------------------------------------------------
(* The client *)

\* The completed callback: every handle of the checkpoint is released.
Released(j) == [e \in Entry |-> IF table[e] = j THEN None ELSE table[e]]

\* Persist reserves a handle before it submits; a full table refuses.
PersistBegin(t, j) ==
  /\ ~closing /\ subs[t].pc = "idle"
  /\ \E e \in Entry :
       /\ table[e] = None /\ \A f \in 1 .. e - 1 : table[f] # None
       /\ table' = [table EXCEPT ![e] = j]
       /\ subs' = [subs EXCEPT ![t] = [Idle EXCEPT !.pc = "submit", !.job = j,
                                                   !.entry = e]]
  /\ UNCHANGED <<queue, stopped, worker, closing, stored>>

\* TrySubmit reports the job it superseded, outside the queue's mutex.
ReportSuperseded(t) ==
  /\ subs[t].pc = "report"
  /\ table' = Released(subs[t].owes)
  /\ subs' = [subs EXCEPT ![t] =
                IF @.ok THEN Idle ELSE [@ EXCEPT !.pc = "refused", !.owes = None]]
  /\ UNCHANGED <<queue, stopped, worker, closing, stored>>

\* Persist gives back the handle of a job that was not accepted.
PersistRefused(t) ==
  /\ subs[t].pc = "refused"
  /\ table' = IF table[subs[t].entry] = subs[t].job
                THEN [table EXCEPT ![subs[t].entry] = None] ELSE table
  /\ subs' = [subs EXCEPT ![t] = Idle]
  /\ UNCHANGED <<queue, stopped, worker, closing, stored>>

-----------------------------------------------------------------------------
(* TrySubmit *)

\* Mutant: any pending ancestor may be coalesced, the first boundary included.
RedundantAnchor(j) ==
  {s \in Slot : slots[s] # None /\ slots[s] \notin Learned /\ slots[s] \in Prior[j]}

\* A pending ancestor of j that itself extends a job still in the queue.
Redundant(j) ==
  {s \in Slot : /\ slots[s] # None /\ slots[s] \notin Learned
                /\ slots[s] \in Prior[j]
                /\ \E a \in Live : a \in Prior[slots[s]]}

Pressed(j) == count = Depth \/ Size[j] > MaxBytes - pinned

Displaceable(j) ==
  {s \in Slot : slots[s] # None /\ (slots[s] \in Learned => j \in Learned)}

\* The slot of S whose job was submitted first.
Oldest(S) == order[Min({i \in DOMAIN order : order[i] \in S})]

\* The slot whose job makes way for j; 0 for none.
Replacement(j) ==
  IF Redundant(j) # {} THEN Min(Redundant(j))
  ELSE IF Pressed(j) /\ Displaceable(j) # {} THEN Oldest(Displaceable(j)) ELSE 0

Freed(j) == IF Replacement(j) = 0 THEN 0 ELSE Size[slots[Replacement(j)]]

Admissible(j) ==
  /\ ~stopped /\ j \notin Live
  /\ ~(count = Depth /\ Freed(j) = 0)
  /\ Size[j] <= MaxBytes - (pinned - Freed(j))

\* The slots once the job in slot r (0 for none) has made way.
Vacated(r) == [s \in Slot |-> IF s = r THEN None ELSE slots[s]]
Waiting(r) ==
  IF r = 0 THEN order
  ELSE LET i == CHOOSE k \in DOMAIN order : order[k] = r
       IN SubSeq(order, 1, i - 1) \o SubSeq(order, i + 1, Len(order))

\* What TrySubmit leaves to its caller.
Returns(t, r, ok) ==
  subs' = [subs EXCEPT ![t] =
             IF r # 0 THEN [@ EXCEPT !.pc = "report", !.owes = slots[r], !.ok = ok]
             ELSE IF ok THEN Idle ELSE [@ EXCEPT !.pc = "refused"]]

\* Stopped, already queued, no capacity, or no memory for the job itself:
\* nothing is discarded.
SubmitRefused(t) ==
  /\ subs[t].pc = "submit"
  /\ Returns(t, 0, FALSE)
  /\ UNCHANGED <<queue, stopped, worker, table, closing, stored>>

SubmitAccepted(t) ==
  /\ subs[t].pc = "submit" /\ Admissible(subs[t].job)
  /\ LET j == subs[t].job
         r == Replacement(j)
         s == IF r # 0 THEN r ELSE Min({e \in Slot : slots[e] = None})
     IN /\ slots' = [Vacated(r) EXCEPT ![s] = j]
        /\ order' = Append(Waiting(r), s)
        /\ count' = count + (IF r = 0 THEN 1 ELSE 0)
        /\ pinned' = pinned - Freed(j) + Size[j]
        /\ Returns(t, r, TRUE)
  /\ UNCHANGED <<active, stopped, worker, table, closing, stored>>

\* The job that makes way is gone before the new pins are admitted.
Discard(r) ==
  /\ slots' = Vacated(r) /\ order' = Waiting(r)
  /\ count' = count - (IF r = 0 THEN 0 ELSE 1)
  /\ pinned' = pinned - (IF r = 0 THEN 0 ELSE Size[slots[r]])
  /\ UNCHANGED active

\* Mutant: the supersession is not reported when the new job is refused.
SubmitUnpinnedSilent(t) ==
  /\ PinFaults # {}
  /\ subs[t].pc = "submit" /\ Admissible(subs[t].job)
  /\ Discard(Replacement(subs[t].job))
  /\ Returns(t, 0, FALSE)
  /\ UNCHANGED <<stopped, worker, table, closing, stored>>

\* Pin fails: it found no room in the ledger (bad_alloc), or borrowed rows that
\* were retired.  The latter is no bad_alloc: the exception leaves TrySubmit and
\* Persist, and nobody runs what either would have done next.
SubmitUnpinned(t) ==
  /\ subs[t].pc = "submit" /\ Admissible(subs[t].job)
  /\ Discard(Replacement(subs[t].job))
  /\ \E fault \in PinFaults :
       IF fault = "bad_alloc" THEN Returns(t, Replacement(subs[t].job), FALSE)
       ELSE subs' = [subs EXCEPT ![t] = Idle]
  /\ UNCHANGED <<stopped, worker, table, closing, stored>>

-----------------------------------------------------------------------------
(* The worker *)

\* Mutant: the newest job is taken first.
NextSlotNewest == order[Len(order)]

NextSlot == order[1]

WorkerTake ==
  /\ worker = "wait" /\ ~stopped /\ count # 0
  /\ active' = slots[NextSlot]
  /\ slots' = Vacated(NextSlot) /\ order' = Waiting(NextSlot)
  /\ worker' = "write"
  /\ UNCHANGED <<count, pinned, stopped, subs, table, closing, stored>>

WorkerExit ==
  /\ worker = "wait" /\ stopped /\ worker' = "exited"
  /\ UNCHANGED <<queue, stopped, subs, table, closing, stored>>

Need(j) == Payload[j] + Manifest[j]
Fits(j) == MapThenSumSet(Need, stored) + Need(j) <= DiskBudget

\* The store admits the checkpoint and publishes it.
WriteSucceeds ==
  /\ worker = "write"
  /\ active \notin stored /\ Fits(active)
  /\ stored' = stored \cup {active} /\ worker' = "reportDone"
  /\ UNCHANGED <<queue, stopped, subs, table, closing>>

\* The reclaim callback refuses what exceeds the budget by itself.
Reclaimable(j) == Payload[j] <= DiskBudget

\* DiskCapacityExhausted: one checkpoint is retired and the write is retried,
\* unless the queue was stopped meanwhile.
WriteReclaims(v) ==
  /\ worker = "write"
  /\ active \notin stored /\ ~Fits(active)
  /\ Reclaimable(active) /\ v \in stored
  /\ stored' = stored \ {v}
  /\ worker' = IF stopped THEN "reportFailed" ELSE "write"
  /\ UNCHANGED <<queue, stopped, subs, table, closing>>

\* Cancelled, an I/O error, a checkpoint that is already stored, or no capacity
\* and nothing to retire.
WriteFails ==
  /\ worker = "write" /\ worker' = "reportFailed"
  /\ UNCHANGED <<queue, stopped, subs, table, closing, stored>>

WorkerReport ==
  /\ worker \in {"reportDone", "reportFailed"}
  /\ table' = Released(active) /\ worker' = "settle"
  /\ UNCHANGED <<queue, stopped, subs, closing, stored>>

\* Mutant: the bytes of a finished job stay charged.
WorkerSettleCharged ==
  /\ worker = "settle" /\ worker' = "wait"
  /\ active' = None /\ count' = count - 1
  /\ UNCHANGED <<slots, order, pinned, stopped, subs, table, closing, stored>>

WorkerSettle ==
  /\ worker = "settle" /\ worker' = "wait"
  /\ active' = None /\ count' = count - 1 /\ pinned' = pinned - Size[active]
  /\ UNCHANGED <<slots, order, stopped, subs, table, closing, stored>>

-----------------------------------------------------------------------------
(* Shutdown *)

\* The client is destroyed, which no request thread outlives: it drains the
\* queue, that is, it waits for count = 0, before it stops it.
Close ==
  /\ ~closing /\ \A t \in Submitter : subs[t].pc = "idle"
  /\ closing' = TRUE
  /\ UNCHANGED <<queue, stopped, worker, subs, table, stored>>

\* Mutant: dropped jobs stay counted.
StopCounted ==
  /\ ~stopped /\ stopped' = TRUE
  /\ slots' = [s \in Slot |-> None] /\ order' = <<>>
  /\ UNCHANGED <<active, count, pinned, worker, subs, table, closing, stored>>

\* Pending jobs are dropped, and nobody is told.
Stop ==
  /\ ~stopped /\ stopped' = TRUE
  /\ slots' = [s \in Slot |-> None] /\ order' = <<>>
  /\ count' = count - Cardinality(Pending)
  /\ pinned' = pinned - Bytes(Pending)
  /\ UNCHANGED <<active, worker, subs, table, closing, stored>>

Finished == worker = "exited" /\ UNCHANGED vars

-----------------------------------------------------------------------------
Write == WriteSucceeds \/ WriteFails \/ \E v \in Job : WriteReclaims(v)

Submit(t) ==
  SubmitAccepted(t) \/ SubmitRefused(t) \/ SubmitUnpinned(t)

Next ==
  \/ \E t \in Submitter, j \in Job : PersistBegin(t, j)
  \/ \E t \in Submitter : Submit(t) \/ ReportSuperseded(t) \/ PersistRefused(t)
  \/ WorkerTake \/ WorkerExit \/ Write \/ WorkerReport \/ WorkerSettle
  \/ Close \/ Stop \/ Finished

\* The worker is a thread of its own, and each call of the store returns.
Fairness ==
  /\ WF_vars(WorkerTake \/ WorkerExit \/ Write \/ WorkerReport \/ WorkerSettle)
  /\ \A t \in Submitter :
       WF_vars(Submit(t) \/ ReportSuperseded(t) \/ PersistRefused(t))

Spec == Init /\ [][Next]_vars /\ Fairness

-----------------------------------------------------------------------------
(* Properties *)

\* Every variable has its type.
TypeOK ==
  /\ slots \in [Slot -> Job \cup {None}] /\ order \in Seq(Slot)
  /\ active \in Job \cup {None} /\ (active = None <=> worker \in {"wait", "exited"})
  /\ count \in Nat /\ pinned \in Nat
  /\ stopped \in BOOLEAN /\ closing \in BOOLEAN
  /\ worker \in {"wait", "write", "reportDone", "reportFailed", "settle", "exited"}
  /\ subs \in [Submitter -> [pc : {"idle", "submit", "report", "refused"},
                             job : Job \cup {None}, entry : {0} \cup Entry,
                             owes : Job \cup {None}, ok : BOOLEAN]]
  /\ table \in [Entry -> Job \cup {None}]
  /\ stored \subseteq Job

\* The counters TrySubmit subtracts from, and the order the worker follows,
\* agree with the jobs in the queue whatever was superseded, refused half way,
\* settled or stopped, and never exceed the queue's limits.
CountsExact ==
  /\ TypeOK
  /\ count = Cardinality(Live) /\ pinned = Bytes(Live)
  /\ {order[i] : i \in DOMAIN order} = {s \in Slot : slots[s] # None}
  /\ Cardinality(Pending) = Len(order)
  /\ count <= Depth /\ pinned <= MaxBytes

\* A serving handle, which keeps a checkpoint in memory, is held only while the
\* checkpoint's job is in the queue, on its way there, or about to be reported.
NoStrandedHandle ==
  ~stopped => \A e \in Entry : table[e] # None =>
    \/ table[e] \in Live
    \/ \E t \in Submitter : /\ subs[t].pc # "idle"
                            /\ table[e] \in {subs[t].job, subs[t].owes}

\* The jobs a step discards before they were written.
Superseded == Pending \ (Live' \cup IF stopped' THEN Pending ELSE {})

\* A job that makes way for another leaves its supersession to be reported to the
\* client, whatever becomes of the job it made way for ("Completion reports false
\* for superseded work, outside the queue lock", streaming.hpp).
SupersededReported ==
  [][\A d \in Superseded : \E t \in Submitter : subs'[t].owes = d]_vars

\* Without pressure the first boundary of a conversation stays in the queue
\* until its write starts: what is coalesced extends a job that remains.  Under
\* pressure a learned boundary is still never given up for an ordinary one.
FirstBoundaryKept ==
  [][\A t \in Submitter : subs[t].pc = "submit" /\ subs'[t].pc # "submit" =>
       \A r \in Superseded :
         /\ Pressed(subs[t].job) \/ \E a \in Live' : a \in Prior[r]
         /\ r \in Learned => subs[t].job \in Learned]_vars

\* No job starves: each one is written, fails, or makes way for another.
JobsSettle == \A j \in Job : j \in Live ~> j \notin Live

\* Drain returns, also when the queue is stopped meanwhile: the worker may then
\* have exited, and only Stop can have settled what was pending.
DrainReturns == closing ~> count = 0

\* Checkpoints are retired only for one that the budget can hold ("A checkpoint
\* larger than the entire disk budget cannot be admitted by deleting other
\* conversations", component_text_cache.cpp).
EvictionsServe == [][stored \ stored' # {} => Need(active) <= DiskBudget]_vars
=============================================================================
