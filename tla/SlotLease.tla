----------------------------- MODULE SlotLease -----------------------------
(***************************************************************************)
(* One execution slot of the component cache (src/src/cache/slot.cpp).     *)
(*                                                                         *)
(* A request leases the slot, runs the model in it and captures row ranges *)
(* of it as BorrowedRows: nothing is copied at capture time, the checkpoint*)
(* keeps pointing into the slot.  Before the slot overwrites or releases   *)
(* such a range, the mutation guard must preserve it (copy it to backing   *)
(* reserved beforehand) and wait for readers that still look at the slot.  *)
(* An idle worker copies ranges in pieces while nobody leases the slot.    *)
(* Readers (restores, disk jobs) pin ranges from other threads.            *)
(*                                                                         *)
(* Rows of the slot are 1..MaxRows of one append component; what the model *)
(* wrote in a row is a version number, so "the reader sees the captured    *)
(* bytes" is an equality of versions.                                      *)
(***************************************************************************)
EXTENDS Integers, FiniteSets

CONSTANTS Row,        \* identities of RowState objects (captured ranges)
          Reader,     \* threads that pin ranges
          Checker,    \* threads that call IsValid
          MaxRows,    \* rows of the slot
          PieceRows,  \* rows one bounded copy moves (piece_bytes / row_bytes)
          BatchSize,  \* reassignment_batch_size; 1 is the serial path
          MaxWrites,  \* bound on writes to the slot
          MaxGen      \* bound on the generation counter

None == "none"
NoRow == "norow"

ASSUME SlotAssumption ==
  /\ MaxRows \in Nat \ {0} /\ PieceRows \in Nat \ {0} /\ BatchSize \in Nat \ {0}
  /\ MaxWrites \in Nat /\ MaxGen \in Nat \ {0}
  /\ NoRow \notin Row /\ IsFiniteSet(Reader)

VARIABLES
  content,  \* version held by each row of the slot
  valid,    \* valid_rows of the component (the execution frontier)
  gen,      \* SlotState::generation
  live,     \* LeaseState::live: the frontier may be leased again as it is
  created,  \* LeaseState::slot is not null
  bound,    \* LeaseState::borrowed_end
  row,      \* the RowState objects
  fg,       \* the foreground thread that owns the lease, or is acquiring it
  stop,     \* the lease's stop token was triggered
  idle,     \* the idle worker and the flags idle_pending, idle_failed
  pins,     \* source pins each reader holds
  want,     \* the range each reader is blocked on in BorrowedRows::Pin
  chk,      \* IsValid calls in progress
  clock     \* versions written so far

vars == <<content, valid, gen, live, created, bound, row, fg, stop, idle, pins,
          want, chk, clock>>

Position == 1..MaxRows
Version  == 0..MaxWrites

-----------------------------------------------------------------------------
(* Ranges *)

\* A RowState that no shared_ptr refers to.
Unborrowed ==
  [borrowed |-> FALSE, held |-> FALSE, backed |-> FALSE, first |-> 1, end |-> 0,
   gen |-> 0, copied |-> 0, materialized |-> FALSE, retired |-> FALSE,
   closing |-> FALSE, idleFailed |-> FALSE, readers |-> 0, lost |-> FALSE,
   data |-> [i \in Position |-> 0], got |-> [i \in Position |-> 0]]

RowsOf(r)    == row[r].first..row[r].end
Count(r)     == row[r].end - row[r].first + 1
Remaining(r) == Count(r) - row[r].copied
Complete(r)  == row[r].materialized \/ row[r].retired
Registered   == {r \in Row : row[r].borrowed}

Least(m, n) == IF m <= n THEN m ELSE n
PieceOf(r)  == Least(PieceRows, Remaining(r))

\* CopyRowsOut moved the next piece of r into its backing.
Copied(r, n) ==
  [row[r] EXCEPT !.copied = @ + n,
     !.got = [i \in Position |->
                IF i \in (row[r].first + row[r].copied)
                           ..(row[r].first + row[r].copied + n - 1)
                THEN content[i] ELSE @[i]]]

\* Mutant: the range stays closed to readers after it was published.
PublishedStillClosed(s) == [s EXCEPT !.materialized = TRUE, !.idleFailed = FALSE]

\* Publication of a completely copied range (conversion, kMaterialized).
Published(s) == [s EXCEPT !.materialized = TRUE, !.idleFailed = FALSE, !.closing = FALSE]

\* Mutant: the first piece publishes the range.
FullAfterOnePiece(s) == s.copied > 0

\* Every row of the range has been copied.
Full(s) == s.copied = s.end - s.first + 1

\* The source pin of a copy is dropped.
Unread(s) == [s EXCEPT !.readers = @ - 1]

-----------------------------------------------------------------------------
(* The foreground thread: where it is in Acquire, a guard or a release *)

Idle(pc) == [pc |-> pc, why |-> None, stage |-> None, cur |-> NoRow, todo |-> {},
             batch |-> {}, await |-> {}, lo |-> 1, hi |-> 0, next |-> 0]

Leased    == fg.pc # "free"
Releasing == fg.pc = "release"

\* Mutant: an append at the conservative bound skips the scan.
GuardedBelowBound(lo, hi) ==
  IF bound <= lo THEN {}
  ELSE {r \in Registered : row[r].first <= hi /\ lo <= row[r].end}

\* The registrations a guard over lo..hi must visit; the conservative bound
\* lets it skip the scan.
Guarded(lo, hi) ==
  IF bound < lo THEN {}
  ELSE {r \in Registered : row[r].first <= hi /\ lo <= row[r].end}

\* Start releasing the slot: the adapter calls BeforeRelease on every row.
BeginRelease(why) ==
  fg' = [Idle("release") EXCEPT !.why = why, !.todo = Guarded(1, MaxRows)]

\* An exception leaves a guard: a refused acquisition gives the slot back
\* unchanged, a refused overwrite returns to the executing request.
Refused == IF fg.pc = "reassign" THEN Idle("free") ELSE Idle("exec")
StopAfterRefusal == IF fg.pc = "reassign" THEN stop' = FALSE ELSE UNCHANGED stop

-----------------------------------------------------------------------------

Init ==
  /\ content = [i \in Position |-> 0]
  /\ valid = 0 /\ gen = 1 /\ live = FALSE /\ created = TRUE /\ bound = 0
  /\ row = [r \in Row |-> Unborrowed]
  /\ fg = Idle("free") /\ stop = FALSE
  /\ idle = [pc |-> "wait", cur |-> NoRow, pending |-> FALSE, failed |-> FALSE]
  /\ pins = [p \in Reader |-> {}]
  /\ want = [p \in Reader |-> NoRow]
  /\ chk = [c \in Checker |-> [pc |-> "done", row |-> NoRow, result |-> TRUE]]
  /\ clock = 0

SlotState == <<content, valid, gen, live, created, bound, clock>>
Threads   == <<pins, want, chk>>

-----------------------------------------------------------------------------
(* LeasedSlot::Acquire *)

spilling == idle.pc \in {"spill", "copying"}

\* Acquire with a live location: the generation still matches and the frontier
\* was committed.  Any other location throws and changes nothing.
AcquireLive ==
  /\ ~Leased /\ live /\ gen < MaxGen
  /\ fg' = [Idle("drain") EXCEPT !.why = "live"]
  /\ UNCHANGED <<SlotState, row, stop, idle, Threads>>

\* Mutant: the old frontier is given up before its ranges are preserved.
AcquireColdEagerly ==
  /\ ~Leased /\ gen + 1 < MaxGen
  /\ fg' = [Idle("drain") EXCEPT !.why = "cold"]
  /\ live' = FALSE
  /\ UNCHANGED <<content, valid, gen, created, bound, clock, row, stop, idle, Threads>>

\* Acquire without a location: cold reassignment.
AcquireCold ==
  /\ ~Leased /\ gen + 1 < MaxGen
  /\ fg' = [Idle("drain") EXCEPT !.why = "cold"]
  /\ UNCHANGED <<SlotState, row, stop, idle, Threads>>

RequestStop ==
  /\ Leased /\ ~stop
  /\ stop' = TRUE
  /\ UNCHANGED <<SlotState, row, fg, idle, Threads>>

\* Mutant: the lease does not wait for the idle piece.
ClaimedEarly ==
  /\ fg.pc = "drain" /\ ~stop
  /\ fg' = IF fg.why = "live" THEN Idle("exec")
           ELSE [Idle("reassign") EXCEPT !.todo = Registered]
  /\ UNCHANGED <<SlotState, row, stop, idle, Threads>>

\* The wait for the running idle piece ends.
Claimed ==
  /\ fg.pc = "drain" /\ ~stop /\ ~spilling
  /\ fg' = IF fg.why = "live" THEN Idle("exec")
           ELSE [Idle("reassign") EXCEPT !.todo = Registered]
  /\ UNCHANGED <<SlotState, row, stop, idle, Threads>>

AcquireCancelled ==
  /\ fg.pc = "drain" /\ stop
  /\ fg' = Idle("free") /\ stop' = FALSE
  /\ UNCHANGED <<SlotState, row, idle, Threads>>

-----------------------------------------------------------------------------
(* Preserve and CopyPiece, for the range fg.cur *)

\* A range PrepareBatchedReassignment submits without waiting for it.
Batchable(r) == /\ BatchSize > 1 /\ row[r].backed /\ ~Complete(r)
                /\ Remaining(r) <= PieceRows

\* Preserve begins on one of the registrations still to visit.
PreserveBegin(r) ==
  /\ fg.pc \in {"reassign", "overwrite", "release"}
  /\ fg.stage = None /\ r \in fg.todo /\ fg.batch = {} /\ fg.await = {}
  /\ fg.pc = "reassign" /\ BatchSize > 1 => ~stop /\ ~Batchable(r)
  /\ LET waits == Complete(r) \/ ~row[r].backed
     IN /\ row' = [row EXCEPT
             ![r].retired = @ \/ ~row[r].backed,
             ![r].closing = row[r].backed /\ ~Complete(r)]
        /\ fg' = [fg EXCEPT !.cur = r, !.todo = @ \ {r},
                            !.stage = IF waits THEN "readers" ELSE "copy"]
  /\ UNCHANGED <<SlotState, stop, idle, Threads>>

CopyStart ==
  /\ fg.stage = "copy" /\ (stop => Releasing)
  /\ row' = [row EXCEPT ![fg.cur].readers = @ + 1]
  /\ fg' = [fg EXCEPT !.stage = "copying"]
  /\ UNCHANGED <<SlotState, stop, idle, Threads>>

\* The piece arrived.  A cancelled guard keeps the piece and throws; the last
\* piece publishes the range.
CopyDone ==
  /\ fg.stage = "copying" /\ (stop => Releasing)
  /\ LET r == fg.cur
         s == Copied(r, PieceOf(r))
     IN /\ row' = [row EXCEPT ![r] = Unread(IF Full(s) THEN Published(s) ELSE s)]
        /\ fg' = [fg EXCEPT !.stage = IF Full(s) THEN "readers" ELSE "copy"]
  /\ UNCHANGED <<SlotState, stop, idle, Threads>>

\* Cancellation seen by CheckStop before or after a piece.
CopyCancelled ==
  /\ fg.stage \in {"copy", "copying"} /\ stop /\ ~Releasing
  /\ LET r == fg.cur
     IN row' = [row EXCEPT ![r] =
          [(IF fg.stage = "copying" THEN Unread(Copied(r, PieceOf(r))) ELSE @)
             EXCEPT !.closing = FALSE]]
  /\ fg' = Refused /\ StopAfterRefusal
  /\ UNCHANGED <<SlotState, idle, Threads>>

\* The copy failed.  A release cannot refuse, so it retires the range.
CopyFailed ==
  /\ fg.stage = "copying"
  /\ LET s == row[fg.cur]
     IN row' = [row EXCEPT ![fg.cur] =
          [Unread(s) EXCEPT !.closing = FALSE, !.retired = s.retired \/ Releasing,
                            !.lost = s.lost \/ Releasing]]
  /\ IF Releasing
     THEN fg' = [fg EXCEPT !.stage = "readers"] /\ UNCHANGED stop
     ELSE fg' = Refused /\ StopAfterRefusal
  /\ UNCHANGED <<SlotState, idle, Threads>>

\* Mutant: the guard returns while readers still look at the slot.
ReadersNotAwaited ==
  /\ fg.stage = "readers"
  /\ fg' = [fg EXCEPT !.stage = None, !.cur = NoRow]
  /\ UNCHANGED <<SlotState, row, stop, idle, Threads>>

\* Readers admitted before publication still look at the slot.
ReadersGone ==
  /\ fg.stage = "readers" /\ row[fg.cur].readers = 0
  /\ fg' = [fg EXCEPT !.stage = None, !.cur = NoRow]
  /\ UNCHANGED <<SlotState, row, stop, idle, Threads>>

ReadersCancelled ==
  /\ fg.stage = "readers" /\ row[fg.cur].readers > 0 /\ stop /\ ~Releasing
  /\ fg' = Refused /\ StopAfterRefusal
  /\ UNCHANGED <<SlotState, row, idle, Threads>>

-----------------------------------------------------------------------------
(* PrepareReassignment and PrepareBatchedReassignment *)

BatchSubmit(r) ==
  /\ fg.pc = "reassign" /\ fg.stage = None /\ r \in fg.todo /\ fg.await = {}
  /\ ~stop /\ Batchable(r) /\ Cardinality(fg.batch) < BatchSize
  /\ row' = [row EXCEPT ![r].readers = @ + 1, ![r].closing = TRUE]
  /\ fg' = [fg EXCEPT !.todo = @ \ {r}, !.batch = @ \cup {r}]
  /\ UNCHANGED <<SlotState, stop, idle, Threads>>

\* Mutant: a failed copy of the batch leaves its range closed.
BatchSettledClosed(ok) ==
  [r \in Row |->
     IF r \notin fg.batch THEN row[r]
     ELSE IF r \in ok THEN Unread(Published(Copied(r, Remaining(r))))
     ELSE Unread(row[r])]

\* Mutant: a failed copy of the batch keeps its source pin.
BatchSettledPinned(ok) ==
  [r \in Row |->
     IF r \notin fg.batch THEN row[r]
     ELSE IF r \in ok THEN Unread(Published(Copied(r, Remaining(r))))
     ELSE [row[r] EXCEPT !.closing = FALSE]]

\* What the copies of the batch leave behind when those in ok succeeded: a
\* destroyed Copy drops its source pin and reopens the range.
BatchSettled(ok) ==
  [r \in Row |->
     IF r \notin fg.batch THEN row[r]
     ELSE IF r \in ok THEN Unread(Published(Copied(r, Remaining(r))))
     ELSE [Unread(row[r]) EXCEPT !.closing = FALSE]]

\* finish: every range of the batch is published before any reader is awaited.
\* It runs before the next submission when no stream is free, and at the end.
BatchFinish ==
  /\ fg.pc = "reassign" /\ fg.batch # {}
  /\ row' = BatchSettled(fg.batch)
  /\ fg' = [fg EXCEPT !.batch = {}, !.await = fg.batch]
  /\ UNCHANGED <<SlotState, stop, idle, Threads>>

\* One copy fails: those finished before it stay published, the acquisition throws.
BatchFailed(ok) ==
  /\ fg.pc = "reassign" /\ ok \subseteq fg.batch /\ ok # fg.batch
  /\ row' = BatchSettled(ok)
  /\ fg' = Refused /\ StopAfterRefusal
  /\ UNCHANGED <<SlotState, idle, Threads>>

BatchAwaited(r) ==
  /\ fg.pc = "reassign" /\ r \in fg.await /\ row[r].readers = 0
  /\ fg' = [fg EXCEPT !.await = @ \ {r}]
  /\ UNCHANGED <<SlotState, row, stop, idle, Threads>>

\* Every registration has been visited.
Visited == fg.todo = {} /\ fg.batch = {} /\ fg.await = {}

\* CheckStop before the first range, between two ranges (batched), in a reader
\* wait, or after the bound was cleared at the end.
ReassignCancelled ==
  /\ fg.pc = "reassign" /\ fg.stage = None /\ stop
  /\ IF fg.await # {} THEN \E r \in fg.await : row[r].readers > 0
                       ELSE BatchSize > 1 \/ fg.todo \in {{}, Registered}
  /\ row' = BatchSettled({})
  /\ bound' = IF Visited THEN 0 ELSE bound
  /\ fg' = Refused /\ StopAfterRefusal
  /\ UNCHANGED <<content, valid, gen, live, created, clock, idle, Threads>>

\* Every registration is preserved: the old frontier may go.
Reassigned ==
  /\ fg.pc = "reassign" /\ fg.stage = None /\ Visited /\ ~stop
  /\ bound' = 0
  /\ live' = FALSE
  /\ fg' = [Idle("release") EXCEPT !.why = "cold"]
  /\ UNCHANGED <<content, valid, gen, created, clock, row, stop, idle, Threads>>

-----------------------------------------------------------------------------
(* LeaseState::Invalidate, SlotLease::Reset and the end of a release *)

\* The adapter has released every row: the slot is empty and its generation
\* moves on.  A busy slot is destroyed instead of emptied.
ReleaseEnd(destroyed) ==
  /\ fg.pc = "release" /\ fg.stage = None /\ fg.todo = {}
  /\ destroyed => created /\ fg.why # "reset"
  /\ valid' = 0 /\ live' = FALSE
  /\ content' = [i \in Position |-> 0]
  /\ gen' = IF created THEN gen + 1 ELSE gen
  /\ created' = (created /\ ~destroyed)
  /\ fg' = IF fg.why = "drop" THEN Idle("free")
           ELSE IF created' THEN Idle("exec") ELSE Idle("create")
  /\ IF fg.why = "drop"
     THEN idle' = [idle EXCEPT !.failed = FALSE, !.pending = TRUE] /\ stop' = FALSE
     ELSE UNCHANGED <<idle, stop>>
  /\ UNCHANGED <<bound, clock, row, Threads>>

\* CreateSlot after a destroyed slot; a failure gives the lease back.
CreateSlot(ok) ==
  /\ fg.pc = "create"
  /\ created' = ok
  /\ fg' = IF ok THEN Idle("exec") ELSE Idle("free")
  /\ IF ok THEN UNCHANGED stop ELSE stop' = FALSE
  /\ UNCHANGED <<content, valid, gen, live, bound, clock, row, idle, Threads>>

\* SlotLease::Reset: Invalidate empties the slot before live is cleared.
Reset ==
  /\ fg.pc = "exec" /\ ~stop /\ gen + 1 < MaxGen
  /\ BeginRelease("reset")
  /\ UNCHANGED <<SlotState, row, stop, idle, Threads>>

-----------------------------------------------------------------------------
(* Execution under the lease *)

\* The adapter announces a write of lo..hi, which leaves next valid rows.
BeforeOverwrite(lo, hi, next) ==
  /\ fg.pc = "exec" /\ ~stop /\ clock < MaxWrites
  /\ fg' = [Idle("overwrite") EXCEPT !.todo = Guarded(lo, hi), !.lo = lo, !.hi = hi,
                                     !.next = next]
  /\ UNCHANGED <<SlotState, row, stop, idle, Threads>>

\* Rows are appended or rewritten in place (BeforeWrite of the adapters).
BeforeWrite ==
  \E lo \in Position, hi \in Position :
    /\ lo <= hi /\ lo <= valid + 1
    /\ BeforeOverwrite(lo, hi, IF hi > valid THEN hi ELSE valid)

\* A restore replaces the whole frontier (BeginRestore, GuardAll).
BeginRestore == \E target \in 0..MaxRows : BeforeOverwrite(1, MaxRows, target)

\* The guard returned: the adapter writes.
Write ==
  /\ fg.pc = "overwrite" /\ fg.stage = None /\ fg.todo = {} /\ ~stop
  /\ clock' = clock + 1
  /\ content' = [i \in Position |-> IF i \in fg.lo..fg.hi THEN clock + 1 ELSE content[i]]
  /\ valid' = fg.next
  /\ fg' = Idle("exec")
  /\ UNCHANGED <<gen, live, created, bound, row, stop, idle, Threads>>

OverwriteCancelled ==
  /\ fg.pc = "overwrite" /\ fg.stage = None /\ fg.todo = {} /\ stop
  /\ fg' = Idle("exec")
  /\ UNCHANGED <<SlotState, row, stop, idle, Threads>>

\* SlotLease::Borrow (backed) and SlotLease::Observe (not backed).
Capture(r, first, end, backed) ==
  /\ fg.pc = "exec" /\ ~stop
  /\ ~row[r].borrowed /\ first <= end /\ end <= valid
  /\ row' = [row EXCEPT ![r] =
       [Unborrowed EXCEPT !.borrowed = TRUE, !.held = TRUE, !.backed = backed,
          !.first = first, !.end = end, !.gen = gen,
          !.data = [i \in Position |-> IF i \in first..end THEN content[i] ELSE 0]]]
  /\ bound' = IF end > bound THEN end ELSE bound
  /\ UNCHANGED <<content, valid, gen, live, created, clock, fg, stop, idle, Threads>>

\* SlotLease::Commit keeps the frontier for a later live acquisition and goes
\* on to Release, which looks at the stop token again.
Commit ==
  /\ fg.pc = "exec" /\ ~stop
  /\ live' = TRUE
  /\ fg' = Idle("committed")
  /\ UNCHANGED <<content, valid, gen, created, bound, clock, row, stop, idle, Threads>>

\* SlotLease::Release of a committed lease that was not cancelled meanwhile.
ReleaseCommitted ==
  /\ fg.pc = "committed" /\ ~stop
  /\ fg' = Idle("free")
  /\ idle' = [idle EXCEPT !.failed = FALSE, !.pending = TRUE]
  /\ UNCHANGED <<SlotState, row, stop, Threads>>

\* SlotLease::Release of an uncommitted or cancelled lease: Invalidate.
ReleaseDropped(pc) ==
  /\ fg.pc = pc /\ (pc = "committed" => stop)
  /\ live' = FALSE
  /\ BeginRelease("drop")
  /\ UNCHANGED <<content, valid, gen, created, bound, clock, row, stop, idle, Threads>>

-----------------------------------------------------------------------------
(* The idle worker: RunIdle and CopyPiece for it *)

IdleCandidates == {r \in Registered : row[r].backed /\ ~Complete(r)}

IdlePick(r) ==
  /\ idle.pc = "wait" /\ ~Leased /\ live /\ idle.pending /\ ~idle.failed
  /\ r \in IdleCandidates
  /\ idle' = [idle EXCEPT !.pc = "spill", !.cur = r]
  /\ UNCHANGED <<SlotState, row, fg, stop, Threads>>

IdleExhausted ==
  /\ idle.pc = "wait" /\ ~Leased /\ live /\ idle.pending /\ ~idle.failed
  /\ IdleCandidates = {}
  /\ idle' = [idle EXCEPT !.pending = FALSE]
  /\ UNCHANGED <<SlotState, row, fg, stop, Threads>>

\* The device is busy or no stream is free: try again later.
IdleDefer ==
  /\ idle.pc = "spill"
  /\ idle' = [idle EXCEPT !.pc = "wait", !.cur = NoRow]
  /\ UNCHANGED <<SlotState, row, fg, stop, Threads>>

IdleCopyStart ==
  /\ idle.pc = "spill"
  /\ row' = [row EXCEPT ![idle.cur].readers = @ + 1]
  /\ idle' = [idle EXCEPT !.pc = "copying"]
  /\ UNCHANGED <<SlotState, fg, stop, Threads>>

IdleCopyDone ==
  /\ idle.pc = "copying"
  /\ LET r == idle.cur
         s == Copied(r, PieceOf(r))
     IN row' = [row EXCEPT ![r] = Unread(IF Full(s) THEN Published(s) ELSE s)]
  /\ idle' = [idle EXCEPT !.pc = "wait", !.cur = NoRow, !.failed = FALSE]
  /\ UNCHANGED <<SlotState, fg, stop, Threads>>

IdleCopyFailed ==
  /\ idle.pc = "copying"
  /\ row' = [row EXCEPT ![idle.cur] = [Unread(@) EXCEPT !.idleFailed = TRUE]]
  /\ idle' = [idle EXCEPT !.pc = "wait", !.cur = NoRow, !.failed = TRUE]
  /\ UNCHANGED <<SlotState, fg, stop, Threads>>

\* LeasedSlot::StopIdleSpill: the worker ends at a piece boundary.
StopIdleSpill ==
  /\ idle.pc = "wait"
  /\ idle' = [idle EXCEPT !.pc = "stopped"]
  /\ UNCHANGED <<SlotState, row, fg, stop, Threads>>

-----------------------------------------------------------------------------
(* Readers: BorrowedRows::Pin and RowPin::Release *)

PinCall(p, r) ==
  /\ want[p] = NoRow /\ row[r].held /\ r \notin pins[p]
  /\ want' = [want EXCEPT ![p] = r]
  /\ UNCHANGED <<SlotState, row, fg, stop, idle, pins, chk>>

\* The range is still in the slot: a source pin, counted in readers.
PinSource(p) ==
  /\ want[p] # NoRow /\ ~row[want[p]].closing /\ ~Complete(want[p])
  /\ row' = [row EXCEPT ![want[p]].readers = @ + 1]
  /\ pins' = [pins EXCEPT ![p] = @ \cup {want[p]}]
  /\ want' = [want EXCEPT ![p] = NoRow]
  /\ UNCHANGED <<SlotState, fg, stop, idle, chk>>

\* The range is in backing (read there, no source pin) or was retired (throws).
PinSettled(p) ==
  /\ want[p] # NoRow /\ ~row[want[p]].closing /\ Complete(want[p])
  /\ want' = [want EXCEPT ![p] = NoRow]
  /\ UNCHANGED <<SlotState, row, fg, stop, idle, pins, chk>>

\* A blocked reader is cancelled by its own stop token.
PinCancelled(p) ==
  /\ want[p] # NoRow
  /\ want' = [want EXCEPT ![p] = NoRow]
  /\ UNCHANGED <<SlotState, row, fg, stop, idle, pins, chk>>

Unpin(p, r) ==
  /\ want[p] = NoRow /\ r \in pins[p]
  /\ row' = [row EXCEPT ![r] = Unread(@)]
  /\ pins' = [pins EXCEPT ![p] = @ \ {r}]
  /\ UNCHANGED <<SlotState, fg, stop, idle, want, chk>>

\* The checkpoint drops its handle on the range.
DropRows(r) ==
  /\ row[r].held
  /\ row' = [row EXCEPT ![r].held = FALSE]
  /\ UNCHANGED <<SlotState, fg, stop, idle, Threads>>

\* The last reference to the RowState is gone: the weak registration expires.
Expire(r) ==
  /\ row[r].borrowed /\ ~row[r].held /\ row[r].readers = 0
  /\ \A p \in Reader : want[p] # r
  /\ \A c \in Checker : chk[c].row # r
  /\ r # fg.cur /\ r \notin fg.await /\ r # idle.cur
  /\ row' = [row EXCEPT ![r] = Unborrowed]
  /\ fg' = [fg EXCEPT !.todo = @ \ {r}]
  /\ UNCHANGED <<SlotState, stop, idle, Threads>>

-----------------------------------------------------------------------------
(* BorrowedRows::IsValid: three atomic loads without a lock *)

IsValidCall(c, r) ==
  /\ chk[c].pc = "done" /\ row[r].held
  /\ chk' = [chk EXCEPT ![c] = IF Complete(r)
                THEN [pc |-> "returned", row |-> r, result |-> ~row[r].retired]
                ELSE [pc |-> "generation", row |-> r, result |-> TRUE]]
  /\ UNCHANGED <<SlotState, row, fg, stop, idle, pins, want>>

\* Mutant: a changed generation is a verdict.
IsValidGenerationOnly(c) ==
  /\ chk[c].pc = "generation"
  /\ chk' = [chk EXCEPT ![c].pc = "returned", ![c].result = row[chk[c].row].gen = gen]
  /\ UNCHANGED <<SlotState, row, fg, stop, idle, pins, want>>

IsValidGeneration(c) ==
  /\ chk[c].pc = "generation"
  /\ chk' = [chk EXCEPT ![c].pc = IF row[chk[c].row].gen = gen THEN "returned"
                                                                ELSE "recheck"]
  /\ UNCHANGED <<SlotState, row, fg, stop, idle, pins, want>>

IsValidRecheck(c) ==
  /\ chk[c].pc = "recheck"
  /\ chk' = [chk EXCEPT ![c].pc = "returned",
       ![c].result = row[chk[c].row].materialized /\ ~row[chk[c].row].retired]
  /\ UNCHANGED <<SlotState, row, fg, stop, idle, pins, want>>

IsValidReturn(c) ==
  /\ chk[c].pc = "returned"
  /\ chk' = [chk EXCEPT ![c] = [pc |-> "done", row |-> NoRow, result |-> TRUE]]
  /\ UNCHANGED <<SlotState, row, fg, stop, idle, pins, want>>

-----------------------------------------------------------------------------
(* The specification *)

Acquire == AcquireLive \/ AcquireCold

PreserveStep ==
  \/ \E r \in Row : PreserveBegin(r)
  \/ CopyStart \/ CopyDone \/ CopyCancelled \/ CopyFailed
  \/ ReadersGone \/ ReadersCancelled

ReassignStep ==
  \/ \E r \in Row : BatchSubmit(r)
  \/ BatchFinish
  \/ \E ok \in SUBSET Row : BatchFailed(ok)
  \/ \E r \in Row : BatchAwaited(r)
  \/ ReassignCancelled \/ Reassigned

\* The steps that bring a thread inside Acquire, a guard or Release to its end.
Foreground ==
  \/ Claimed \/ AcquireCancelled
  \/ PreserveStep \/ ReassignStep
  \/ \E d \in BOOLEAN : ReleaseEnd(d)
  \/ \E ok \in BOOLEAN : CreateSlot(ok)
  \/ Write \/ OverwriteCancelled
  \/ ReleaseCommitted \/ ReleaseDropped("committed")

\* What the request that holds the lease decides to do.
Execution ==
  \/ Reset \/ BeforeWrite \/ BeginRestore \/ Commit \/ ReleaseDropped("exec")
  \/ \E r \in Row, i, j \in Position, b \in BOOLEAN : Capture(r, i, j, b)

IdleWorker ==
  \/ \E r \in Row : IdlePick(r)
  \/ IdleExhausted \/ IdleDefer \/ IdleCopyStart \/ IdleCopyDone \/ IdleCopyFailed
  \/ StopIdleSpill

Readers ==
  \/ \E p \in Reader, r \in Row : PinCall(p, r) \/ Unpin(p, r)
  \/ \E p \in Reader : PinSource(p) \/ PinSettled(p) \/ PinCancelled(p)

References == \E r \in Row : DropRows(r) \/ Expire(r)

IsValid ==
  \/ \E c \in Checker, r \in Row : IsValidCall(c, r)
  \/ \E c \in Checker : IsValidGeneration(c) \/ IsValidRecheck(c) \/ IsValidReturn(c)

Next == \/ Acquire \/ RequestStop \/ Foreground \/ Execution
        \/ IdleWorker \/ Readers \/ References \/ IsValid

\* Threads inside the slot's code keep running, submitted transfers settle
\* (CompletionSignal::Wait must settle) and a reader that is not blocked
\* finishes its transfer and drops its pin, whatever else it pins meanwhile.
\* Requests decide freely.
Fairness ==
  /\ WF_vars(Foreground)
  /\ WF_vars(IdleDefer \/ IdleCopyStart \/ IdleCopyDone \/ IdleCopyFailed)
  /\ \A p \in Reader : /\ WF_vars(PinSource(p) \/ PinSettled(p))
                       /\ \A r \in Row : SF_vars(Unpin(p, r))

Spec == Init /\ [][Next]_vars
FairSpec == Spec /\ Fairness

-----------------------------------------------------------------------------
(* Properties *)

RowState ==
  [borrowed : BOOLEAN, held : BOOLEAN, backed : BOOLEAN, first : Position,
   end : 0..MaxRows, gen : 0..MaxGen, copied : 0..MaxRows, materialized : BOOLEAN,
   retired : BOOLEAN, closing : BOOLEAN, idleFailed : BOOLEAN, readers : Nat,
   lost : BOOLEAN, data : [Position -> Version], got : [Position -> Version]]

\* Every variable has its type.
TypeOK ==
  /\ content \in [Position -> Version] /\ valid \in 0..MaxRows
  /\ gen \in 1..MaxGen /\ live \in BOOLEAN /\ created \in BOOLEAN
  /\ bound \in 0..MaxRows /\ row \in [Row -> RowState]
  /\ fg \in [pc : {"free", "drain", "reassign", "release", "create", "exec",
                  "overwrite", "committed"},
             why : {None, "live", "cold", "reset", "drop"},
             stage : {None, "copy", "copying", "readers"},
             cur : Row \cup {NoRow}, todo : SUBSET Row, batch : SUBSET Row,
             await : SUBSET Row, lo : Position, hi : 0..MaxRows, next : 0..MaxRows]
  /\ stop \in BOOLEAN
  /\ idle \in [pc : {"wait", "spill", "copying", "stopped"}, cur : Row \cup {NoRow},
               pending : BOOLEAN, failed : BOOLEAN]
  /\ pins \in [Reader -> SUBSET Row] /\ want \in [Reader -> Row \cup {NoRow}]
  /\ chk \in [Checker -> [pc : {"done", "generation", "recheck", "returned"},
                          row : Row \cup {NoRow}, result : BOOLEAN]]
  /\ clock \in Version

Same(f, g, r) == \A i \in RowsOf(r) : f[i] = g[i]

\* A range that is neither preserved nor retired can still be read in the
\* slot: the generation is the one it was captured in (the assert of Pin and
\* the checks of CopyPiece) and every row holds what was captured.
SourceIntact ==
  \A r \in Registered : ~Complete(r) =>
    /\ row[r].gen = gen /\ created /\ row[r].end <= valid
    /\ Same(content, row[r].data, r)

\* A reader with a source pin, admitted before the range was preserved or
\* retired, sees the captured rows for as long as it holds the pin.
PinnedReadsExact ==
  \A p \in Reader : \A r \in pins[p] :
    row[r].borrowed /\ row[r].gen = gen /\ Same(content, row[r].data, r)

\* Preserved backing is the captured range, however many pieces, threads,
\* failures and retries it took; and a range with backing is lost only by a
\* failed copy in a release that cannot refuse, never by cancellation,
\* reassignment or an idle failure.
BackingExact ==
  /\ TypeOK
  /\ \A r \in Registered : row[r].materialized =>
       row[r].copied = Count(r) /\ Same(row[r].got, row[r].data, r)
  /\ \A r \in Registered : row[r].retired /\ row[r].backed => row[r].lost

\* The reader count that overwrites wait for is exactly the pins and copies
\* outstanding: no exception path leaks or drops one.
ReadersCounted ==
  \A r \in Row : row[r].readers =
      Cardinality({p \in Reader : r \in pins[p]})
    + (IF r \in fg.batch \/ (fg.cur = r /\ fg.stage = "copying") THEN 1 ELSE 0)
    + (IF idle.cur = r /\ idle.pc = "copying" THEN 1 ELSE 0)

\* A range is closed to new readers only while a thread is in the middle of
\* preserving it: a reader is never locked out by a guard that gave up.
ClosedOnlyWhilePreserving ==
  \A r \in Registered : row[r].closing =>
    r \in fg.batch \/ (fg.cur = r /\ fg.stage \in {"copy", "copying"})

\* The lock-free validity check never rejects a preserved range, although
\* preservation and a reset may run between its loads.
NoFalseRejection ==
  \A c \in Checker : chk[c].pc = "returned" /\ ~chk[c].result =>
    row[chk[c].row].retired

\* Nothing overwrites, empties or destroys rows that a source pin or a running
\* copy is reading.
NoWriteUnderReader ==
  [][\A r \in Row : row[r].readers > 0 =>
       gen' = gen /\ \A i \in RowsOf(r) : content'[i] = content[i]]_vars

\* The old frontier is given up only by an acquisition that has preserved every
\* range: until then nothing changes, so one that is refused or cancelled leaves
\* the same rows in the same generation to a later live acquisition.
RefusalKeepsFrontier ==
  [][fg.pc \in {"free", "drain", "reassign"} /\ fg'.pc \in {"free", "drain", "reassign"} =>
       UNCHANGED <<content, valid, gen, live, created>>]_vars

\* Every acquisition, guard and release comes to an end: readers that hold one
\* range while they wait for another cannot block it for ever.
ForegroundEnds ==
  fg.pc \notin {"free", "exec"} ~> fg.pc \in {"free", "exec"}

=============================================================================
