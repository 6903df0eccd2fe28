------------------------------ MODULE Scheduler ------------------------------
(***************************************************************************)
(* The text generation scheduler (src/cli/serve/text_generation_scheduler):  *)
(* one worker thread admits queued requests, runs their prefill chunks and *)
(* decode batches and publishes their output; HTTP threads submit requests *)
(* and consume their streams; a monitor thread declares the device lost    *)
(* when the worker makes no progress.                                      *)
(*                                                                         *)
(* Prompts are counted in units of prefill_policy.decode_active_tokens, a  *)
(* token is its position in the request's output, and the text of a piece  *)
(* is the sequence of the tokens it spells.  A call into the runner takes  *)
(* place in the step that follows the program counter naming it, so every  *)
(* other thread can act while the call is under way.                       *)
(***************************************************************************)
EXTENDS Integers, Sequences, FiniteSets, SequencesExt, FiniteSetsExt

CONSTANTS
  Req,            \* requests
  Clients,        \* Req -> client_id
  Prompt,         \* Req -> prompt units
  Common,         \* Req -> [Req -> units of the prompt both share]
  TokenLimit,     \* Req -> token_limit
  EosChoices,     \* the positions of the stop token: a set of [Req -> Nat]
  Streamed,       \* requests with publish_token_pieces
  CachePrompt,    \* requests with cache_prompt
  Deadlined,      \* requests with a deadline
  Impatient,      \* requests whose client may leave or refuse a piece
  MaxPending,     \* max_pending_requests
  MaxPerClient,   \* max_pending_requests_per_client
  MaxBuffered,    \* max_buffered_output_bytes_per_request
  MaxTotal,       \* max_buffered_output_bytes_total
  Modes,          \* what the runner pool offers: see the variable mode
  MaxDraft,       \* tokens a multi-token step returns at most
  WaitTicks,      \* publication_wait_limit in monitor wake-ups
  Faults          \* which failures happen: subset of {"error", "lost", "hang"}

NoReq == "no request"

ASSUME SchedulerAssumption ==
  /\ IsFiniteSet(Req) /\ NoReq \notin Req
  /\ Prompt \in [Req -> Nat] /\ Common \in [Req -> [Req -> Nat]]
  /\ TokenLimit \in [Req -> Nat \ {0}]
  /\ EosChoices \subseteq [Req -> Nat]
  /\ \A m \in Modes :
       /\ m.capacity \in Nat \ {0} /\ m.width \in Nat \ {0}
       /\ m.output \in Nat /\ m.filtered \subseteq Req
       /\ {m.multi, m.batched, m.final} \subseteq BOOLEAN
       /\ m.commit \in [Req -> {"done", "error", "lost"}] /\ m.stall \in Nat
  /\ MaxPending \in Nat \ {0}
  /\ MaxPerClient \in 1 .. MaxPending
  /\ MaxBuffered \in Nat \ {0} /\ MaxTotal \in Nat \ {0}
  /\ WaitTicks \in Nat /\ MaxDraft \in Nat

VARIABLES
  mode,        \* the runner pool: its capacity, multi_token_decode (multi),
               \* batched_multi_token_decode (batched), final_token_advance
               \* (final), its widest plan (width), the requests with stop
               \* sequences (filtered), max_output_bytes (output), how the
               \* Commit of each request ends (commit), and stall_timeout in
               \* monitor wake-ups, 0 without a monitor (stall)
  eos,         \* where each request's stop token is, fixed by the model
  req,         \* the ScheduledRequest of each request
  budget,      \* OutputBudget::buffered_bytes
  clients,     \* queued_clients: sequence of [id, requests]
  lists,       \* the worker's deques: prefilling, decoding, capturing, waiting
  work,        \* the worker's program counter and the batch it holds
  streak,      \* consecutive_active_prefill_chunks
  lastPrefill, \* last_prefill_request_id
  lost,        \* device_lost: "no", "probe" or "stall"
  stopping,    \* stopping and the worker's stop token
  watch,       \* what the stall monitor last saw of progress, and stalled;
               \* loop_working is false only at the program counter "idle"
  skipped      \* prefill chunks run since a resident decoder last had a turn

vars == <<mode, eos, req, budget, clients, lists, work, streak, lastPrefill,
          lost, stopping, watch, skipped>>

-----------------------------------------------------------------------------
(* State.                                                                  *)

FreshRequest ==
  [ handle |-> "none",      \* Request::Impl: "none", "held", "dropped", "gone"
    out |-> "none",         \* the terminal outcome
    cancel |-> FALSE, expired |-> FALSE,
    counted |-> FALSE, session |-> 0,
    lease |-> "none",       \* runner_request: "none", "held", "returned", "kept"
    pos |-> 0,              \* prefill_position
    capture |-> "idle",     \* snapshot_future: "running", or "idle": none or ready
    tried |-> FALSE,        \* prompt_snapshot_attempted
    adv |-> 0,              \* tokens the runner's state holds
    selected |-> FALSE,     \* the runner's pending_selection
    tokens |-> <<>>,        \* result.tokens
    due |-> FALSE, preview |-> FALSE, previewStops |-> FALSE,
    advancing |-> FALSE,    \* advance_pending
    pieces |-> <<>>, buffered |-> 0,
    held |-> <<>>,          \* text the stop filter withholds
    matched |-> FALSE,      \* stop_filter.stopped()
    delivered |-> <<>>, listening |-> TRUE,
    leader |-> NoReq, leadPos |-> 0, considered |-> FALSE,
    pub |-> "no", age |-> 0 ]  \* publication wait: "no", "waiting", "over"

Idle == [pc |-> "top", batch |-> <<>>, todo |-> <<>>, ready |-> <<>>,
         step |-> [r \in Req |-> [kind |-> "none"]], decoding |-> FALSE,
         peer |-> FALSE, multi |-> FALSE]

Init ==
  /\ mode \in Modes
  /\ eos \in EosChoices
  /\ req = [r \in Req |-> FreshRequest]
  /\ budget = 0
  /\ clients = <<>>
  /\ lists = [prefilling |-> <<>>, decoding |-> <<>>, capturing |-> <<>>,
              waiting |-> <<>>]
  /\ work = Idle
  /\ streak = 0
  /\ lastPrefill = NoReq
  /\ lost = "no"
  /\ stopping = FALSE
  /\ watch = [seen |-> "nothing", stalled |-> 0]
  /\ skipped = [r \in Req |-> 0]

Queued == UNION {ToSet(clients[i].requests) : i \in DOMAIN clients}
QueuedCount == Cardinality(Queued)
IsTerminal(w, r) == w.req[r].out # "none"
Cost(text) == IF text = <<>> THEN 1 ELSE Len(text)
Flat(pieces) == FoldLeft(LAMBDA a, b : a \o b, <<>>, pieces)
PrefillComplete(q, r) == q.pos = Prompt[r]

(* What a handler of the worker reads and changes besides its own lists.   *)
World == [req |-> req, budget |-> budget, lost |-> lost]

-----------------------------------------------------------------------------
(* Completion.                                                             *)

(* What is still read of a request after its end: the fields its consumer, *)
(* its destructor and the properties use.                                  *)
Ended(q) == [FreshRequest EXCEPT
  !.handle = q.handle, !.out = q.out, !.lease = q.lease, !.tokens = q.tokens,
  !.pieces = q.pieces, !.buffered = q.buffered, !.delivered = q.delivered,
  !.listening = q.listening]

(* Mutant: the discarded pieces go, what they held of the budget stays.    *)
PublishTerminalKeepsBudget(w, r, out, discard) ==
  LET q == w.req[r] IN
    [w EXCEPT !.req[r] = Ended([q EXCEPT
                !.out = out,
                !.pieces = IF discard THEN <<>> ELSE q.pieces,
                !.buffered = IF discard THEN 0 ELSE q.buffered])]

(* Ends the request and gives up its session.                              *)
PublishTerminal(w, r, out, discard) ==
  LET q == w.req[r]
      freed == IF discard THEN q.buffered ELSE 0 IN
    [w EXCEPT !.budget = @ - freed,
              !.req[r] = Ended([q EXCEPT !.out = out,
                                         !.pieces = IF discard THEN <<>> ELSE q.pieces,
                                         !.buffered = q.buffered - freed])]

EndPublicationWait(w, r) ==
  [w EXCEPT !.req[r].pub = IF @ = "waiting" THEN "over" ELSE @]

(* Mutant: the lease goes back to the pool whether the device lives or not.*)
ReturnLeaseAlways(w, r) ==
  [w EXCEPT !.req[r].lease = IF @ = "held" THEN "returned" ELSE @]

(* Returns the runner's lease, unless the device is lost: then the lease   *)
(* is kept until the process exits.  Cancel and Invalidate first wait for  *)
(* a capture of the request that still runs: see CapturesJoined.           *)
ReturnLease(w, r) ==
  [w EXCEPT !.req[r].lease = CASE @ # "held" -> @
                               [] @ = "held" /\ w.lost # "no" -> "kept"
                               [] OTHER -> "returned"]

CompleteFailure(w, r, out) ==
  LET v == EndPublicationWait(w, r) IN
    IF IsTerminal(v, r) THEN v
    ELSE PublishTerminal(ReturnLease(v, r), r,
                         IF v.lost # "no" THEN "lost" ELSE out, TRUE)

CompleteCancelled(w, r) ==
  IF w.lost # "no" THEN CompleteFailure(w, r, "lost")
  ELSE PublishTerminal(ReturnLease(EndPublicationWait(w, r), r), r, "cancelled", TRUE)

Stopped(w, r) ==
  \/ IsTerminal(w, r)
  \/ w.lost # "no"
  \/ w.req[r].expired
  \/ w.req[r].cancel

CompleteIfStopped(w, r) ==
  CASE IsTerminal(w, r) -> w
    [] ~IsTerminal(w, r) /\ (w.lost # "no" \/ w.req[r].expired) ->
         CompleteFailure(w, r, "deadline")
    [] OTHER -> IF w.req[r].cancel THEN CompleteCancelled(w, r) ELSE w

(* A failed runner call: the device is probed unless it is already lost.   *)
ClassifyFailure(w, failure) ==
  IF w.lost = "no" /\ failure = "lost" THEN [w EXCEPT !.lost = "probe"] ELSE w

FailNow(w, r, failure) ==
  CompleteFailure(ClassifyFailure(w, failure), r,
                  IF failure = "misuse" THEN "misuse" ELSE "failed")

FailUnlessStopped(w, r, failure) ==
  IF Stopped(w, r) THEN CompleteIfStopped(w, r) ELSE FailNow(w, r, failure)

(* StepDecode or StepMultiTokenDecode serves one request, also the last    *)
(* prepared one of a multi-token batch.                                    *)
OwnUnit ==
  \/ Len(work.batch) = 1
  \/ /\ work.multi /\ Len(work.ready) = 1
     /\ work.pc = "publish" \/ work.todo = <<>>

(* The catch clauses: a work unit of one request asks first whether the    *)
(* request was stopped, the loops over a batch do not.                     *)
FailStep(w, r, failure) ==
  IF OwnUnit THEN FailUnlessStopped(w, r, failure) ELSE FailNow(w, r, failure)

-----------------------------------------------------------------------------
(* Output.                                                                 *)

Fits(w, r, text) ==
  /\ Cost(text) <= MaxBuffered - w.req[r].buffered
  /\ Cost(text) <= MaxTotal - w.budget

PublishPiece(w, r, text) ==
  IF r \notin Streamed THEN w
  ELSE [w EXCEPT !.budget = @ + Cost(text),
                 !.req[r].buffered = @ + Cost(text),
                 !.req[r].pieces = Append(@, text)]

CanPublish(w, r, text) == r \notin Streamed \/ Fits(w, r, text)

(* StopSequenceFilter::Push releases the withheld text and the new piece up *)
(* to where a stop sequence may begin, and withholds the rest; when the    *)
(* piece completes a stop sequence the rest is dropped.                    *)
FilterOutcomes(q, r) ==
  IF r \notin mode.filtered THEN {[shown |-> 1, match |-> FALSE]}
  ELSE {f \in [shown : 0 .. Len(q.held) + 1, match : BOOLEAN] :
          f.match => f.shown <= Len(q.held)}

PublishSelection(w, r, token, f) ==
  LET q == w.req[r]
      all == Append(q.held, token)
      text == SubSeq(all, 1, f.shown)
      v == [w EXCEPT !.req[r] =
             [q EXCEPT !.tokens = Append(q.tokens, token),
                       !.held = IF f.match THEN <<>> ELSE SubSeq(all, f.shown + 1, Len(all)),
                       !.matched = f.match]]
      silent == text = <<>> /\ r \in mode.filtered IN
    CASE Len(q.tokens) >= mode.output -> CompleteFailure(w, r, "failed")
      [] Len(q.tokens) < mode.output /\ ~silent /\ ~CanPublish(v, r, text) ->
           CompleteFailure(v, r, "failed")
      [] OTHER -> CompleteIfStopped(IF silent THEN v ELSE PublishPiece(v, r, text), r)

(* The text the stop filter still withholds is published at the end.       *)
TailFits(w, r) == w.req[r].held = <<>> \/ CanPublish(w, r, w.req[r].held)

(* How the end of a successful request fails: the tail is refused, or the  *)
(* runner's Commit throws; after a stop sequence Cancel, which does not.   *)
Mishap(w, r, out) ==
  IF ~TailFits(w, r) THEN "error"
  ELSE IF out = "stop_sequence" THEN "done" ELSE mode.commit[r]

CompleteSuccess(w, r, out) ==
  LET q == w.req[r]
      mishap == Mishap(w, r, out)
      v == IF q.held = <<>> THEN w
           ELSE [PublishPiece(w, r, q.held) EXCEPT !.req[r].held = <<>>] IN
    IF mishap # "done" THEN FailStep(w, r, mishap)
    ELSE PublishTerminal([v EXCEPT !.req[r].lease = "returned"], r, out, FALSE)

-----------------------------------------------------------------------------
(* Runner calls.  Each operator is the set of [w, ok] a call may end in:   *)
(* ok says whether the caller goes on with the request.                    *)

Failures == Faults \cap {"error", "lost"}
No(w) == [w |-> w, ok |-> FALSE]
Yes(w) == [w |-> w, ok |-> TRUE]

(* Starts the capture of the prompt state once; FALSE while it runs.       *)
PreparePromptSnapshot(w, r) ==
  LET q == w.req[r] IN
    IF q.capture = "running" THEN {No(w)}
    ELSE {Yes([w EXCEPT !.req[r].capture = "idle", !.req[r].tried = TRUE])}
         \cup (IF q.tried THEN {}
               ELSE {No([w EXCEPT !.req[r].capture = "running", !.req[r].tried = TRUE])})

(* PrepareDecode of a request whose selected token is published.           *)
AdvanceReady(w, r) ==
  IF Stopped(w, r) THEN {No(CompleteIfStopped(w, r))}
  ELSE {IF ~s.ok THEN s
        ELSE LET v == [s.w EXCEPT !.req[r].advancing = FALSE] IN
               IF ~mode.final /\ Len(v.req[r].tokens) >= TokenLimit[r]
               THEN No(CompleteSuccess(v, r, "length"))
               ELSE Yes(v)
        : s \in PreparePromptSnapshot(w, r)}

(* The runner's SelectNext, then publication unless the token was already  *)
(* published as the preview of a multi-token step.                         *)
SelectNext(w, r) ==
  LET q == w.req[r]
      token == q.adv + 1
      v == [w EXCEPT !.req[r].selected = TRUE]
      waiting(x) == [x EXCEPT !.req[r].advancing = TRUE, !.req[r].preview = FALSE] IN
    CASE q.selected -> {No(FailStep(w, r, "misuse"))}
      [] ~q.selected /\ token = eos[r] -> {No(CompleteSuccess(w, r, "stop"))}
      [] ~q.selected /\ token # eos[r] /\ q.preview -> AdvanceReady(waiting(v), r)
      [] OTHER ->
           UNION {LET u == PublishSelection(v, r, token, f) IN
                    CASE IsTerminal(u, r) -> {No(u)}
                      [] ~IsTerminal(u, r) /\ u.req[r].matched ->
                           {No(CompleteSuccess(u, r, "stop_sequence"))}
                      [] OTHER -> AdvanceReady(waiting(u), r)
                  : f \in FilterOutcomes(q, r)}

PrepareDecode(w, r) ==
  CASE Stopped(w, r) -> {No(CompleteIfStopped(w, r))}
    [] ~Stopped(w, r) /\ w.req[r].advancing -> AdvanceReady(w, r)
    [] OTHER -> SelectNext(w, r) \cup {No(FailStep(w, r, f)) : f \in Failures}

(* PreviewFirstToken: the first token is published before the prompt is    *)
(* captured.  A runner may decline.                                        *)
PreviewFirstToken(w, r) ==
  LET q == w.req[r] IN
    IF q.tokens # <<>> \/ q.previewStops THEN {w}
    ELSE {w} \cup
         (IF q.selected THEN {}
          ELSE IF eos[r] = 1 THEN {[w EXCEPT !.req[r].previewStops = TRUE]}
          ELSE {LET v == PublishSelection(w, r, 1, f) IN
                  IF IsTerminal(v, r) THEN v ELSE [v EXCEPT !.req[r].preview = TRUE]
                : f \in FilterOutcomes(q, r)})

PrepareFirstSnapshot(w, r) ==
  UNION {CASE IsTerminal(v, r) -> {No(v)}
           [] ~IsTerminal(v, r) /\ v.req[r].matched ->
                {No(CompleteSuccess(v, r, "stop_sequence"))}
           [] OTHER ->
                {CASE ~s.ok -> s
                   [] s.ok /\ s.w.req[r].previewStops -> No(CompleteSuccess(s.w, r, "stop"))
                   [] OTHER -> IF Stopped(s.w, r) THEN No(CompleteIfStopped(s.w, r)) ELSE s
                 : s \in PreparePromptSnapshot(v, r)}
         : v \in PreviewFirstToken(w, r)}

PrepareMultiToken(w, r) ==
  IF Stopped(w, r) THEN {No(CompleteIfStopped(w, r))}
  ELSE PrepareFirstSnapshot(w, r) \cup {No(FailStep(w, r, f)) : f \in Failures}

(* token_limit less the tokens published, the preview counted once.        *)
Remaining(q, r) == TokenLimit[r] - Len(q.tokens) + (IF q.preview THEN 1 ELSE 0)

(* What DecodeStep returns: at least one token, or the stop token.         *)
DecodeSteps(q, r) ==
  {[kind |-> "tokens", toks |-> [i \in 1 .. k |-> q.adv + i], stop |-> s, begun |-> FALSE] :
     k \in {n \in 0 .. Min({Remaining(q, r), MaxDraft}) : q.adv + n < eos[r]},
     s \in BOOLEAN}

ValidSteps(q, r) ==
  {d \in DecodeSteps(q, r) : /\ d.stop => q.adv + Len(d.toks) + 1 = eos[r]
                             /\ d.toks = <<>> => d.stop}

(* Mutant: a lone request decodes several tokens although its selected one *)
(* waits for a capture to be advanced.                                     *)
UsesMultiTokenAlways(batch) == mode.batched \/ (Len(batch) = 1 /\ mode.multi)

(* StepDecodeBatch: multi-token steps where the runner batches them, or    *)
(* for a request decoding alone that has no token waiting to be advanced.  *)
UsesMultiToken(batch) ==
  \/ mode.batched
  \/ /\ Len(batch) = 1
     /\ mode.multi
     /\ ~req[Head(batch)].advancing

SelectDecodePlan(n) == IF n = 1 THEN 1 ELSE mode.width

-----------------------------------------------------------------------------
(* The worker's loop.                                                      *)

Apply(w) == req' = w.req /\ budget' = w.budget /\ lost' = w.lost

ListFrame == UNCHANGED <<mode, eos, stopping>>

Residents(l) == Len(l.prefilling) + Len(l.decoding) + Len(l.capturing)

(* Mutant: a chunk does not make the resident decoders due.                *)
MarkNoneDue(w, decoders) == w

(* MarkAllDecodersDue.                                                     *)
MarkDue(w, decoders) ==
  [w EXCEPT !.req = [r \in Req |-> IF r \in ToSet(decoders)
                                  THEN [w.req[r] EXCEPT !.due = TRUE] ELSE w.req[r]]]

(* progress.fetch_add.                                                     *)
Progressed == [watch EXCEPT !.seen = "progress"]

(* Mutant: polling a parked request or a capture counts as progress.       *)
PolledAsProgress == Progressed

(* A wait that makes none.                                                 *)
Polled == [watch EXCEPT !.seen = IF @ = "nothing" THEN "polling" ELSE @]

(* The members of the sequence s that are in S, in their order.            *)
Only(s, S) == FoldLeft(LAMBDA t, x : IF x \in S THEN Append(t, x) ELSE t, <<>>, s)

RemoveQueued(S) ==
  LET left == [i \in DOMAIN clients |->
                 [id |-> clients[i].id, requests |-> Only(clients[i].requests, Req \ S)]] IN
    Only(left, {c \in ToSet(left) : c.requests # <<>>})

(* A parked request resumes once its leader can no longer publish their    *)
(* shared prefix, or once that checkpoint is retained.                     *)
MustSettle(w, r) ==
  LET l == w.req[r].leader IN
    \/ IsTerminal(w, l)
    \/ w.req[l].lease # "held"
    \/ PrefillComplete(w.req[l], l)
    \/ w.req[l].pos > w.req[r].leadPos

MaySettle(w, r) ==
  MustSettle(w, r) \/ w.req[w.req[r].leader].pos = w.req[r].leadPos

(* UpdateWaiting for one parked request; settled says what the caches      *)
(* report when both answers are possible.                                  *)
UpdateWaiting(w, r, settled) ==
  LET q == w.req[r]
      free == /\ q.leader # NoReq
              /\ MustSettle(w, r) \/ (settled /\ MaySettle(w, r))
      over == q.pub = "waiting" /\ (settled \/ q.age >= WaitTicks) IN
    IF Stopped(w, r) THEN CompleteIfStopped(w, r)
    ELSE [w EXCEPT !.req[r].leader = IF free THEN NoReq ELSE @,
                   !.req[r].pub = IF over THEN "over" ELSE @]

(* Each request of S is asked whether it was stopped.                      *)
Asked(w, S) == FoldSet(LAMBDA r, v : CompleteIfStopped(v, r), w, S)

CancelledAll(w, S) == FoldSet(LAMBDA r, v : CompleteCancelled(v, r), w, S)

UpdatedAll(w, s, settled) ==
  FoldLeft(LAMBDA x, r : UpdateWaiting(x, r, r \in settled), w, s)

(* The queued requests that were stopped.                                  *)
EndedQueued == {r \in Queued : req[r].expired \/ req[r].cancel}

(* The captures that ended, and those of them that go on once all were     *)
(* asked.                                                                  *)
Back(l) == Only(l.capturing, {r \in Req : req[r].capture # "running"})
Going(l, v) == Only(Back(l), {r \in Req : ~IsTerminal(v, r)})
ToDecode(l, v) == Only(Going(l, v), {r \in Req : PrefillComplete(req[r], r)})
ToPrefill(l, v) == Only(Going(l, v), {r \in Req : ~PrefillComplete(req[r], r)})

(* The lists once the captures were asked in v, the parked requests in w.  *)
Resumed(l, v, w) ==
  [l EXCEPT !.capturing = Only(@, {r \in Req : req[r].capture = "running"}),
            !.decoding = @ \o ToDecode(l, v),
            !.prefilling = @ \o ToPrefill(l, v),
            !.waiting = Only(@, {r \in Req : ~IsTerminal(w, r)})]

(* One turn of the loop up to Admit: queued requests that were cancelled   *)
(* or expired end, captures that ended resume, parked requests are updated.*)
BeginLoop ==
  /\ work.pc = "top"
  /\ ~stopping /\ lost = "no"
  /\ \E settled \in SUBSET ToSet(lists.waiting) :
       LET v == Asked(World, EndedQueued \cup ToSet(Back(lists)))
           w == UpdatedAll(MarkDue(v, ToDecode(lists, v)), lists.waiting, settled) IN
         /\ Apply(w)
         /\ clients' = RemoveQueued(EndedQueued)
         /\ lists' = Resumed(lists, v, w)
         /\ watch' = IF Back(lists) # <<>> THEN Progressed ELSE watch
  /\ work' = [work EXCEPT !.pc = "admit"]
  /\ ListFrame /\ UNCHANGED <<streak, lastPrefill, skipped>>

Released == Only(lists.waiting,
                 {r \in Req : req[r].leader = NoReq /\ req[r].pub # "waiting"})

FreeSessions == 1 .. mode.capacity \ {req[r].session : r \in Req}

(* PopQueued: the front client's first request; the client goes to the     *)
(* back.  The request takes a free session, if there is one.               *)
PopQueued(w) ==
  LET r == Head(Head(clients).requests) IN
    [w EXCEPT !.req[r].counted = TRUE,
              !.req[r].session = IF FreeSessions = {} THEN 0 ELSE Min(FreeSessions)]

Rotated ==
  LET c == Head(clients) IN
    IF Len(c.requests) = 1 THEN Tail(clients)
    ELSE Append(Tail(clients), [c EXCEPT !.requests = Tail(@)])

(* The resident request that shares the longest prefix it has yet to       *)
(* prefill.                                                                *)
PrefixLeader(w, r) ==
  LET behind == {l \in ToSet(lists.prefilling) \cup ToSet(lists.capturing) :
                   ~PrefillComplete(w.req[l], l) /\ Common[r][l] > w.req[l].pos} IN
    IF behind = {} THEN NoReq
    ELSE CHOOSE l \in behind : \A m \in behind : Common[r][l] >= Common[r][m]

WaitForSharedPrefix(w, r) ==
  LET q == w.req[r]
      l == PrefixLeader(w, r)
      v == [w EXCEPT !.req[r].considered = TRUE] IN
    IF q.considered \/ r \notin CachePrompt \/ Len(lists.waiting) + 1 >= mode.capacity \/ l = NoReq THEN {No(v)}
    ELSE {No(v), Yes([v EXCEPT !.req[r].leader = l, !.req[r].leadPos = Common[r][l]])}

(* A disk job may be writing a much deeper prefix: wait for it, once.      *)
WaitForPublication(w, r) ==
  {No(w)} \cup (IF r \notin CachePrompt \/ w.req[r].pub # "no" THEN {}
                ELSE {Yes([w EXCEPT !.req[r].pub = "waiting", !.req[r].age = 0])})

(* Mutant: parked requests do not count against the sessions.              *)
AdmitOverResidents ==
  \/ stopping
  \/ Residents(lists) >= mode.capacity
  \/ Released = <<>> /\ clients = <<>>

AdmitOver ==
  \/ stopping
  \/ Residents(lists) >= mode.capacity
  \/ /\ Released = <<>>
     /\ \/ clients = <<>>
        \/ Residents(lists) + Len(lists.waiting) >= mode.capacity

(* The loop ends when the scheduler stops or the device is lost; the loss  *)
(* is looked for again after Admit.                                        *)
LeaveLoop ==
  /\ \/ work.pc = "top" /\ (stopping \/ lost # "no")
     \/ work.pc = "admit" /\ AdmitOver /\ lost # "no"
  /\ work' = [work EXCEPT !.pc = "drain"]
  /\ ListFrame /\ UNCHANGED <<req, budget, lost, clients, lists, streak, lastPrefill, watch, skipped>>

(* The request r is completed, parked, or a runner is acquired for it.     *)
Admission(w, r) ==
  LET parked == Only(lists.waiting, Req \ {r}) IN
    \/ /\ Stopped(w, r)
       /\ Apply(CompleteIfStopped(w, r))
       /\ lists' = [lists EXCEPT !.waiting = parked]
       /\ UNCHANGED work
    \/ /\ ~Stopped(w, r)
       /\ \E s \in WaitForSharedPrefix(w, r) :
          \E p \in (IF s.ok THEN {s} ELSE WaitForPublication(s.w, r)) :
            /\ Apply(p.w)
            /\ lists' = [lists EXCEPT
                 !.waiting = IF p.ok THEN Append(parked, r) ELSE parked]
            /\ work' = IF p.ok THEN work
                       ELSE [work EXCEPT !.pc = "acquire", !.batch = <<r>>]

(* Admit up to Acquire: a released request goes before a queued one.       *)
AdmitNext ==
  /\ work.pc = "admit"
  /\ ~AdmitOver
  /\ \/ /\ Released # <<>>
        /\ Admission(World, Head(Released))
        /\ clients' = clients
     \/ /\ Released = <<>>
        /\ Admission(PopQueued(World), Head(Head(clients).requests))
        /\ clients' = Rotated
  /\ ListFrame /\ UNCHANGED <<streak, lastPrefill, watch, skipped>>

(* The last-served prefill is at the back: an arrival goes before it.      *)
InsertPrefill(r) ==
  LET l == lists.prefilling IN
    IF l # <<>> /\ Last(l) = lastPrefill THEN Append(Front(l), r) \o <<Last(l)>>
    ELSE Append(l, r)

(* runner_pool->Acquire returns: nothing when the request was cancelled,   *)
(* else a leased state that holds a prefix of the prompt.                  *)
Acquire ==
  /\ work.pc = "acquire"
  /\ LET r == Head(work.batch) IN
       \/ /\ \E f \in Failures : Apply(FailNow(World, r, f))
          /\ UNCHANGED <<lists, watch>>
       \/ /\ stopping \/ req[r].cancel \/ req[r].expired
          /\ Apply(CompleteCancelled(World, r))
          /\ watch' = Progressed
          /\ UNCHANGED lists
       \/ /\ \E cached \in {0, Prompt[r]} :
               /\ Apply([World EXCEPT !.req[r].lease = "held", !.req[r].pos = cached,
                                      !.req[r].due = cached = Prompt[r]])
               /\ lists' = IF cached = Prompt[r]
                           THEN [lists EXCEPT !.decoding = Append(@, r)]
                           ELSE [lists EXCEPT !.prefilling = InsertPrefill(r)]
          /\ watch' = Progressed
  /\ work' = [work EXCEPT !.pc = "admit", !.batch = <<>>]
  /\ ListFrame /\ UNCHANGED <<clients, streak, lastPrefill, skipped>>

Wake ==
  \/ stopping
  \/ QueuedCount # 0 /\ Len(lists.capturing) + Len(lists.waiting) < mode.capacity

(* Nothing to prefill or decode: wait for work, or poll captures and       *)
(* parked requests every millisecond.                                      *)
NothingToRun ==
  /\ work.pc = "admit" /\ AdmitOver
  /\ lost = "no"
  /\ lists.prefilling = <<>> /\ lists.decoding = <<>>
  /\ LET idle == lists.capturing = <<>> /\ lists.waiting = <<>> /\ ~Wake IN
       /\ work' = [work EXCEPT !.pc = IF idle THEN "idle" ELSE "top"]
       /\ watch' = Polled
  /\ ListFrame /\ UNCHANGED <<req, budget, lost, clients, lists, streak, lastPrefill, skipped>>

(* The idle wait returns: for work, or to probe the device.                *)
IdleReturns ==
  /\ work.pc = "idle"
  /\ work' = [work EXCEPT !.pc = IF Wake THEN "top" ELSE "probe"]
  /\ watch' = Progressed
  /\ ListFrame /\ UNCHANGED <<req, budget, lost, clients, lists, streak, lastPrefill, skipped>>

PollDevice ==
  /\ work.pc = "probe"
  /\ \E dead \in (IF "lost" \in Faults THEN BOOLEAN ELSE {FALSE}) :
       lost' = IF dead /\ lost = "no" THEN "probe" ELSE lost
  /\ LET idle == lost' = "no" /\ ~Wake IN
       work' = [work EXCEPT !.pc = IF idle THEN "idle" ELSE "top"]
  /\ ListFrame /\ UNCHANGED <<req, budget, clients, lists, streak, lastPrefill, watch, skipped>>

HasDueDecoder == \E r \in ToSet(lists.decoding) : req[r].due
Short(r) == Prompt[r] - req[r].pos <= 1

(* Simultaneous new requests get one bounded chunk to form their first     *)
(* batch.                                                                  *)
AssembleInitialBatch ==
  /\ mode.multi
  /\ Len(lists.prefilling) + Len(lists.decoding) > 1
  /\ SelectDecodePlan(Len(lists.prefilling) + Len(lists.decoding)) > 1
  /\ streak = 0
  /\ Short(Head(lists.prefilling))
  /\ \A r \in ToSet(lists.decoding) : req[r].tokens = <<>>

PrefillBesideDecoders ==
  /\ lists.prefilling # <<>> /\ lists.decoding # <<>>
  /\ ~HasDueDecoder \/ AssembleInitialBatch

ChoosePrefill ==
  /\ work.pc = "admit" /\ AdmitOver
  /\ lost = "no"
  /\ lists.prefilling # <<>>
  /\ lists.decoding = <<>> \/ PrefillBesideDecoders
  /\ work' = [work EXCEPT !.pc = "prefill", !.batch = <<Head(lists.prefilling)>>,
                          !.decoding = lists.decoding # <<>>,
                          !.peer = \/ lists.capturing # <<>>
                                   \/ \E r \in ToSet(Tail(lists.prefilling)) : Short(r)]
  /\ lists' = [lists EXCEPT !.prefilling = Tail(@)]
  /\ watch' = Progressed
  /\ ListFrame /\ UNCHANGED <<req, budget, lost, clients, streak, lastPrefill, skipped>>

(* PopDecoder for each member of the batch: the first due decoders, those  *)
(* passed over going to the back.                                          *)
Candidates == Only(lists.decoding, {r \in Req : HasDueDecoder => req[r].due})
BatchSize == Min({Len(Candidates), SelectDecodePlan(Len(Candidates))})
PoppedBatch == SubSeq(Candidates, 1, BatchSize)
DecodersLeft ==
  LET d == lists.decoding
      n == CHOOSE i \in DOMAIN d : d[i] = PoppedBatch[BatchSize] IN
    SubSeq(d, n + 1, Len(d))
      \o Only(SubSeq(d, 1, n), Req \ ToSet(PoppedBatch))

ChooseDecode ==
  /\ work.pc = "admit" /\ AdmitOver
  /\ lost = "no"
  /\ lists.decoding # <<>>
  /\ ~PrefillBesideDecoders
  /\ work' = [work EXCEPT !.pc = "prepare", !.batch = PoppedBatch,
                          !.todo = PoppedBatch, !.ready = <<>>,
                          !.multi = UsesMultiToken(PoppedBatch)]
  /\ lists' = [lists EXCEPT !.decoding = DecodersLeft]
  /\ req' = [r \in Req |-> IF r \in ToSet(PoppedBatch)
                          THEN [req[r] EXCEPT !.due = FALSE] ELSE req[r]]
  /\ skipped' = [r \in Req |-> IF r \in ToSet(PoppedBatch) THEN 0 ELSE skipped[r]]
  /\ streak' = 0
  /\ watch' = Progressed
  /\ ListFrame /\ UNCHANGED <<budget, lost, clients, lastPrefill>>

(* Where a request goes after its work unit.                               *)
Requeued(l, w, r) ==
  CASE IsTerminal(w, r) -> l
    [] ~IsTerminal(w, r) /\ w.req[r].capture = "running" ->
         [l EXCEPT !.capturing = Append(@, r)]
    [] OTHER -> IF PrefillComplete(w.req[r], r)
                THEN [l EXCEPT !.decoding = Append(@, r)]
                ELSE [l EXCEPT !.prefilling = Append(@, r)]

(* StepPrefill and what Run does with its request: one bounded chunk       *)
(* beside decoders, captures or short peers, else what the model takes.    *)
PrefillBudget(r) ==
  IF work.decoding \/ work.peer THEN 1 ELSE Prompt[r] - req[r].pos

(* The call ends with the capture of the boundary that its chunk reached,  *)
(* which another thread may complete before the worker asks on.  A call    *)
(* begins one at most; one that begins several reaches no other state.     *)
BeginCapture ==
  /\ work.pc = "prefill"
  /\ LET r == Head(work.batch) IN
       /\ ~Stopped(World, r)
       /\ req[r].capture = "idle"
       /\ req' = [req EXCEPT ![r].capture = "running"]
  /\ ListFrame
  /\ UNCHANGED <<budget, lost, clients, lists, work, streak, lastPrefill, watch, skipped>>

(* n units more of the prompt.                                             *)
Chunk(w, r, n) == [w EXCEPT !.req[r].pos = @ + n]

PrefillOutcomes(r) ==
  {CompleteIfStopped(Chunk(World, r, n), r) : n \in 1 .. PrefillBudget(r)}

StepPrefill ==
  /\ work.pc = "prefill"
  /\ LET r == Head(work.batch)
         finish(w) == LET l == Requeued(lists, w, r) IN
                        Apply(MarkDue(w, l.decoding)) /\ lists' = l IN
       \/ /\ Stopped(World, r)
          /\ finish(CompleteIfStopped(World, r))
          /\ UNCHANGED <<streak, lastPrefill, skipped>>
       \/ /\ ~Stopped(World, r)
          /\ \E f \in Failures : finish(FailUnlessStopped(World, r, f))
          /\ lastPrefill' = r
          /\ UNCHANGED <<streak, skipped>>
       \/ /\ ~Stopped(World, r)
          /\ \E w \in PrefillOutcomes(r) : finish(w)
          /\ lastPrefill' = r
          /\ streak' = IF work.decoding THEN Min({streak + 1, 2}) ELSE 0
          /\ skipped' = [x \in Req |-> IF x \in ToSet(lists.decoding)
                                       THEN Min({skipped[x] + 1, 3}) ELSE skipped[x]]
  /\ work' = [work EXCEPT !.pc = "top", !.batch = <<>>, !.decoding = FALSE, !.peer = FALSE]
  /\ ListFrame /\ UNCHANGED <<clients, watch>>

(* One request of the batch gets its token published, its snapshot begun   *)
(* and joins the prepared ones, or leaves the batch.                       *)
PrepareRequest ==
  /\ work.pc = "prepare"
  /\ work.todo # <<>>
  /\ LET r == Head(work.todo) IN
       \E s \in (IF work.multi THEN PrepareMultiToken(World, r) ELSE PrepareDecode(World, r)) :
         /\ Apply(s.w)
         /\ work' = [work EXCEPT !.todo = Tail(@),
                                 !.ready = IF s.ok THEN Append(@, r) ELSE @]
  /\ ListFrame /\ UNCHANGED <<clients, lists, streak, lastPrefill, watch, skipped>>

Ready == ToSet(work.ready)

(* The batch's live requests go back to the decoders or to the captures.   *)
RequeuedAll(l, w, s) == FoldLeft(LAMBDA k, r : Requeued(k, w, r), l, s)

FinishBatch(w) ==
  /\ Apply(w)
  /\ lists' = RequeuedAll(lists, w, work.batch)
  /\ work' = Idle

(* A batch whose device was lost while it was prepared, and a single       *)
(* multi-token request left of a batch, are asked again.                   *)
StoppedBeforeCall ==
  /\ Len(work.batch) > 1
  /\ \/ lost # "no"
     \/ work.multi /\ Len(work.ready) = 1 /\ Stopped(World, Head(work.ready))

(* Decoding with a selected token not yet advanced, and advancing none,    *)
(* are refused by the runner.                                              *)
Misused == \E r \in Ready : req[r].selected = work.multi

ThrownAll(w, s, failure) ==
  FoldLeft(LAMBDA x, r : FailUnlessStopped(x, r, failure), w, s)

ThrowAll(failure) ==
  IF Len(work.ready) = 1 THEN FailStep(World, Head(work.ready), failure)
  ELSE ThrownAll(World, work.ready, failure)

LaneResults(r) ==
  (IF work.multi THEN ValidSteps(req[r], r) ELSE {[kind |-> "advanced"]})
  \cup (IF Len(work.ready) = 1 THEN {} ELSE {[kind |-> f] : f \in Failures})

LaneState(q, d) ==
  CASE d.kind = "tokens" -> [q EXCEPT !.adv = @ + Len(d.toks)]
    [] d.kind = "advanced" -> [q EXCEPT !.adv = @ + 1, !.selected = FALSE]
    [] OTHER -> q

(* The runner call for the prepared requests.  Every failed lane is        *)
(* classified before a peer is published or committed.                     *)
ExecuteBatch ==
  /\ work.pc = "prepare"
  /\ work.todo = <<>>
  /\ \/ /\ work.ready = <<>>
        /\ FinishBatch(World)
     \/ /\ work.ready # <<>> /\ StoppedBeforeCall
        /\ FinishBatch(Asked(World, Ready))
     \/ /\ work.ready # <<>> /\ ~StoppedBeforeCall
        /\ \E f \in (IF Misused THEN {"misuse"} ELSE Failures) : FinishBatch(ThrowAll(f))
     \/ /\ work.ready # <<>> /\ ~StoppedBeforeCall /\ ~Misused
        /\ \E d \in [Ready -> UNION {LaneResults(r) : r \in Ready}] :
             /\ \A r \in Ready : d[r] \in LaneResults(r)
             /\ LET dead == \E r \in Ready : d[r].kind = "lost"
                    v == IF dead THEN ClassifyFailure(World, "lost") ELSE World
                    moved == [v EXCEPT !.req = [r \in Req |->
                                IF r \in Ready THEN LaneState(v.req[r], d[r])
                                ELSE v.req[r]]] IN
                  IF Len(work.ready) > 1 /\ moved.lost # "no"
                  THEN FinishBatch(Asked(moved, Ready))
                  ELSE /\ Apply(moved)
                       /\ UNCHANGED lists
                       /\ work' = [work EXCEPT !.pc = "publish", !.todo = work.ready,
                                    !.step = [r \in Req |-> IF r \in Ready THEN d[r]
                                                            ELSE [kind |-> "none"]]]
  /\ ListFrame /\ UNCHANGED <<clients, streak, lastPrefill, watch, skipped>>

(* FinishAdvanced, or the end of a multi-token lane.                       *)
Reached(w, r) == Len(w.req[r].tokens) >= TokenLimit[r]

FinishAdvanced(w, r) ==
  CASE Stopped(w, r) -> CompleteIfStopped(w, r)
    [] ~Stopped(w, r) /\ Reached(w, r) -> CompleteSuccess(w, r, "length")
    [] OTHER -> w

FinishDecoded(w, r, stop) ==
  CASE w.req[r].matched -> CompleteSuccess(w, r, "stop_sequence")
    [] ~w.req[r].matched /\ stop -> CompleteSuccess(w, r, "stop")
    [] OTHER -> IF Reached(w, r) THEN CompleteSuccess(w, r, "length") ELSE w

(* Mutant: the previewed token is published with the step that decodes it. *)
PublishEverySelection(w, r, token) ==
  {[PublishSelection(w, r, token, f) EXCEPT !.req[r].preview = FALSE] :
     f \in FilterOutcomes(w.req[r], r)}

(* PublishDecodedSelection: the preview was already published.             *)
PublishDecodedSelection(w, r, token) ==
  IF w.req[r].preview THEN {[w EXCEPT !.req[r].preview = FALSE]}
  ELSE {PublishSelection(w, r, token, f) : f \in FilterOutcomes(w.req[r], r)}

(* An exception that leaves StepDecodeBatch leaves Run, which is noexcept: *)
(* FinishAdvanced of a batch of several lanes is called outside any try.   *)
Escapes(r) ==
  /\ Len(work.ready) > 1
  /\ work.step[r].kind = "advanced"
  /\ ~Stopped(World, r) /\ Reached(World, r)
  /\ Mishap(World, r, "length") # "done"

(* The lane at the head of the batch ended; the last one ends the batch.   *)
NextLane(w) ==
  IF Len(work.todo) = 1 THEN FinishBatch(w)
  ELSE /\ Apply(w)
       /\ work' = [work EXCEPT !.todo = Tail(@), !.step[Head(work.todo)] = [kind |-> "none"]]
       /\ UNCHANGED lists

(* The first token of a lane is published.                                 *)
WithoutFirst(d) == [d EXCEPT !.toks = Tail(@), !.begun = TRUE]

(* The lane at the head of the batch: one token of it, or its end.  Each   *)
(* lane of a batch is asked once, before its first token.                  *)
PublishLane ==
  /\ work.pc = "publish"
  /\ LET r == Head(work.todo)
         d == work.step[r]
         asked == Len(work.ready) > 1 /\ ~d.begun /\ Stopped(World, r) IN
       \/ /\ d.kind \in {"error", "lost"}
          /\ NextLane(FailUnlessStopped(World, r, "error"))
       \/ /\ d.kind = "advanced"
          /\ IF Escapes(r)
             THEN /\ work' = [work EXCEPT !.pc = "terminated"]
                  /\ UNCHANGED <<req, budget, lost, lists>>
             ELSE NextLane(FinishAdvanced(World, r))
       \/ /\ d.kind = "tokens" /\ asked
          /\ NextLane(CompleteIfStopped(World, r))
       \/ /\ d.kind = "tokens" /\ ~asked
          /\ d.toks # <<>> /\ ~req[r].matched
          /\ \E w \in PublishDecodedSelection(World, r, Head(d.toks)) :
               IF IsTerminal(w, r) THEN NextLane(w)
               ELSE /\ Apply(w)
                    /\ work' = [work EXCEPT !.step[r] = WithoutFirst(d)]
                    /\ UNCHANGED lists
       \/ /\ d.kind = "tokens" /\ ~asked
          /\ d.toks = <<>> \/ req[r].matched
          /\ NextLane(FinishDecoded(World, r, d.stop))
  /\ ListFrame /\ UNCHANGED <<clients, streak, lastPrefill, watch, skipped>>

(* CancelRemaining: every request the worker or the queue still holds.     *)
CancelRemaining ==
  /\ work.pc = "drain"
  /\ LET held == Queued \cup UNION {ToSet(lists[k]) : k \in DOMAIN lists} IN
       Apply(CancelledAll(World, held))
  /\ clients' = <<>>
  /\ lists' = [k \in DOMAIN lists |-> <<>>]
  /\ work' = [work EXCEPT !.pc = "done"]
  /\ ListFrame /\ UNCHANGED <<streak, lastPrefill, watch, skipped>>

(* The joins in Cancel and Invalidate: the step that returns a lease takes *)
(* place when no capture of it runs any more.  The lease of a lost device  *)
(* is kept, and nothing is waited for.                                     *)
CapturesJoined ==
  \A r \in Req :
    req[r].lease = "held" /\ req'[r].lease = "returned" => req[r].capture # "running"

Worker ==
  /\ \/ BeginLoop \/ AdmitNext \/ Acquire \/ LeaveLoop
     \/ NothingToRun \/ IdleReturns \/ PollDevice
     \/ ChoosePrefill \/ ChooseDecode \/ StepPrefill
     \/ PrepareRequest \/ ExecuteBatch \/ PublishLane
     \/ CancelRemaining
  /\ CapturesJoined

(* Where the worker may have to wait there: for the request whose prefill  *)
(* call it asks after, and for all that are left when it is told to stop.  *)
Joins(r) ==
  /\ lost = "no" /\ req[r].capture = "running"
  /\ \/ work.pc = "prefill" /\ r = Head(work.batch) /\ Stopped(World, r)
     \/ work.pc = "drain"

-----------------------------------------------------------------------------
(* The other threads.                                                      *)

Outside == UNCHANGED <<mode, eos, lists, work, streak, lastPrefill, skipped>>

(* Mutant: a request is queued behind a worker that has left its loop.     *)
RefusedWhileStopping(r) == stopping \/ QueuedCount >= MaxPending

(* Submit under queue_mutex: refused while stopping, after a loss, with a  *)
(* full queue or a full client quota.                                      *)
Refused(r) ==
  \/ stopping
  \/ lost # "no"
  \/ QueuedCount >= MaxPending
  \/ \E i \in DOMAIN clients : /\ clients[i].id = Clients[r]
                               /\ Len(clients[i].requests) >= MaxPerClient

Enqueued(r) ==
  IF \E i \in DOMAIN clients : clients[i].id = Clients[r]
  THEN [i \in DOMAIN clients |->
          IF clients[i].id = Clients[r]
          THEN [clients[i] EXCEPT !.requests = Append(@, r)] ELSE clients[i]]
  ELSE Append(clients, [id |-> Clients[r], requests |-> <<r>>])

Submit(r) ==
  /\ req[r].handle = "none"
  /\ ~Refused(r)
  /\ req' = [req EXCEPT ![r].handle = "held"]
  /\ clients' = Enqueued(r)
  /\ Outside /\ UNCHANGED <<budget, lost, stopping, watch>>

(* Cancel(): a flag the worker reads; nothing after the end.               *)
Cancelled(q) == IF q.out = "none" THEN [q EXCEPT !.cancel = TRUE] ELSE q

(* Wait takes one piece; its callback may refuse it, which cancels the     *)
(* request and leaves the remaining pieces undelivered.                    *)
TakePiece(r) ==
  /\ req[r].handle = "held"
  /\ req[r].pieces # <<>>
  /\ \E accepted \in BOOLEAN :
       LET q == req[r]
           text == Head(q.pieces)
           p == [q EXCEPT !.pieces = Tail(@), !.buffered = @ - Cost(text),
                          !.delivered = IF q.listening THEN @ \o text ELSE @] IN
         /\ accepted \/ (q.listening /\ r \in Impatient)
         /\ req' = [req EXCEPT ![r] = IF accepted THEN p
                                      ELSE Cancelled([p EXCEPT !.listening = FALSE])]
         /\ budget' = budget - Cost(text)
  /\ Outside /\ UNCHANGED <<clients, lost, stopping, watch>>

(* The handle goes: Wait returned, or the client left without waiting.     *)
DropHandle(r) ==
  /\ req[r].handle = "held"
  /\ r \in Impatient \/ (req[r].out # "none" /\ req[r].pieces = <<>>)
  /\ req' = [req EXCEPT ![r] = Cancelled([req[r] EXCEPT !.handle = "dropped"])]
  /\ Outside /\ UNCHANGED <<budget, clients, lost, stopping, watch>>

Owned(r) ==
  \/ r \in Queued
  \/ \E k \in DOMAIN lists : r \in ToSet(lists[k])
  \/ r \in ToSet(work.batch)
  \/ req[r].lease = "kept"
  \/ \E f \in Req : req[f].leader = r

(* ~ScheduledRequest when the last owner lets go.                          *)
Destroy(r) ==
  /\ req[r].handle = "dropped"
  /\ ~Owned(r)
  /\ budget' = budget - req[r].buffered
  /\ req' = [req EXCEPT ![r] = [FreshRequest EXCEPT !.handle = "gone", !.out = "ended"]]
  /\ Outside /\ UNCHANGED <<clients, lost, stopping, watch>>

Expire(r) ==
  /\ r \in Deadlined
  /\ req[r].handle \in {"held", "dropped"}
  /\ req[r].out = "none" /\ ~req[r].expired
  /\ req' = [req EXCEPT ![r].expired = TRUE]
  /\ Outside /\ UNCHANGED <<budget, clients, lost, stopping, watch>>

(* A capture thread finishes.                                              *)
CaptureDone(r) ==
  /\ req[r].capture = "running"
  /\ req' = [req EXCEPT ![r].capture = "idle"]
  /\ Outside /\ UNCHANGED <<budget, clients, lost, stopping, watch>>

(* ~TextGenerationScheduler: the monitor is joined, then the worker asked  *)
(* to stop.                                                                *)
Stop ==
  /\ ~stopping
  /\ stopping' = TRUE
  /\ Outside /\ UNCHANGED <<req, budget, clients, lost, watch>>

(* One interval of the stall monitor, or of the same length where none is  *)
(* configured.  The worker polls every millisecond, far more often, unless *)
(* a call into the runner does not return.                                 *)
MonitorStalls ==
  /\ ~stopping /\ lost = "no"
  /\ \/ watch.seen # "nothing"
     \/ "hang" \in Faults /\ work.pc \in {"acquire", "prefill", "prepare", "probe"}
  /\ LET calm == mode.stall = 0 \/ watch.seen = "progress" \/ work.pc = "idle"
         stalled == IF calm THEN 0 ELSE watch.stalled + 1 IN
       /\ watch' = [seen |-> "nothing", stalled |-> stalled]
       /\ lost' = IF ~calm /\ stalled >= mode.stall THEN "stall" ELSE lost
  /\ req' = [r \in Req |-> IF req[r].pub = "waiting"
                           THEN [req[r] EXCEPT !.age = Min({@ + 1, WaitTicks})] ELSE req[r]]
  /\ Outside /\ UNCHANGED <<budget, clients, stopping>>

Next ==
  \/ Worker \/ BeginCapture
  \/ \E r \in Req : \/ Submit(r) \/ TakePiece(r) \/ DropHandle(r) \/ Destroy(r)
                    \/ Expire(r) \/ CaptureDone(r)
  \/ Stop
  \/ MonitorStalls

(* The worker can take no step: its loop has ended, or it joins a capture. *)
AtRest == work.pc \in {"done", "terminated"} \/ \E r \in Req : Joins(r)

(* The captures somebody waits for without a limit: those the worker joins *)
(* or will, having been told to stop, and all of them where no monitor     *)
(* gives up on a worker that polls them.                                   *)
Awaited(r) == Joins(r) \/ (lost = "no" /\ (stopping \/ mode.stall = 0))

(* The worker thread keeps running and its runner calls return, time       *)
(* passes, and captures that are awaited without a limit end.  Nothing is  *)
(* assumed of the clients, nor of captures polled under a monitor.  The    *)
(* first conjunct is WF_vars(Worker): the worker can take a step unless it *)
(* is at rest, and TLC evaluates that condition far faster than ENABLED.   *)
Fairness ==
  /\ []<>AtRest \/ []<><<Worker>>_vars
  /\ WF_vars(MonitorStalls)
  /\ \A r \in Req : WF_vars(CaptureDone(r) /\ Awaited(r))

Spec == Init /\ [][Next]_vars /\ Fairness

-----------------------------------------------------------------------------
(* Properties.                                                             *)

(* The output budget equals what the requests' queues hold, byte for byte, *)
(* however pieces are consumed, discarded by a terminal transition or left *)
(* behind with their request, and never exceeds its limit.                 *)
BudgetExact ==
  /\ budget = MapThenSumSet(LAMBDA r : req[r].buffered, Req)
  /\ \A r \in Req : req[r].buffered =
       FoldLeft(LAMBDA n, t : n + Cost(t), 0, req[r].pieces)
  /\ budget <= MaxTotal

(* PopQueued relies on it: a request that is counted as processing, also   *)
(* while it is parked or captured, has a session of its own.               *)
SessionsExact ==
  \A r \in Req : req[r].counted =>
    /\ req[r].session # 0
    /\ \A x \in Req \ {r} : req[x].session # req[r].session

(* A stream is the model's output: every token once and in order, through  *)
(* previews, captures that interrupt a step and changes between single and *)
(* multi-token steps; no more than token_limit; and complete at the end of *)
(* a request whose consumer listened.                                      *)
StreamExact ==
  \A r \in Req :
    LET q == req[r]
        sent == q.delivered \o Flat(q.pieces) IN
      /\ q.tokens = [i \in 1 .. Len(q.tokens) |-> i]
      /\ Len(q.tokens) <= TokenLimit[r]
      /\ q.listening => IsPrefix(sent, q.tokens)
      /\ (q.out \in {"stop", "length"} /\ q.listening /\ r \in Streamed
            /\ q.handle \in {"held", "dropped"}) => sent = q.tokens

(* The scheduler never asks the runner to decode past a token it selected  *)
(* and has not advanced, nor to advance a token it did not select.         *)
RunnerContract == \A r \in Req : req[r].out # "misuse"

(* No request is accepted and then forgotten: once the worker has left its *)
(* loop, every accepted request has ended.                                 *)
NoRequestLost ==
  work.pc = "done" => \A r \in Req : req[r].handle # "none" => req[r].out # "none"

(* A decoder that is ready runs again after at most one prefill chunk of   *)
(* its peers.  Only one that has not run yet may wait longer: where more   *)
(* requests are resident than a batch is wide, each batch that ends before *)
(* its turn lets AssembleInitialBatch take another chunk.                  *)
DecodersGetTurns ==
  \A r \in Req : skipped[r] > 1 =>
    /\ req[r].tokens = <<>>
    /\ mode.multi /\ mode.width \in 2 .. mode.capacity - 1

(* Once a failure or the idle probe showed the device dead, no lease is    *)
(* returned to it: neither its own request's nor that of a batch peer that *)
(* succeeded.  A request already cancelled or past its deadline when the   *)
(* call fails is completed as such, before the device is probed.           *)
LossKeepsLeases ==
  [][\A r \in Req :
       (/\ lost' = "probe"
        /\ req[r].lease = "held" /\ req'[r].lease = "returned") =>
         lost = "no" /\ (req[r].cancel \/ req[r].expired)]_vars

(* Every accepted request reaches its end, whatever its consumer does, be  *)
(* it parked, captured or behind a call that takes long; under a stall     *)
(* monitor also when the capture the worker polls for it never completes.  *)
(* A capture the worker joins, or polls without a monitor, must end: no    *)
(* code bounds that wait.                                                  *)
EveryRequestEnds ==
  \A r \in Req : (req[r].handle # "none") ~> (req[r].out # "none")

(* A failing member of a batch does not take the scheduler, and with it    *)
(* every peer, down.                                                       *)
WorkerSurvives == work.pc # "terminated"

(* The stall monitor never counts a request that is still queued: a loss   *)
(* it declares has an admitted request, or a call under way, behind it.    *)
QueuedNeverStalls ==
  [][(lost = "no" /\ lost' = "stall") =>
       \/ work.pc \in {"acquire", "prefill", "prepare", "probe"}
       \/ \E r \in Req : req[r].lease = "held" /\ req[r].out = "none"]_vars
=============================================================================
