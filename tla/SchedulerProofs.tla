-------------------------- MODULE SchedulerProofs --------------------------
(***************************************************************************)
(* The text generation scheduler, for any number of requests, any prompts, *)
(* limits and runner pools.                                                *)
(*                                                                         *)
(* The invariant has three parts.  Each request is in one place: the       *)
(* queue, one of the worker's lists or its batch, and a counted one has a  *)
(* session of its own (Placed).  What a request has published, withheld    *)
(* and still to decode adds up to the model's output, in every phase of a  *)
(* work unit (Phases).  The decoders a chunk has passed over are due       *)
(* (Turning).                                                              *)
(***************************************************************************)
EXTENDS SchedulerLemmas

-----------------------------------------------------------------------------
(* What a consumer or a timer does to a request *)

\* The world after a step that applies w.
LEMMA ApplyIs ==
  ASSUME NEW w \in Worlds, Apply(w)
  PROVE  World' = w /\ req' = w.req /\ budget' = w.budget /\ lost' = w.lost
<1>1. req' = w.req /\ budget' = w.budget /\ lost' = w.lost
  BY DEF Apply
<1>2. World' = [req |-> w.req, budget |-> w.budget, lost |-> w.lost]
  BY <1>1 DEF World
<1>. QED
  BY <1>1, <1>2, WorldFacts

\* p is for the worker what q is.
Touched(q, p) ==
  /\ p.out = q.out /\ p.counted = q.counted /\ p.session = q.session /\ p.lease = q.lease
  /\ p.adv = q.adv /\ p.tokens = q.tokens /\ p.held = q.held /\ p.matched = q.matched
  /\ p.selected = q.selected /\ p.advancing = q.advancing /\ p.preview = q.preview
  /\ p.due = q.due

\* What a client's step keeps of a request.
LEMMA TouchedFacts ==
  ASSUME NEW q, NEW p, Touched(q, p)
  PROVE  /\ \A r : (Calm(r, q) => Calm(r, p)) /\ (Chosen(r, q) => Chosen(r, p))
         /\ \A r, d : Lane(r, q, d) => Lane(r, p, d)
         /\ Over(q) => Over(p)
  BY ZenonT(30) DEF Touched, Calm, Chosen, Lane, Over, Ahead

\* p is q after something a client, a capture thread or the clock did.
Disturbed(r, q, p) ==
  /\ p \in Requests /\ Touched(q, p) /\ (Stream(r, q) => Stream(r, p))
  /\ q.handle # "none"
  /\ \/ p.handle = q.handle
     \/ q.handle = "held" /\ p.handle = "dropped"

\* A change outside the output is one a client may make.
LEMMA LevelTouched ==
  ASSUME NEW r, NEW q \in Requests, NEW p \in Requests, Level(q, p), p.lease = q.lease,
         p.due = q.due, q.handle # "none"
  PROVE  Disturbed(r, q, p)
<1>1. Stream(r, q) => Stream(r, p)
  BY LevelFacts
<1>2. Touched(q, p) /\ p.handle = q.handle
  BY DEF Level, Touched, SameClient
<1>. QED
  BY <1>1, <1>2 DEF Disturbed

\* Two such changes make one.
LEMMA DisturbedTrans ==
  ASSUME NEW r, NEW q, NEW a, NEW p, Disturbed(r, q, a), Disturbed(r, a, p)
  PROVE  Disturbed(r, q, p)
<1>1. Touched(q, p)
  BY DEF Disturbed, Touched
<1>. QED
  BY <1>1 DEF Disturbed

\* The consumer takes the first piece.
TakenPiece(q) ==
  [q EXCEPT !.pieces = Tail(q.pieces), !.buffered = q.buffered - Cost(Head(q.pieces)),
            !.delivered = IF q.listening THEN q.delivered \o Head(q.pieces) ELSE q.delivered]

\* A client that takes a piece returns its cost.
LEMMA TakenPieceIs ==
  ASSUME NEW r \in Req, NEW q \in Requests, q.pieces # <<>>, q.handle # "none",
         NEW p, p = TakenPiece(q)
  PROVE  /\ Disturbed(r, q, p) /\ p.buffered = q.buffered - Cost(Head(q.pieces))
         /\ p.buffered <= q.buffered /\ p.handle = q.handle
<1>1. /\ q \in Records /\ q.buffered = CostOf(q.pieces) /\ q.pieces \in Seq(Seq(Nat))
      /\ q.delivered \in Seq(Nat)
  BY RequestFacts
<1>2. PICK h, s : h = Head(q.pieces) /\ s = Tail(q.pieces)
  BY ZenonT(30)
<1>3. /\ h \in Seq(Nat) /\ s \in Seq(Seq(Nat))
      /\ CostOf(q.pieces) = Cost(h) + CostOf(s) /\ Flat(q.pieces) = h \o Flat(s)
  BY <1>1, <1>2, PiecesTail, ZenonT(30)
<1>4. CostOf(s) \in Nat /\ Flat(s) \in Seq(Nat) /\ Cost(h) \in Nat
  BY <1>3, PiecesAppend, CostNat
<1>5. PICK b : b = q.buffered - Cost(h)
  OBVIOUS
<1>6. b \in Nat /\ b = CostOf(s) /\ b <= q.buffered
  BY <1>1, <1>3, <1>4, <1>5
<1>7. PICK d : d = IF q.listening THEN q.delivered \o h ELSE q.delivered
  BY ZenonT(30)
<1>8. d \in Seq(Nat)
  <2>1. q.delivered \o h \in Seq(Nat)
    BY <1>1, <1>3, ConcatProperties
  <2>. QED
    BY <1>1, <1>7, <2>1
<1>9. p = [q EXCEPT !.pieces = s, !.buffered = b, !.delivered = d]
  BY <1>2, <1>5, <1>7 DEF TakenPiece
<1>10. p \in Records
  BY <1>1, <1>3, <1>6, <1>8, <1>9, ZenonT(60) DEF Records
<1>11. /\ p.pieces = s /\ p.buffered = b /\ p.delivered = d
       /\ Touched(q, p) /\ p.handle = q.handle /\ p.listening = q.listening
  BY <1>1, <1>9 DEF Records, Touched
<1>12. p \in Requests
  BY <1>6, <1>10, <1>11 DEF Requests
<1>13. ASSUME q.listening PROVE Sent(p) = Sent(q)
  <2>1. d = q.delivered \o h
    BY <1>7, <1>13
  <2>2. (q.delivered \o h) \o Flat(s) = q.delivered \o (h \o Flat(s))
    BY <1>1, <1>3, <1>4, TextAssociative, ZenonT(30)
  <2>. QED
    BY <1>3, <1>11, <2>1, <2>2 DEF Sent
<1>14. ASSUME Stream(r, q) PROVE Stream(r, p)
  <2>1. r \in Streamed
    BY <1>14 DEF Stream
  <2>2. /\ p.tokens = q.tokens /\ p.matched = q.matched /\ p.held = q.held /\ p.out = q.out
        /\ p.listening = q.listening
    BY <1>11 DEF Touched
  <2>. QED
    BY <1>13, <1>14, <2>1, <2>2, ZenonT(30) DEF Stream
<1>. QED
  BY <1>2, <1>5, <1>6, <1>11, <1>12, <1>14 DEF Disturbed

\* It listens no longer.
Deaf(q) == [q EXCEPT !.listening = FALSE]

\* A client that goes away returns nothing.
LEMMA DeafIs ==
  ASSUME NEW r, NEW q \in Requests, q.handle # "none", NEW p, p = Deaf(q)
  PROVE  Disturbed(r, q, p) /\ p.buffered = q.buffered /\ p.handle = q.handle
<1>1. q \in Records
  BY RequestFacts
<1>2. p \in Records
  BY <1>1, ZenonT(60) DEF Deaf, Records
<1>3. /\ p.listening = FALSE /\ p.pieces = q.pieces /\ p.buffered = q.buffered
      /\ Touched(q, p) /\ p.handle = q.handle /\ p.delivered = q.delivered
  BY <1>1 DEF Deaf, Records, Touched
<1>4. p \in Requests
  BY <1>2, <1>3, RequestWith
<1>5. Stream(r, q) => Stream(r, p)
  BY <1>3 DEF Stream, Touched
<1>. QED
  BY <1>3, <1>4, <1>5 DEF Disturbed

\* Its client lets go of it.
Dropped(q) == [q EXCEPT !.handle = "dropped"]

\* A client that drops its handle cancels.
LEMMA DroppedIs ==
  ASSUME NEW r, NEW q \in Requests, q.handle = "held", NEW p, p = Dropped(q)
  PROVE  Disturbed(r, q, p) /\ p.buffered = q.buffered
<1>1. q \in Records
  BY RequestFacts
<1>2. p \in Records
  BY <1>1, ZenonT(60) DEF Dropped, Records
<1>3. /\ p.handle = "dropped" /\ p.pieces = q.pieces /\ p.buffered = q.buffered
      /\ Touched(q, p) /\ p.delivered = q.delivered /\ p.listening = q.listening
  BY <1>1 DEF Dropped, Records, Touched
<1>4. p \in Requests
  BY <1>2, <1>3, RequestWith
<1>5. Stream(r, q) => Stream(r, p)
  BY <1>3, ZenonT(30) DEF Stream, Touched, Sent
<1>. QED
  BY <1>3, <1>4, <1>5 DEF Disturbed

\* A client that cancels disturbs its request alone.
LEMMA CancelledIs ==
  ASSUME NEW r, NEW q \in Requests, q.handle # "none", NEW p, p = Cancelled(q)
  PROVE  Disturbed(r, q, p) /\ p.buffered = q.buffered
<1>1. CASE q.out = "none"
  <2>1. p = CancelSet(q)
    BY <1>1 DEF Cancelled, CancelSet
  <2>. QED
    BY <2>1, CancelSetIs, LevelTouched, ZenonT(30) DEF Level
<1>2. CASE q.out # "none"
  <2>1. p = q
    BY <1>2 DEF Cancelled
  <2>. QED
    BY <2>1 DEF Disturbed, Touched
<1>. QED
  BY <1>1, <1>2

-----------------------------------------------------------------------------
(* New requests and destroyed ones *)

\* A request that was never worked on.
Blank(q) ==
  /\ q.cancel = FALSE /\ q.counted = FALSE /\ q.session = 0 /\ q.adv = 0
  /\ q.selected = FALSE /\ q.advancing = FALSE /\ q.preview = FALSE
  /\ q.tokens = <<>> /\ q.pieces = <<>> /\ q.buffered = 0 /\ q.held = <<>>
  /\ q.matched = FALSE /\ q.delivered = <<>> /\ q.listening = TRUE
  /\ q.capture = "idle" /\ q.pub = "no" /\ q.lease = "none" /\ q.due = FALSE

\* What holds of a request nothing was done for.
LEMMA BlankFacts ==
  ASSUME NEW r \in Req, NEW q, Blank(q)
  PROVE  /\ q.out \in {"none", "ended"} => Stream(r, q)
         /\ Calm(r, q) /\ Over(q)
<1>1. TokenLimit[r] \in Nat \ {0}
  BY SchedulerAssumption
<1>2. Flat(<<>>) = <<>> /\ <<>> \o <<>> = <<>> /\ <<>> \in Seq(Nat)
  BY PiecesEmpty, TextEmpty, EmptySeq
<1>3. Sent(q) = <<>> /\ (Sent(q) \o q.held) \o <<>> = q.tokens
  BY <1>2 DEF Blank, Sent
<1>4. <<>> = [i \in 1 .. 0 |-> i] /\ Len(<<>>) = 0
  OBVIOUS
<1>5. q.tokens = [i \in 1 .. Len(q.tokens) |-> i] /\ Len(q.tokens) <= TokenLimit[r]
  BY <1>1, <1>4 DEF Blank
<1>6. Stream(r, q)
  BY <1>2, <1>3, <1>5, ZenonT(30) DEF Blank, Stream
<1>7. Calm(r, q)
  BY <1>1, <1>4 DEF Blank, Calm, Ahead
<1>. QED
  BY <1>6, <1>7 DEF Blank, Over

\* A request not yet submitted.
LEMMA FreshIs ==
  /\ FreshRequest \in Requests /\ Blank(FreshRequest)
  /\ FreshRequest.handle = "none" /\ FreshRequest.out = "none"
<1>1. <<>> \in Seq(Nat) /\ <<>> \in Seq(Seq(Nat))
  BY EmptySeq
<1>2. FreshRequest \in Records
  BY <1>1, ZenonT(60) DEF FreshRequest, Records, Outcome
<1>3. /\ Blank(FreshRequest)
      /\ FreshRequest.handle = "none" /\ FreshRequest.out = "none"
  BY DEF FreshRequest, Blank
<1>. QED
  BY <1>2, <1>3, PiecesEmpty DEF Requests, Blank

\* Its client holds it.
HeldNow(q) == [q EXCEPT !.handle = "held"]

\* A request destroyed before the scheduler took it.
Gone == [FreshRequest EXCEPT !.handle = "gone", !.out = "ended"]

\* A submitted request.
LEMMA HeldIs ==
  ASSUME NEW p, p = HeldNow(FreshRequest)
  PROVE  p \in Requests /\ Blank(p) /\ p.handle = "held" /\ p.out = "none"
<1>1. FreshRequest \in Records
  BY FreshIs, RequestFacts
<1>2. p \in Records
  BY <1>1, ZenonT(60) DEF HeldNow, Records
<1>3. Blank(p) /\ p.handle = "held" /\ p.out = "none"
  BY DEF HeldNow, FreshRequest, Blank
<1>. QED
  BY <1>2, <1>3, PiecesEmpty DEF Requests, Blank

\* A destroyed request.
LEMMA GoneIs ==
  /\ Gone \in Requests /\ Blank(Gone) /\ Gone.handle = "gone" /\ Gone.out = "ended"
<1>1. FreshRequest \in Records
  BY FreshIs, RequestFacts
<1>2. Gone \in Records
  BY <1>1, ZenonT(60) DEF Gone, Records, Outcome
<1>3. Blank(Gone) /\ Gone.handle = "gone" /\ Gone.out = "ended"
  BY DEF Gone, FreshRequest, Blank
<1>. QED
  BY <1>2, <1>3, PiecesEmpty DEF Requests, Blank

-----------------------------------------------------------------------------
(* Places that only the clients, the clock or admission change *)

\* No place changes while requests are only disturbed.
LEMMA PlacesDisturbed ==
  ASSUME NEW f, NEW g, NEW Q, NEW l, NEW B, Placement(f, Q, l, B), Seating(f),
         \A r \in Req : g[r] = f[r] \/ Disturbed(r, f[r], g[r])
  PROVE  Placement(g, Q, l, B) /\ Seating(g)
<1>1. \A r \in Req : g[r].out = f[r].out /\ g[r].counted = f[r].counted
                     /\ g[r].session = f[r].session
  BY DEF Disturbed, Touched
<1>2. \A r \in Req :
        /\ f[r].handle \in {"held", "dropped"} <=> g[r].handle \in {"held", "dropped"}
        /\ g[r].handle = "gone" => f[r].handle = "gone"
        /\ g[r].handle = "none" => g[r] = f[r]
  BY DEF Disturbed
<1>3. Apart(l) /\ B \subseteq Req /\ Q \subseteq Req /\ Members(l) \subseteq Req
      /\ Members(l) \cap B = {} /\ Q \cap (Members(l) \cup B) = {}
  BY DEF Placement
<1>4. /\ \A r \in Q \cup Members(l) : g[r].out = "none"
      /\ \A r \in Q \cup Members(l) \cup B : g[r].handle \in {"held", "dropped"}
  BY <1>1, <1>2 DEF Placement
<1>5. /\ \A r \in Req : g[r].handle = "none" => g[r] = FreshRequest
      /\ \A r \in Req : g[r].handle = "gone" => g[r].out # "none"
      /\ \A r \in Req : g[r].handle \in {"held", "dropped"} /\ g[r].out = "none" =>
           r \in Q \cup Members(l) \cup B
  BY <1>1, <1>2 DEF Placement
<1>6. /\ \A r \in Req : g[r].counted => r \in Members(l) \cup B
      /\ \A r \in Members(l) \cup B : g[r].out = "none" => g[r].counted
      /\ \A r \in Req : g[r].out # "none" => ~g[r].counted
  BY <1>1 DEF Placement
<1>7. Seating(g)
  BY <1>1 DEF Seating
<1>. QED
  BY <1>3, <1>4, <1>5, <1>6, <1>7 DEF Placement

\* f and g differ in r at most.
Beside(f, g, r) == \A x \in Req \ {r} : g[x] = f[x]

\* A new request joins the queue.
LEMMA PlacesSubmitted ==
  ASSUME NEW f, NEW g, NEW Q, NEW l, NEW B, Placement(f, Q, l, B), Seating(f),
         NEW r \in Req, Beside(f, g, r), f[r].handle = "none",
         Blank(g[r]), g[r].handle = "held", g[r].out = "none"
  PROVE  /\ r \notin Q \cup Members(l) \cup B
         /\ Placement(g, Q \cup {r}, l, B) /\ Seating(g)
<1>1. r \notin Q \cup Members(l) \cup B
  BY DEF Placement
<1>2. f[r] = FreshRequest
  BY DEF Placement
<1>3. f[r].counted = FALSE /\ f[r].session = 0 /\ g[r].counted = FALSE /\ g[r].session = 0
  BY <1>2, FreshIs DEF Blank
<1>4. \A x \in Req : g[x].counted = f[x].counted /\ g[x].session = f[x].session
  BY <1>3, ZenonT(30) DEF Beside
<1>5. Seating(g)
  BY <1>4 DEF Seating
<1>6. Apart(l) /\ B \subseteq Req /\ Q \cup {r} \subseteq Req /\ Members(l) \subseteq Req
      /\ Members(l) \cap B = {} /\ (Q \cup {r}) \cap (Members(l) \cup B) = {}
  BY <1>1 DEF Placement
<1>7. \A x \in Q \cup Members(l) \cup B : x # r /\ g[x] = f[x]
  BY <1>1, <1>6 DEF Beside
<1>8. /\ \A x \in Q \cup {r} \cup Members(l) : g[x].out = "none"
      /\ \A x \in Q \cup {r} \cup Members(l) \cup B : g[x].handle \in {"held", "dropped"}
  BY <1>7 DEF Placement
<1>9. /\ \A x \in Req : g[x].handle = "none" => g[x] = FreshRequest
      /\ \A x \in Req : g[x].handle = "gone" => g[x].out # "none"
      /\ \A x \in Req : g[x].handle \in {"held", "dropped"} /\ g[x].out = "none" =>
           x \in Q \cup {r} \cup Members(l) \cup B
  BY DEF Placement, Beside
<1>10. /\ \A x \in Req : g[x].counted => x \in Members(l) \cup B
       /\ \A x \in Members(l) \cup B : g[x].out = "none" => g[x].counted
       /\ \A x \in Req : g[x].out # "none" => ~g[x].counted
  BY <1>3, <1>4, <1>7 DEF Placement, Beside
<1>. QED
  BY <1>1, <1>5, <1>6, <1>8, <1>9, <1>10 DEF Placement

\* A request that is nowhere goes.
LEMMA PlacesDestroyed ==
  ASSUME NEW f, NEW g, NEW Q, NEW l, NEW B, Placement(f, Q, l, B), Seating(f),
         NEW r \in Req, Beside(f, g, r), r \notin Q \cup Members(l) \cup B,
         Blank(g[r]), g[r].handle = "gone", g[r].out # "none"
  PROVE  Placement(g, Q, l, B) /\ Seating(g)
<1>1. f[r].counted \notin {TRUE} /\ g[r].counted = FALSE /\ g[r].session = 0
  BY ZenonT(30) DEF Placement, Blank
<1>2. \A x \in Q \cup Members(l) \cup B : x # r /\ g[x] = f[x]
  BY DEF Placement, Beside
<1>3. /\ \A x \in Q \cup Members(l) : g[x].out = "none"
      /\ \A x \in Q \cup Members(l) \cup B : g[x].handle \in {"held", "dropped"}
  BY <1>2 DEF Placement
<1>4. /\ \A x \in Req : g[x].handle = "none" => g[x] = FreshRequest
      /\ \A x \in Req : g[x].handle = "gone" => g[x].out # "none"
      /\ \A x \in Req : g[x].handle \in {"held", "dropped"} /\ g[x].out = "none" =>
           x \in Q \cup Members(l) \cup B
  BY DEF Placement, Beside
<1>5. /\ \A x \in Req : g[x].counted => x \in Members(l) \cup B
      /\ \A x \in Members(l) \cup B : g[x].out = "none" => g[x].counted
      /\ \A x \in Req : g[x].out # "none" => ~g[x].counted
  BY <1>1, <1>2 DEF Placement, Beside
<1>6. Placement(g, Q, l, B)
  BY <1>3, <1>4, <1>5 DEF Placement
<1>7. \A x \in Req : g[x].counted <=> g[x].session # 0
  BY <1>1 DEF Seating, Beside
<1>8. \A x \in Req : g[x].session <= mode.capacity
  <2>1. f[r].session <= mode.capacity /\ f[r].session = 0
    BY <1>1, ZenonT(30) DEF Seating
  <2>. QED
    BY <1>1, <2>1 DEF Seating, Beside
<1>9. ASSUME NEW x \in Req, NEW y \in Req, g[x].counted, g[x].session = g[y].session
      PROVE  x = y
  <2>1. x # r /\ g[x] = f[x] /\ f[x].session # 0
    BY <1>1, <1>9, <1>7 DEF Beside
  <2>2. y # r /\ g[y] = f[y]
    BY <1>1, <1>9, <2>1 DEF Beside
  <2>. QED
    BY <1>9, <2>1, <2>2 DEF Seating
<1>. QED
  BY <1>6, <1>7, <1>8, <1>9 DEF Seating

\* A queued request is taken by the worker and given a free session.
LEMMA PlacesPopped ==
  ASSUME mode \in Modes,
         NEW f, NEW g, NEW Q, NEW l, Placement(f, Q, l, {}), Seating(f),
         NEW r \in Q, Beside(f, g, r), g[r].counted, g[r].session # 0,
         g[r].session <= mode.capacity, \A x \in Req : f[x].session # g[r].session,
         g[r].handle = f[r].handle, g[r].out = f[r].out
  PROVE  Placement(g, Q \ {r}, l, {r}) /\ Seating(g)
<1>1. /\ r \in Req /\ r \notin Members(l) /\ f[r].out = "none"
      /\ f[r].handle \in {"held", "dropped"}
  BY DEF Placement
<1>2. \A x \in Req : x # r => g[x] = f[x]
  BY DEF Beside
<1>3. /\ Apart(l) /\ {r} \subseteq Req /\ Q \ {r} \subseteq Req /\ Members(l) \subseteq Req
      /\ Members(l) \cap {r} = {} /\ (Q \ {r}) \cap (Members(l) \cup {r}) = {}
  BY <1>1 DEF Placement
<1>4. /\ \A x \in (Q \ {r}) \cup Members(l) : g[x].out = "none"
      /\ \A x \in (Q \ {r}) \cup Members(l) \cup {r} : g[x].handle \in {"held", "dropped"}
  BY <1>1, <1>2, <1>3 DEF Placement
<1>5. /\ \A x \in Req : g[x].handle = "none" => g[x] = FreshRequest
      /\ \A x \in Req : g[x].handle = "gone" => g[x].out # "none"
      /\ \A x \in Req : g[x].handle \in {"held", "dropped"} /\ g[x].out = "none" =>
           x \in (Q \ {r}) \cup Members(l) \cup {r}
  BY <1>1, <1>2 DEF Placement
<1>6. /\ \A x \in Req : g[x].counted => x \in Members(l) \cup {r}
      /\ \A x \in Members(l) \cup {r} : g[x].out = "none" => g[x].counted
      /\ \A x \in Req : g[x].out # "none" => ~g[x].counted
  BY <1>1, <1>2, <1>3 DEF Placement
<1>7. Placement(g, Q \ {r}, l, {r})
  BY <1>3, <1>4, <1>5, <1>6 DEF Placement
<1>8. \A x \in Req : g[x].counted <=> g[x].session # 0
  BY <1>2 DEF Seating
<1>9. \A x \in Req : g[x].session <= mode.capacity
  BY <1>2 DEF Seating
<1>10. ASSUME NEW x \in Req, NEW y \in Req, g[x].counted, g[x].session = g[y].session
       PROVE  x = y
  <2>1. CASE x = r
    BY <1>2, <1>10, <2>1
  <2>2. CASE x # r /\ y = r
    BY <1>2, <1>10, <2>2
  <2>3. CASE x # r /\ y # r
    BY <1>2, <1>10, <2>3 DEF Seating
  <2>. QED
    BY <2>1, <2>2, <2>3
<1>. QED
  BY <1>7, <1>8, <1>9, <1>10 DEF Seating

-----------------------------------------------------------------------------
(* A free session *)

\* The number of members of a sequence.
LEMMA MembersCount ==
  ASSUME NEW s \in Seq(Req)
  PROVE  /\ IsFiniteSet(ToSet(s)) /\ Cardinality(ToSet(s)) \in Nat
         /\ Cardinality(ToSet(s)) <= Len(s) /\ Len(s) \in Nat
         /\ Distinct(s) => Cardinality(ToSet(s)) = Len(s)
<1>1. Len(s) \in Nat /\ DOMAIN s = 1 .. Len(s) /\ ToSet(s) = {s[i] : i \in 1 .. Len(s)}
  BY SeqFacts
<1>2. PICK n : n = Len(s)
  OBVIOUS
<1>3. n \in Nat /\ IsFiniteSet(1 .. n) /\ Cardinality(1 .. n) = n
  <2>1. n \in Nat
    BY <1>1, <1>2
  <2>2. 1 \in Int /\ n \in Int
    BY <2>1
  <2>3. IsFiniteSet(1 .. n) /\ Cardinality(1 .. n) = IF 1 > n THEN 0 ELSE n - 1 + 1
    BY <2>2, FS_Interval
  <2>. QED
    BY <2>1, <2>3
<1>4. PICK h : h = [i \in 1 .. n |-> s[i]]
  BY ZenonT(30)
<1>5. h \in Surjection(1 .. n, ToSet(s))
  BY <1>1, <1>2, <1>4 DEF Surjection
<1>6. IsFiniteSet(ToSet(s)) /\ Cardinality(ToSet(s)) <= n
  BY <1>3, <1>5, FS_Surjection
<1>7. Cardinality(ToSet(s)) \in Nat
  BY <1>6, FS_CardinalityType
<1>8. ASSUME Distinct(s) PROVE Cardinality(ToSet(s)) = n
  <2>1. h \in Injection(1 .. n, ToSet(s))
    <3>1. \A i, j \in 1 .. n : h[i] = h[j] => i = j
      BY <1>1, <1>2, <1>4, <1>8 DEF Distinct
    <3>. QED
      BY <1>5, <3>1 DEF Injection, IsInjective, Surjection
  <2>2. Cardinality(ToSet(s)) = Cardinality(1 .. n)
    BY <1>3, <1>5, <2>1, FS_Surjection
  <2>. QED
    BY <1>3, <2>2
<1>. QED
  BY <1>2, <1>3, <1>6, <1>7, <1>8

\* The number of members of two sets together.
LEMMA UnionCount ==
  ASSUME NEW A, NEW B, IsFiniteSet(A), IsFiniteSet(B), NEW m \in Nat, NEW n \in Nat,
         Cardinality(A) <= m, Cardinality(B) <= n
  PROVE  IsFiniteSet(A \cup B) /\ Cardinality(A \cup B) <= m + n
<1>1. Cardinality(A) \in Nat /\ Cardinality(B) \in Nat
  BY FS_CardinalityType
<1>2. /\ IsFiniteSet(A \cup B)
      /\ Cardinality(A \cup B) = Cardinality(A) + Cardinality(B) - Cardinality(A \cap B)
  BY FS_Union
<1>3. Cardinality(A \cap B) \in Nat
  BY FS_Intersection, FS_CardinalityType, ZenonT(30)
<1>. QED
  BY <1>1, <1>2, <1>3

\* The lists hold as many requests as they are long, at most.
LEMMA ListsCount ==
  ASSUME NEW l \in ListType
  PROVE  /\ IsFiniteSet(Members(l)) /\ Cardinality(Members(l)) \in Nat
         /\ Cardinality(Members(l)) <= Residents(l) + Len(l.waiting)
         /\ Residents(l) \in Nat /\ Len(l.waiting) \in Nat
<1>1. /\ l.prefilling \in Seq(Req) /\ l.decoding \in Seq(Req)
      /\ l.capturing \in Seq(Req) /\ l.waiting \in Seq(Req)
  BY ListFacts
<1>2. PICK A, B, C, D : /\ A = ToSet(l.prefilling) /\ B = ToSet(l.decoding)
                        /\ C = ToSet(l.capturing) /\ D = ToSet(l.waiting)
  OBVIOUS
<1>3. PICK a, b, c, d : /\ a = Len(l.prefilling) /\ b = Len(l.decoding)
                        /\ c = Len(l.capturing) /\ d = Len(l.waiting)
  BY ZenonT(30)
<1>4. /\ IsFiniteSet(A) /\ Cardinality(A) <= a /\ a \in Nat
      /\ IsFiniteSet(B) /\ Cardinality(B) <= b /\ b \in Nat
      /\ IsFiniteSet(C) /\ Cardinality(C) <= c /\ c \in Nat
      /\ IsFiniteSet(D) /\ Cardinality(D) <= d /\ d \in Nat
  BY <1>1, <1>2, <1>3, MembersCount, ZenonT(30)
<1>0. a + b \in Nat /\ (a + b) + c \in Nat
  BY <1>4
<1>5. IsFiniteSet(A \cup B) /\ Cardinality(A \cup B) <= a + b
  BY <1>4, UnionCount, ZenonT(30)
<1>6. IsFiniteSet(A \cup B \cup C) /\ Cardinality(A \cup B \cup C) <= (a + b) + c
  BY <1>0, <1>4, <1>5, UnionCount, ZenonT(30)
<1>7. /\ IsFiniteSet(A \cup B \cup C \cup D)
      /\ Cardinality(A \cup B \cup C \cup D) <= ((a + b) + c) + d
  BY <1>0, <1>4, <1>6, UnionCount, ZenonT(30)
<1>8. Members(l) = A \cup B \cup C \cup D /\ Residents(l) = (a + b) + c
  BY <1>2, <1>3 DEF Members, Residents
<1>9. Cardinality(Members(l)) \in Nat
  BY <1>7, <1>8, FS_CardinalityType
<1>. QED
  BY <1>0, <1>3, <1>4, <1>7, <1>8, <1>9, ZenonT(30)

\* Where fewer requests are held than there are sessions, one is free.
LEMMA SessionFree ==
  ASSUME mode \in Modes, NEW l \in ListType,
         Residents(l) + Len(l.waiting) < mode.capacity,
         req \in [Req -> Requests], Seating(req), \A r \in Req : req[r].counted => r \in Members(l),
         NEW k, k = IF FreeSessions = {} THEN 0 ELSE Min(FreeSessions)
  PROVE  /\ k \in Nat /\ k # 0 /\ k <= mode.capacity
         /\ \A r \in Req : req[r].session # k
<1>1. PICK c : c = mode.capacity
  OBVIOUS
<1>2. c \in Nat /\ c # 0
  BY <1>1, ModeFacts
<1>3. PICK h : h = [r \in Members(l) |-> req[r].session]
  BY ZenonT(30)
<1>4. FreeSessions # {}
  <2>. SUFFICES ASSUME FreeSessions = {} PROVE FALSE
    OBVIOUS
  <2>1. \A n \in 1 .. c : \E r \in Req : req[r].session = n
    BY <1>1 DEF FreeSessions
  <2>2. \A n \in 1 .. c : \E r \in Members(l) : h[r] = n
    BY <1>3, <2>1 DEF Seating
  <2>3. PICK m : m = [n \in 1 .. c |-> CHOOSE r \in Members(l) : h[r] = n]
    BY ZenonT(30)
  <2>10. ASSUME NEW n \in 1 .. c PROVE m[n] \in Members(l) /\ h[m[n]] = n
    <3>1. m[n] = CHOOSE r \in Members(l) : h[r] = n
      BY <2>3
    <3>2. \E r \in Members(l) : h[r] = n
      BY <2>2
    <3>. QED
      BY <3>1, <3>2, ZenonT(30)
  <2>11. m \in [1 .. c -> Members(l)]
    BY <2>3, <2>10
  <2>4. m \in Injection(1 .. c, Members(l))
    <3>1. \A i, j \in 1 .. c : m[i] = m[j] => i = j
      BY <2>10
    <3>. QED
      BY <2>11, <3>1 DEF Injection, IsInjective
  <2>5. IsFiniteSet(Members(l)) /\ Cardinality(Members(l)) < c
    BY <1>1, <1>2, ListsCount
  <2>6. Cardinality(1 .. c) <= Cardinality(Members(l))
    BY <2>4, <2>5, FS_Injection
  <2>7. Cardinality(1 .. c) = c
    <3>1. 1 \in Int /\ c \in Int
      BY <1>2
    <3>2. Cardinality(1 .. c) = IF 1 > c THEN 0 ELSE c - 1 + 1
      BY <3>1, FS_Interval
    <3>. QED
      BY <1>2, <3>2
  <2>8. Cardinality(Members(l)) \in Nat
    BY ListsCount
  <2>. QED
    BY <1>2, <2>5, <2>6, <2>7, <2>8
<1>5. PICK F : F = FreeSessions
  OBVIOUS
<1>6. F \subseteq Nat /\ F # {} /\ F \subseteq 1 .. c
  BY <1>1, <1>2, <1>4, <1>5 DEF FreeSessions
<1>7. \E x \in F : \A y \in F : x <= y
  BY <1>6, LeastNat
<1>8. Min(F) \in F
  BY <1>7, ZenonT(30) DEF Min
<1>9. k \in F
  BY <1>4, <1>5, <1>8
<1>10. k \in 1 .. c /\ \A r \in Req : req[r].session # k
  BY <1>1, <1>5, <1>9, ZenonT(30) DEF FreeSessions
<1>. QED
  BY <1>1, <1>2, <1>10

-----------------------------------------------------------------------------
(* Every request has its place *)

\* The places of the worker.
Counters == {"top", "admit", "acquire", "idle", "probe", "prefill", "prepare",
             "publish", "drain", "done", "terminated"}

\* The states of its work unit.
Works ==
  [pc : Counters, batch : Seq(Req), todo : Seq(Req), ready : Seq(Req),
   step : [Req -> Steps], decoding : BOOLEAN, peer : BOOLEAN, multi : BOOLEAN]

\* Where the worker holds no batch.
Between == {"top", "admit", "idle", "probe", "drain", "done"}

\* A lane whose first token is published.
Begun(d) == d.kind = "tokens" /\ d.begun

\* The batch b of the worker at each program counter, f being the requests and
\* l the state of the device.  A lone request is not run after a failed probe,
\* and only the first lane is begun, before one.
Batching(b, f, l) ==
  /\ Distinct(b.batch)
  /\ b.pc \in Between => b.batch = <<>>
  /\ b.pc \in {"acquire", "prefill"} => Len(b.batch) = 1 /\ f[Head(b.batch)].out = "none"
  /\ b.pc \in {"prepare", "publish", "terminated"} =>
       /\ Distinct(b.todo) /\ Distinct(b.ready)
       /\ ToSet(b.todo) \cup ToSet(b.ready) \subseteq ToSet(b.batch)
       /\ \A r \in ToSet(b.todo) : f[r].out = "none"
  /\ b.pc = "prepare" =>
       /\ ToSet(b.todo) \cap ToSet(b.ready) = {}
       /\ Len(b.batch) = 1 /\ b.ready # <<>> => l # "probe"
       /\ \A r \in ToSet(b.ready) : f[r].out = "none"
  /\ b.pc \in {"publish", "terminated"} =>
       /\ b.todo # <<>> /\ ToSet(b.todo) \subseteq ToSet(b.ready)
       /\ Len(b.ready) = 1 => l # "probe"
       /\ \A r \in ToSet(b.todo) : Begun(b.step[r]) => r = Head(b.todo) /\ l # "probe"

\* The worker leaves its loop for a reason, and nothing behind.
Draining(b, stop, l, c, k) ==
  /\ b.pc \in {"drain", "done"} => stop \/ l # "no"
  /\ b.pc = "done" => QueuedIn(c) \cup Members(k) = {}

\* Every request is in one place, with the counters and sessions that go with it.
Placed ==
  /\ World \in Worlds /\ mode \in Modes /\ eos \in EosChoices
  /\ lists \in ListType /\ Lined(clients) /\ work \in Works
  /\ streak \in Nat /\ skipped \in [Req -> Nat] /\ stopping \in BOOLEAN
  /\ Batching(work, req, lost)
  /\ Placement(req, QueuedIn(clients), lists, ToSet(work.batch)) /\ Seating(req)
  /\ Draining(work, stopping, lost, clients, lists)

\* What most steps need of it.
LEMMA PlacedFacts ==
  ASSUME Placed
  PROVE  /\ World \in Worlds /\ World.req = req /\ World.budget = budget /\ World.lost = lost
         /\ req \in [Req -> Requests] /\ lost \in {"no", "probe", "stall"}
         /\ mode \in Modes /\ eos \in EosChoices /\ lists \in ListType /\ Apart(lists)
         /\ Lined(clients) /\ work \in Works /\ Batching(work, req, lost)
         /\ Placement(req, QueuedIn(clients), lists, ToSet(work.batch)) /\ Seating(req)
<1>1. World.req = req /\ World.budget = budget /\ World.lost = lost
  BY DEF World
<1>2. World.req \in [Req -> Requests] /\ World.lost \in {"no", "probe", "stall"}
  BY WorldFacts DEF Placed
<1>. QED
  BY <1>1, <1>2 DEF Placed, Placement

\* The fields of what the worker holds.
LEMMA WorkFacts ==
  ASSUME NEW b \in Works
  PROVE  /\ b.pc \in Counters /\ b.batch \in Seq(Req) /\ b.todo \in Seq(Req)
         /\ b.ready \in Seq(Req) /\ b.step \in [Req -> Steps]
         /\ b.decoding \in BOOLEAN /\ b.peer \in BOOLEAN /\ b.multi \in BOOLEAN
         /\ ToSet(b.batch) \subseteq Req /\ ToSet(b.todo) \subseteq Req
         /\ ToSet(b.ready) \subseteq Req
         /\ \A r \in Req : b.step[r] \in Steps
<1>1. /\ b.pc \in Counters /\ b.batch \in Seq(Req) /\ b.todo \in Seq(Req)
      /\ b.ready \in Seq(Req) /\ b.step \in [Req -> Steps]
      /\ b.decoding \in BOOLEAN /\ b.peer \in BOOLEAN /\ b.multi \in BOOLEAN
  BY DEF Works
<1>. QED
  BY <1>1, SeqFacts

\* A lane without a result.
LEMMA StepNone == [kind |-> "none"] \in Steps
  BY DEF Steps

\* The worker without a unit.
LEMMA IdleIs ==
  /\ Idle \in Works /\ Idle.pc = "top" /\ Idle.batch = <<>> /\ ToSet(Idle.batch) = {}
  /\ Distinct(Idle.batch)
<1>1. PICK s : s = [r \in Req |-> [kind |-> "none"]]
  BY ZenonT(30)
<1>2. s \in [Req -> Steps]
  BY <1>1, StepNone
<1>3. /\ Idle = [pc |-> "top", batch |-> <<>>, todo |-> <<>>, ready |-> <<>>, step |-> s,
                 decoding |-> FALSE, peer |-> FALSE, multi |-> FALSE]
  BY <1>1 DEF Idle
<1>4. <<>> \in Seq(Req)
  BY EmptySeq
<1>5. Idle \in Works
  BY <1>2, <1>3, <1>4, ZenonT(30) DEF Works, Counters
<1>6. Idle.pc = "top" /\ Idle.batch = <<>>
  BY <1>3
<1>. QED
  BY <1>5, <1>6, ShortMembers

\* The lists at the start, and at the end.
NoLists == Sorted(<<>>, <<>>, <<>>, <<>>)

\* The empty lists.
LEMMA NoListsAre ==
  NoLists \in ListType /\ Apart(NoLists) /\ Members(NoLists) = {}
<1>1. <<>> \in Seq(Req) /\ ToSet(<<>>) = {} /\ Distinct(<<>>)
  BY EmptySeq, ShortMembers
<1>2. Parted(<<>>, <<>>, <<>>, <<>>)
  BY <1>1 DEF Parted
<1>. QED
  BY <1>1, <1>2, PartedIs DEF NoLists

\* The empty queue.
LEMMA NoQueue ==
  Lined(<<>>) /\ QueuedIn(<<>>) = {}
<1>1. <<>> \in Seq(Entries) /\ ToSet(<<>>) = {} /\ Distinct(<<>>)
  BY EmptySeq, ShortMembers
<1>. QED
  BY <1>1 DEF Lined, QueuedIn

\* No batch.
LEMMA BatchingNone ==
  ASSUME NEW b, b.pc \in Between, b.batch = <<>>, NEW f, NEW l
  PROVE  Batching(b, f, l)
<1>1. b.pc \notin {"acquire", "prefill", "prepare", "publish", "terminated"}
  BY DEF Between
<1>2. Distinct(b.batch)
  BY ShortMembers
<1>. QED
  BY <1>1, <1>2 DEF Batching

\* It holds initially.
LEMMA PlacedInit ==
  ASSUME Init
  PROVE  Placed
<1>1. \A r \in Req : req[r] = FreshRequest
  BY DEF Init
<1>2. /\ FreshRequest \in Requests /\ Blank(FreshRequest)
      /\ FreshRequest.handle = "none" /\ FreshRequest.out = "none"
  BY FreshIs
<1>3. req \in [Req -> Requests]
  BY <1>2 DEF Init
<1>4. World \in Worlds
  <2>1. \A r \in Req : req[r].buffered = 0
    BY <1>1, <1>2 DEF Blank
  <2>2. SumOf(Buffers(req), Req) = 0
    BY <1>3, <2>1, BuffersFresh
  <2>3. budget = 0 /\ lost = "no" /\ 0 <= MaxTotal
    BY SchedulerAssumption DEF Init
  <2>4. /\ World.req = req /\ World.budget = 0 /\ World.lost = "no"
        /\ World \in [req : [Req -> Requests], budget : Nat, lost : {"no", "probe", "stall"}]
    BY <1>3, <2>3 DEF World
  <2>. QED
    BY <2>2, <2>3, <2>4 DEF Worlds
<1>5. mode \in Modes /\ eos \in EosChoices /\ streak \in Nat /\ stopping \in BOOLEAN
      /\ skipped \in [Req -> Nat]
  BY ZenonT(30) DEF Init
<1>6. lists = NoLists /\ clients = <<>> /\ work = Idle
  BY DEF Init, NoLists, Sorted
<1>7. Batching(work, req, lost) /\ work \in Works /\ ToSet(work.batch) = {}
  BY <1>6, IdleIs, BatchingNone DEF Between
<1>8. Lined(clients) /\ QueuedIn(clients) = {} /\ lists \in ListType
      /\ Apart(lists) /\ Members(lists) = {}
  BY <1>6, NoListsAre, NoQueue
<1>9. \A r \in Req : /\ req[r].handle = "none" /\ req[r].out = "none"
                     /\ req[r].counted = FALSE /\ req[r].session = 0
  BY <1>1, <1>2 DEF Blank
<1>10. Placement(req, QueuedIn(clients), lists, ToSet(work.batch))
  BY <1>1, <1>7, <1>8, <1>9 DEF Placement
<1>11. Seating(req)
  <2>1. 0 <= mode.capacity
    BY <1>5, ModeFacts
  <2>. QED
    BY <1>9, <2>1 DEF Seating
<1>12. Draining(work, stopping, lost, clients, lists)
  BY <1>6, IdleIs DEF Draining
<1>. QED
  BY <1>4, <1>5, <1>7, <1>8, <1>10, <1>11, <1>12 DEF Placed

-----------------------------------------------------------------------------
(* The other threads *)

\* A batch stays what it is while its requests go on.
LEMMA BatchingKept ==
  ASSUME NEW b, NEW f, NEW g, NEW l, NEW m, Batching(b, f, l),
         b \in Works, \A r \in Req : f[r].out = "none" => g[r].out = "none",
         m = "probe" => l = "probe"
  PROVE  Batching(b, g, m)
<1>1. ToSet(b.todo) \subseteq Req /\ ToSet(b.ready) \subseteq Req /\ ToSet(b.batch) \subseteq Req
      /\ b.batch \in Seq(Req)
  BY WorkFacts
<1>2. Len(b.batch) = 1 => Head(b.batch) \in Req
  BY <1>1, HeadTailMembers
<1>. QED
  BY <1>1, <1>2 DEF Batching

\* A step of another thread that ends no request.
LEMMA OutsideKeeps ==
  ASSUME Placed, Outside, World' \in Worlds, clients' = clients,
         lost' \in {lost, "stall"}, stopping' \in {stopping, TRUE},
         \A r \in Req : req'[r] = req[r] \/ Disturbed(r, req[r], req'[r])
  PROVE  Placed'
<1>1. /\ mode' = mode /\ eos' = eos /\ lists' = lists /\ work' = work
      /\ streak' = streak /\ skipped' = skipped
  BY DEF Outside
<1>2. Placement(req', QueuedIn(clients), lists, ToSet(work.batch)) /\ Seating(req')
  BY PlacedFacts, PlacesDisturbed
<1>3. \A r \in Req : req[r].out = "none" => req'[r].out = "none"
  BY DEF Disturbed, Touched
<1>4. Batching(work, req', lost')
  BY <1>3, BatchingKept, PlacedFacts
<1>5. Draining(work, stopping', lost', clients, lists)
  BY ZenonT(30) DEF Placed, Draining
<1>6. Seating(req)'
  BY <1>1, <1>2 DEF Seating
<1>. QED
  BY <1>1, <1>2, <1>4, <1>5, <1>6, ZenonT(30) DEF Placed

\* Only one request is changed, and what it releases of the budget.
LEMMA OneDisturbed ==
  ASSUME Placed, NEW r \in Req, NEW p \in Requests, req' = [req EXCEPT ![r] = p],
         budget' = budget - req[r].buffered + p.buffered, lost' = lost,
         p.buffered <= req[r].buffered
  PROVE  /\ World' \in Worlds /\ req'[r] = p
         /\ \A x \in Req \ {r} : req'[x] = req[x]
<1>1. World' = Put(World, r, p, lost)
  BY PlacedFacts DEF World, Put
<1>2. Serves(World, World', r) /\ World'.req[r] = p
  BY <1>1, PlacedFacts, PutServes
<1>3. World'.req = req'
  BY DEF World
<1>. QED
  BY <1>2, <1>3, PlacedFacts DEF Serves

\* A client that takes a piece disturbs its request alone.
LEMMA TakePieceIs ==
  ASSUME Placed, NEW r \in Req, TakePiece(r)
  PROVE  /\ World' \in Worlds
         /\ \A x \in Req : req'[x] = req[x] \/ Disturbed(x, req[x], req'[x])
<1>1. PICK q \in Requests : q = req[r]
  BY PlacedFacts
<1>2. q.handle = "held" /\ q.pieces # <<>>
  BY <1>1 DEF TakePiece
<1>3. PICK p : p = TakenPiece(q)
  OBVIOUS
<1>4. /\ Disturbed(r, q, p) /\ p.buffered = q.buffered - Cost(Head(q.pieces))
      /\ p.buffered <= q.buffered /\ p \in Requests /\ p.handle = "held"
  BY <1>2, <1>3, TakenPieceIs DEF Disturbed
<1>5. PICK z : /\ req' = [req EXCEPT ![r] = z] /\ z \in {p, Cancelled(Deaf(p))}
  <2>1. \E accepted \in BOOLEAN :
          req' = [req EXCEPT ![r] = IF accepted THEN p ELSE Cancelled(Deaf(p))]
    BY <1>1, <1>3, ZenonT(30) DEF TakePiece, TakenPiece, Deaf
  <2>2. PICK accepted \in BOOLEAN :
          req' = [req EXCEPT ![r] = IF accepted THEN p ELSE Cancelled(Deaf(p))]
    BY <2>1, ZenonT(30)
  <2>3. PICK z : z = IF accepted THEN p ELSE Cancelled(Deaf(p))
    OBVIOUS
  <2>. QED
    BY <2>2, <2>3, ZenonT(30)
<1>6. PICK e : e = Deaf(p)
  OBVIOUS
<1>7. Disturbed(r, p, e) /\ e.buffered = p.buffered /\ e \in Requests /\ e.handle = "held"
  BY <1>4, <1>6, DeafIs DEF Disturbed
<1>8. PICK c : c = Cancelled(e)
  OBVIOUS
<1>9. Disturbed(r, e, c) /\ c.buffered = p.buffered
  BY <1>7, <1>8, CancelledIs
<1>10. Disturbed(r, q, z) /\ z.buffered = p.buffered /\ z \in Requests
  <2>1. Disturbed(r, q, e)
    BY <1>4, <1>7, DisturbedTrans
  <2>2. Disturbed(r, q, c)
    BY <1>9, <2>1, DisturbedTrans
  <2>3. z \in {p, c}
    BY <1>5, <1>6, <1>8
  <2>. QED
    BY <1>4, <1>9, <2>2, <2>3 DEF Disturbed
<1>11. budget' = budget - req[r].buffered + z.buffered
  <2>1. budget' = budget - Cost(Head(q.pieces))
    BY <1>1 DEF TakePiece
  <2>2. Cost(Head(q.pieces)) \in Nat /\ q.buffered \in Nat /\ budget \in Nat
    <3>1. Head(q.pieces) \in Seq(Nat)
      BY <1>2, RequestFacts, PiecesTail
    <3>2. World.budget \in Nat
      BY PlacedFacts, WorldFacts
    <3>. QED
      BY <3>1, <3>2, CostNat, RequestFacts, PlacedFacts
  <2>. QED
    BY <1>1, <1>4, <1>10, <2>1, <2>2
<1>12. lost' = lost
  BY DEF TakePiece
<1>. QED
  BY <1>1, <1>4, <1>5, <1>10, <1>11, <1>12, OneDisturbed, ZenonT(30)

\* The request r is disturbed, its queue left alone.
LEMMA LoneDisturbed ==
  ASSUME Placed, NEW r \in Req, NEW p, req' = [req EXCEPT ![r] = p],
         budget' = budget, lost' = lost, Disturbed(r, req[r], p),
         p.buffered = req[r].buffered
  PROVE  /\ World' \in Worlds
         /\ \A x \in Req : req'[x] = req[x] \/ Disturbed(x, req[x], req'[x])
<1>1. p \in Requests /\ req[r].buffered \in Nat
  BY PlacedFacts, RequestFacts DEF Disturbed
<1>2. budget \in Nat
  BY PlacedFacts, WorldFacts
<1>3. budget' = budget - req[r].buffered + p.buffered
  BY <1>1, <1>2
<1>4. p.buffered <= req[r].buffered
  BY <1>1
<1>5. /\ World' \in Worlds /\ req'[r] = p
      /\ \A x \in Req \ {r} : req'[x] = req[x]
  BY <1>1, <1>3, <1>4, OneDisturbed, ZenonT(30)
<1>. QED
  BY <1>5

\* So does one that drops its handle.
LEMMA DropHandleIs ==
  ASSUME Placed, NEW r \in Req, DropHandle(r)
  PROVE  /\ World' \in Worlds
         /\ \A x \in Req : req'[x] = req[x] \/ Disturbed(x, req[x], req'[x])
<1>1. PICK q \in Requests : q = req[r]
  BY PlacedFacts
<1>2. PICK d : d = Dropped(q)
  OBVIOUS
<1>3. PICK p : p = Cancelled(d)
  OBVIOUS
<1>4. /\ req' = [req EXCEPT ![r] = p] /\ budget' = budget /\ lost' = lost
      /\ q.handle = "held"
  BY <1>1, <1>2, <1>3 DEF DropHandle, Dropped
<1>5. Disturbed(r, q, d) /\ d.buffered = q.buffered /\ d \in Requests /\ d.handle = "dropped"
  <2>1. Disturbed(r, q, d) /\ d.buffered = q.buffered
    BY <1>2, <1>4, DroppedIs
  <2>2. q \in Records
    BY RequestFacts
  <2>3. d.handle = "dropped"
    BY <1>2, <2>2 DEF Dropped, Records
  <2>. QED
    BY <2>1, <2>3 DEF Disturbed
<1>6. Disturbed(r, d, p) /\ p.buffered = q.buffered
  BY <1>3, <1>5, CancelledIs
<1>7. Disturbed(r, q, p)
  BY <1>5, <1>6, DisturbedTrans
<1>. QED
  BY <1>1, <1>4, <1>6, <1>7, LoneDisturbed, ZenonT(30)

\* So does a deadline that passes.
LEMMA ExpireIs ==
  ASSUME Placed, NEW r \in Req, Expire(r)
  PROVE  /\ World' \in Worlds
         /\ \A x \in Req : req'[x] = req[x] \/ Disturbed(x, req[x], req'[x])
<1>1. PICK q \in Requests : q = req[r]
  BY PlacedFacts
<1>2. PICK p : p = Expired(q)
  OBVIOUS
<1>3. req' = [req EXCEPT ![r] = p] /\ budget' = budget /\ lost' = lost /\ q.handle # "none"
  BY <1>1, <1>2 DEF Expire, Expired
<1>4. /\ p \in Requests /\ Level(q, p) /\ p.lease = q.lease /\ p.due = q.due
      /\ p.buffered = q.buffered
  BY <1>2, ExpiredIs, ZenonT(30) DEF Level
<1>5. Disturbed(r, q, p)
  BY <1>3, <1>4, LevelTouched
<1>. QED
  BY <1>1, <1>3, <1>4, <1>5, LoneDisturbed, ZenonT(30)

\* A request that was never accepted is as it was at the start.
LEMMA Unaccepted ==
  ASSUME Placed, NEW r \in Req, req[r].handle = "none"
  PROVE  Blank(req[r]) /\ req[r] = FreshRequest
<1>1. req[r] = FreshRequest
  BY PlacedFacts DEF Placement
<1>. QED
  BY <1>1, FreshIs

\* So does a capture that completes.
LEMMA CaptureDoneIs ==
  ASSUME Placed, NEW r \in Req, CaptureDone(r)
  PROVE  /\ World' \in Worlds
         /\ \A x \in Req : req'[x] = req[x] \/ Disturbed(x, req[x], req'[x])
<1>1. PICK q \in Requests : q = req[r]
  BY PlacedFacts
<1>2. PICK p : p = Captured(q, "idle")
  OBVIOUS
<1>3. req' = [req EXCEPT ![r] = p] /\ budget' = budget /\ lost' = lost
  BY <1>1, <1>2 DEF CaptureDone, Captured
<1>4. q.handle # "none"
  <2>1. q.capture = "running"
    BY <1>1 DEF CaptureDone
  <2>. QED
    BY <1>1, <2>1, Unaccepted, ZenonT(30) DEF Blank
<1>5. /\ p \in Requests /\ Level(q, p) /\ p.lease = q.lease /\ p.due = q.due
      /\ p.buffered = q.buffered
  <2>1. "idle" \in CaptureState
    BY DEF CaptureState
  <2>. QED
    BY <1>2, <2>1, CapturedIs DEF Level
<1>6. Disturbed(r, q, p)
  BY <1>4, <1>5, LevelTouched
<1>. QED
  BY <1>1, <1>3, <1>5, <1>6, LoneDisturbed, ZenonT(30)

\* So does the worker's call that begins one: its request is in the batch.
LEMMA BeginCaptureIs ==
  ASSUME Placed, BeginCapture
  PROVE  /\ World' \in Worlds
         /\ \A x \in Req : req'[x] = req[x] \/ Disturbed(x, req[x], req'[x])
<1>1. PICK r : r = Head(work.batch)
  OBVIOUS
<1>2. r \in Req /\ r \in ToSet(work.batch)
  <2>1. work \in Works /\ Len(work.batch) = 1
    BY PlacedFacts DEF BeginCapture, Batching
  <2>2. work.batch \in Seq(Req)
    BY <2>1, WorkFacts
  <2>3. work.batch # <<>>
    BY <2>1, <2>2, EmptySeq
  <2>. QED
    BY <1>1, <2>2, <2>3, HeadTailMembers
<1>3. PICK q \in Requests : q = req[r]
  BY <1>2, PlacedFacts
<1>4. PICK p : p = Captured(q, "running")
  OBVIOUS
<1>5. req' = [req EXCEPT ![r] = p] /\ budget' = budget /\ lost' = lost
  BY <1>1, <1>3, <1>4 DEF BeginCapture, Captured
<1>6. q.handle # "none"
  BY <1>2, <1>3, PlacedFacts DEF Placement
<1>7. /\ p \in Requests /\ Level(q, p) /\ p.lease = q.lease /\ p.due = q.due
      /\ p.buffered = q.buffered
  <2>1. "running" \in CaptureState
    BY DEF CaptureState
  <2>. QED
    BY <1>4, <2>1, CapturedIs DEF Level
<1>8. Disturbed(r, q, p)
  BY <1>6, <1>7, LevelTouched
<1>. QED
  BY <1>2, <1>3, <1>5, <1>7, <1>8, LoneDisturbed, ZenonT(30)

\* The wait for a publication grows older.
Older(f) ==
  [r \in Req |-> IF f[r].pub = "waiting" THEN Aged(f[r], Min({f[r].age + 1, WaitTicks}))
                 ELSE f[r]]

\* A waiting request grows older.
LEMMA OlderIs ==
  ASSUME NEW f \in [Req -> Requests], NEW r \in Req,
         f[r].pub = "waiting" => f[r].handle # "none"
  PROVE  /\ Older(f)[r] \in Requests /\ Older(f)[r].buffered = f[r].buffered
         /\ Older(f)[r] = f[r] \/ Disturbed(r, f[r], Older(f)[r])
<1>1. PICK q \in Requests : q = f[r]
  OBVIOUS
<1>2. CASE q.pub = "waiting"
  <2>1. PICK n : n = Min({q.age + 1, WaitTicks})
    OBVIOUS
  <2>2. n \in Nat
    <3>1. q.age \in Nat /\ WaitTicks \in Nat
      <4>1. q \in Records
        BY RequestFacts
      <4>2. q.age \in Nat
        BY <4>1 DEF Records
      <4>. QED
        BY <4>2, SchedulerAssumption
    <3>2. q.age + 1 \in Int /\ WaitTicks \in Int
      BY <3>1
    <3>3. n \in {q.age + 1, WaitTicks}
      BY <2>1, <3>2, MinTwo, ZenonT(30)
    <3>. QED
      BY <3>1, <3>3
  <2>3. PICK p : p = Aged(q, n)
    OBVIOUS
  <2>4. /\ p \in Requests /\ Level(q, p) /\ p.lease = q.lease /\ p.due = q.due
        /\ p.buffered = q.buffered
    BY <2>2, <2>3, AgedIs DEF Level
  <2>5. Older(f)[r] = p
    BY <1>1, <1>2, <2>1, <2>3 DEF Older
  <2>6. Disturbed(r, q, p)
    BY <1>1, <1>2, <2>4, LevelTouched
  <2>. QED
    BY <1>1, <2>4, <2>5, <2>6
<1>3. CASE q.pub # "waiting"
  BY <1>1, <1>3 DEF Older
<1>. QED
  BY <1>2, <1>3

\* The monitor's stall disturbs no request.
LEMMA MonitorStallsIs ==
  ASSUME Placed, MonitorStalls
  PROVE  /\ World' \in Worlds
         /\ \A x \in Req : req'[x] = req[x] \/ Disturbed(x, req[x], req'[x])
<1>1. PICK g : g = Older(req)
  OBVIOUS
<1>2. req' = g
  BY <1>1, ZenonT(30) DEF MonitorStalls, Older, Aged
<1>3. req \in [Req -> Requests] /\ \A r \in Req : req[r].pub = "waiting" => req[r].handle # "none"
  <2>1. ASSUME NEW r \in Req, req[r].pub = "waiting" PROVE req[r].handle # "none"
    BY <2>1, Unaccepted, ZenonT(30) DEF Blank
  <2>. QED
    BY <2>1, PlacedFacts
<1>4. \A r \in Req : /\ g[r] \in Requests /\ g[r].buffered = req[r].buffered
                     /\ g[r] = req[r] \/ Disturbed(r, req[r], g[r])
  BY <1>1, <1>3, OlderIs
<1>5. g \in [Req -> Requests]
  <2>1. g = [r \in Req |-> g[r]]
    BY <1>1 DEF Older
  <2>. QED
    BY <1>4, <2>1
<1>6. Buffers(g) = Buffers(req)
  BY <1>4 DEF Buffers
<1>7. lost' \in {"no", "probe", "stall"} /\ budget' = budget
  BY PlacedFacts DEF MonitorStalls
<1>8. /\ World'.req = g /\ World'.budget = World.budget /\ World'.lost = lost'
      /\ World' = [req |-> g, budget |-> World.budget, lost |-> lost']
  BY <1>2, <1>7 DEF World
<1>9. World' \in Worlds
  <2>1. /\ World.budget \in Nat /\ World.budget = SumOf(Buffers(req), Req)
        /\ World.budget <= MaxTotal
    BY PlacedFacts, WorldFacts
  <2>. QED
    BY <1>5, <1>6, <1>7, <1>8, <2>1 DEF Worlds
<1>. QED
  BY <1>2, <1>4, <1>9

\* Submit makes its request held and queued.
LEMMA SubmitIs ==
  ASSUME Placed, NEW r \in Req, Submit(r)
  PROVE  /\ World' \in Worlds /\ Beside(req, req', r) /\ lost' = lost
         /\ Blank(req'[r]) /\ req'[r].handle = "held" /\ req'[r].out = "none"
         /\ Blank(req[r]) /\ req[r].handle = "none" /\ req[r].out = "none"
<1>1. req[r].handle = "none"
  BY DEF Submit
<1>2. Blank(req[r]) /\ req[r] = FreshRequest /\ req[r].out = "none"
  BY <1>1, Unaccepted, FreshIs
<1>3. PICK p : p = HeldNow(FreshRequest)
  OBVIOUS
<1>4. req' = [req EXCEPT ![r] = p] /\ budget' = budget /\ lost' = lost
  BY <1>2, <1>3 DEF Submit, HeldNow
<1>5. p \in Requests /\ Blank(p) /\ p.handle = "held" /\ p.out = "none"
  BY <1>3, HeldIs
<1>6. p.buffered = req[r].buffered /\ req[r].buffered = 0
  BY <1>2, <1>5 DEF Blank
<1>7. budget' = budget - req[r].buffered + p.buffered /\ p.buffered <= req[r].buffered
  <2>1. budget \in Nat
    BY PlacedFacts, WorldFacts
  <2>. QED
    BY <1>4, <1>6, <2>1
<1>8. World' \in Worlds /\ req'[r] = p /\ \A x \in Req \ {r} : req'[x] = req[x]
  BY <1>4, <1>5, <1>7, OneDisturbed, ZenonT(30)
<1>. QED
  BY <1>1, <1>2, <1>4, <1>5, <1>8 DEF Beside

\* Submit keeps the placement.
LEMMA SubmitPlaced ==
  ASSUME Placed, NEW r \in Req, Submit(r)
  PROVE  Placed'
<1>1. /\ World' \in Worlds /\ Beside(req, req', r) /\ lost' = lost
      /\ Blank(req'[r]) /\ req'[r].handle = "held" /\ req'[r].out = "none"
      /\ req[r].handle = "none" /\ req[r].out = "none"
  BY SubmitIs
<1>2. /\ mode' = mode /\ eos' = eos /\ lists' = lists /\ work' = work
      /\ streak' = streak /\ skipped' = skipped /\ stopping' = stopping
      /\ clients' = Enqueued(r) /\ ~stopping /\ lost = "no"
  BY DEF Submit, Outside, Refused
<1>3. /\ r \notin QueuedIn(clients) \cup Members(lists) \cup ToSet(work.batch)
      /\ Placement(req', QueuedIn(clients) \cup {r}, lists, ToSet(work.batch))
      /\ Seating(req')
  BY <1>1, PlacedFacts, PlacesSubmitted
<1>4. Lined(clients') /\ QueuedIn(clients') = QueuedIn(clients) \cup {r}
  <2>1. PICK c : c = Enqueued(r)
    OBVIOUS
  <2>2. Lined(c) /\ QueuedIn(c) = QueuedIn(clients) \cup {r}
    BY <1>3, <2>1, PlacedFacts, EnqueuedIs
  <2>. QED
    BY <1>2, <2>1, <2>2
<1>5. Batching(work, req', lost)
  <2>1. \A x \in Req : req[x].out = "none" => req'[x].out = "none"
    BY <1>1 DEF Beside
  <2>. QED
    BY <2>1, BatchingKept, PlacedFacts
<1>6. Draining(work, stopping, lost, clients', lists)
  BY <1>2 DEF Placed, Draining
<1>7. Seating(req)'
  BY <1>2, <1>3 DEF Seating
<1>. QED
  BY <1>1, <1>2, <1>3, <1>4, <1>5, <1>6, <1>7 DEF Placed

\* Destroy makes its request gone; it is in no list.
LEMMA DestroyIs ==
  ASSUME Placed, NEW r \in Req, Destroy(r)
  PROVE  /\ World' \in Worlds /\ Beside(req, req', r) /\ lost' = lost
         /\ Blank(req'[r]) /\ req'[r].handle = "gone" /\ req'[r].out = "ended"
         /\ r \notin QueuedIn(clients) \cup Members(lists) \cup ToSet(work.batch)
<1>1. PICK p : p = Gone
  OBVIOUS
<1>2. /\ req' = [req EXCEPT ![r] = p] /\ budget' = budget - req[r].buffered /\ lost' = lost
      /\ ~Owned(r)
  BY <1>1 DEF Destroy, Gone
<1>3. p \in Requests /\ Blank(p) /\ p.handle = "gone" /\ p.out = "ended"
  BY <1>1, GoneIs
<1>4. p.buffered = 0 /\ req[r].buffered \in Nat /\ budget \in Nat
  <2>1. req[r] \in Requests /\ World.budget \in Nat
    BY PlacedFacts, WorldFacts
  <2>. QED
    BY <1>3, <2>1, RequestFacts, PlacedFacts DEF Blank
<1>5. budget' = budget - req[r].buffered + p.buffered /\ p.buffered <= req[r].buffered
  BY <1>2, <1>4
<1>6. World' \in Worlds /\ req'[r] = p /\ \A x \in Req \ {r} : req'[x] = req[x]
  BY <1>2, <1>3, <1>5, OneDisturbed, ZenonT(30)
<1>7. r \notin QueuedIn(clients) \cup Members(lists) \cup ToSet(work.batch)
  <2>1. Queued = QueuedIn(clients)
    BY PlacedFacts, QueuedIs
  <2>2. DOMAIN lists = {"prefilling", "decoding", "capturing", "waiting"}
    BY PlacedFacts, ListFacts
  <2>. QED
    BY <1>2, <2>1, <2>2 DEF Owned, Members
<1>. QED
  BY <1>2, <1>3, <1>6, <1>7 DEF Beside

\* Destroy keeps the placement.
LEMMA DestroyPlaced ==
  ASSUME Placed, NEW r \in Req, Destroy(r)
  PROVE  Placed'
<1>1. /\ World' \in Worlds /\ Beside(req, req', r) /\ lost' = lost
      /\ Blank(req'[r]) /\ req'[r].handle = "gone" /\ req'[r].out # "none"
      /\ r \notin QueuedIn(clients) \cup Members(lists) \cup ToSet(work.batch)
  BY DestroyIs
<1>2. /\ mode' = mode /\ eos' = eos /\ lists' = lists /\ work' = work
      /\ streak' = streak /\ skipped' = skipped /\ stopping' = stopping /\ clients' = clients
  BY DEF Destroy, Outside
<1>3. Placement(req', QueuedIn(clients), lists, ToSet(work.batch)) /\ Seating(req')
  BY <1>1, PlacedFacts, PlacesDestroyed
<1>4. Batching(work, req', lost)
  <2>1. ASSUME NEW x \in ToSet(work.batch) PROVE req'[x] = req[x]
    BY <1>1, PlacedFacts, WorkFacts DEF Beside
  <2>2. Len(work.batch) = 1 => req'[Head(work.batch)] = req[Head(work.batch)]
    <3>1. ASSUME Len(work.batch) = 1 PROVE Head(work.batch) \in ToSet(work.batch)
      BY <3>1, PlacedFacts, WorkFacts, HeadTailMembers
    <3>. QED
      BY <2>1, <3>1
  <2>3. work.pc \in {"prepare", "publish", "terminated"} =>
          \A x \in ToSet(work.todo) \cup ToSet(work.ready) : req'[x] = req[x]
    BY <2>1, PlacedFacts DEF Batching
  <2>. QED
    BY <2>2, <2>3, PlacedFacts DEF Batching
<1>5. Seating(req)'
  BY <1>2, <1>3 DEF Seating
<1>. QED
  BY <1>1, <1>2, <1>3, <1>4, <1>5 DEF Placed

\* The other steps of clients, captures and the monitor, and the worker's call
\* that begins a capture.
Disturbance ==
  \/ \E r \in Req : TakePiece(r) \/ DropHandle(r) \/ Expire(r) \/ CaptureDone(r)
  \/ BeginCapture
  \/ Stop
  \/ MonitorStalls

\* What the clients, the clock, the captures and the device do.
LEMMA DisturbanceIs ==
  ASSUME Placed, Disturbance
  PROVE  /\ World' \in Worlds /\ Outside /\ clients' = clients
         /\ lost' \in {lost, "stall"} /\ stopping' \in {stopping, TRUE}
         /\ \A x \in Req : req'[x] = req[x] \/ Disturbed(x, req[x], req'[x])
<1>1. CASE Stop
  <2>1. World' = World /\ req' = req
    BY <1>1 DEF Stop, World
  <2>. QED
    BY <1>1, <2>1, PlacedFacts DEF Stop, Outside
<1>2. CASE MonitorStalls
  BY <1>2, MonitorStallsIs, ZenonT(30) DEF MonitorStalls
<1>3. ASSUME NEW r \in Req, TakePiece(r)
      PROVE  /\ World' \in Worlds /\ Outside /\ clients' = clients
             /\ lost' \in {lost, "stall"} /\ stopping' \in {stopping, TRUE}
             /\ \A x \in Req : req'[x] = req[x] \/ Disturbed(x, req[x], req'[x])
  BY <1>3, TakePieceIs, ZenonT(30) DEF TakePiece
<1>4. ASSUME NEW r \in Req, DropHandle(r)
      PROVE  /\ World' \in Worlds /\ Outside /\ clients' = clients
             /\ lost' \in {lost, "stall"} /\ stopping' \in {stopping, TRUE}
             /\ \A x \in Req : req'[x] = req[x] \/ Disturbed(x, req[x], req'[x])
  BY <1>4, DropHandleIs, ZenonT(30) DEF DropHandle
<1>5. ASSUME NEW r \in Req, Expire(r)
      PROVE  /\ World' \in Worlds /\ Outside /\ clients' = clients
             /\ lost' \in {lost, "stall"} /\ stopping' \in {stopping, TRUE}
             /\ \A x \in Req : req'[x] = req[x] \/ Disturbed(x, req[x], req'[x])
  BY <1>5, ExpireIs, ZenonT(30) DEF Expire
<1>6. ASSUME NEW r \in Req, CaptureDone(r)
      PROVE  /\ World' \in Worlds /\ Outside /\ clients' = clients
             /\ lost' \in {lost, "stall"} /\ stopping' \in {stopping, TRUE}
             /\ \A x \in Req : req'[x] = req[x] \/ Disturbed(x, req[x], req'[x])
  BY <1>6, CaptureDoneIs, ZenonT(30) DEF CaptureDone
<1>7. CASE BeginCapture
  BY <1>7, BeginCaptureIs, ZenonT(30) DEF BeginCapture, ListFrame, Outside
<1>. QED
  BY <1>1, <1>2, <1>3, <1>4, <1>5, <1>6, <1>7, ZenonT(30) DEF Disturbance

\* It keeps the placement.
LEMMA DisturbancePlaced ==
  ASSUME Placed, Disturbance
  PROVE  Placed'
  BY DisturbanceIs, OutsideKeeps, ZenonT(30)

-----------------------------------------------------------------------------
(* The worker *)

\* What a step of the worker's does to a request, the device being k
\* afterwards: it goes on with what it has published, or ends.
Fate(r, q, p, k) ==
  \/ /\ Level(q, p)
     /\ q.lease = "held" => p.lease = "held"
     /\ q.out # "none" => p.lease = q.lease
  \/ /\ q.out = "none" /\ Ending(q, p, k)
     /\ Stream(r, q) => Stream(r, p)

\* What a unit of work keeps of a request.
LEMMA FateFacts ==
  ASSUME NEW r, NEW q, NEW p, NEW k, Fate(r, q, p, k)
  PROVE  /\ Keeps(q, p)
         /\ Stream(r, q) => Stream(r, p)
         /\ p.out = "none" => Level(q, p)
         /\ p.out = q.out \/ p.out \notin {"none", "misuse"}
<1>1. CASE Level(q, p)
  BY <1>1, LevelFacts DEF Level
<1>2. CASE q.out = "none" /\ Ending(q, p, k) /\ (Stream(r, q) => Stream(r, p))
  BY <1>2, EndingKeeps DEF Ending
<1>. QED
  BY <1>1, <1>2 DEF Fate

\* A request may be left alone.
LEMMA FateSelf ==
  ASSUME NEW r, NEW q, NEW p, NEW k, p = q
  PROVE  Fate(r, q, p, k)
  BY DEF Fate, Level, SameClient

\* It may change outside its output.
LEMMA FateLevel ==
  ASSUME NEW r, NEW q, NEW p, NEW k, Level(q, p), p.lease = q.lease
  PROVE  Fate(r, q, p, k)
  BY DEF Fate

\* Two such steps make one.
LEMMA FateTrans ==
  ASSUME NEW r, NEW q, NEW a, NEW p, NEW k, Fate(r, q, a, k), Fate(r, a, p, k)
  PROVE  Fate(r, q, p, k)
<1>1. CASE Level(q, a) /\ Level(a, p)
  <2>1. Level(q, p) /\ a.out = q.out
    BY <1>1, LevelTrans DEF Level
  <2>2. (q.lease = "held" => p.lease = "held") /\ (q.out # "none" => p.lease = q.lease)
    BY <1>1, <2>1 DEF Fate, Ending, Level
  <2>. QED
    BY <2>1, <2>2 DEF Fate
<1>2. CASE Level(q, a) /\ ~Level(a, p)
  <2>1. /\ a.out = "none" /\ Ending(a, p, k) /\ (Stream(r, a) => Stream(r, p))
    BY <1>2 DEF Fate
  <2>2. q.out = "none" /\ SameClient(q, a) /\ (q.lease = "held" => a.lease = "held")
    BY <1>2, <2>1 DEF Fate, Level, Ending
  <2>3. Ending(q, p, k)
    BY <2>1, <2>2 DEF Ending, SameClient
  <2>4. Stream(r, q) => Stream(r, a)
    BY <1>2, LevelFacts
  <2>. QED
    BY <2>1, <2>2, <2>3, <2>4 DEF Fate
<1>3. CASE ~Level(q, a)
  <2>1. q.out = "none" /\ Ending(q, a, k) /\ (Stream(r, q) => Stream(r, a))
    BY <1>3 DEF Fate
  <2>2. a.out # "none"
    BY <2>1 DEF Ending
  <2>3. Level(a, p) /\ p.lease = a.lease
    BY <2>2 DEF Fate
  <2>4. Ending(q, p, k)
    BY <2>1, <2>3 DEF Ending, Level, SameClient, Over
  <2>5. Stream(r, a) => Stream(r, p)
    BY <2>3, LevelFacts
  <2>. QED
    BY <2>1, <2>4, <2>5 DEF Fate
<1>. QED
  BY <1>1, <1>2, <1>3

\* All requests have such a fate, and only those of S are touched.
Fated(f, g, S, k) ==
  /\ \A r \in Req : Fate(r, f[r], g[r], k)
  /\ \A r \in Req \ S : g[r] = f[r]

\* All requests may be left alone.
LEMMA FatedSelf ==
  ASSUME NEW f, NEW S, NEW k
  PROVE  Fated(f, f, S, k)
  BY FateSelf DEF Fated

\* Where the requests are after the step.
Replaced(g, Q, l, B, R, k, C) ==
  /\ Apart(k) /\ Members(k) \cap C = {}
  /\ R \subseteq Q /\ Members(k) \cup C \subseteq Members(l) \cup B
  /\ \A r \in Q \cup Members(l) \cup B : g[r].out = "none" => r \in R \cup Members(k) \cup C
  /\ \A r \in R \cup Members(k) : g[r].out = "none"

\* Requests that go from one list to another keep the placement.
LEMMA FatedMoved ==
  ASSUME NEW f, NEW Q, NEW l, NEW B, Placement(f, Q, l, B),
         NEW g, NEW d, Fated(f, g, Q \cup Members(l) \cup B, d),
         NEW R, NEW k, NEW C, Replaced(g, Q, l, B, R, k, C)
  PROVE  Moved(f, Q, l, B, g, R, k, C)
<1>1. \A r \in Req : Keeps(f[r], g[r])
  BY FateFacts DEF Fated
<1>2. \A r \in Req : f[r].handle = "none" => g[r] = f[r]
  BY DEF Placement, Fated
<1>. QED
  BY <1>1, <1>2 DEF Moved, Replaced

\* What keeps its place while the batch changes hands.
LEMMA WorkerPlaced ==
  ASSUME Placed, mode' = mode, eos' = eos, stopping' = stopping,
         World' \in Worlds, lists' \in ListType, Lined(clients'), work' \in Works,
         streak' \in Nat, skipped' \in [Req -> Nat],
         Batching(work', req', lost'), NEW d,
         Fated(req, req', QueuedIn(clients) \cup Members(lists) \cup ToSet(work.batch), d),
         Replaced(req', QueuedIn(clients), lists, ToSet(work.batch),
                  QueuedIn(clients'), lists', ToSet(work'.batch)),
         Draining(work', stopping, lost', clients', lists')
  PROVE  Placed'
<1>1. Placement(req, QueuedIn(clients), lists, ToSet(work.batch)) /\ Seating(req) /\ mode \in Modes
  BY PlacedFacts
<1>2. Moved(req, QueuedIn(clients), lists, ToSet(work.batch),
            req', QueuedIn(clients'), lists', ToSet(work'.batch))
  BY <1>1, FatedMoved
<1>3. Placement(req', QueuedIn(clients'), lists', ToSet(work'.batch)) /\ Seating(req')
  BY <1>1, <1>2, PlacesMoved
<1>4. Seating(req)'
  BY <1>3 DEF Seating
<1>. QED
  BY <1>3, <1>4 DEF Placed

\* The worker's program counter alone.
Advance(b, p) == [b EXCEPT !.pc = p]

\* The worker goes on with its unit.
LEMMA AdvanceIs ==
  ASSUME NEW b \in Works, NEW p \in Counters, NEW a, a = Advance(b, p)
  PROVE  /\ a \in Works /\ a.pc = p /\ a.batch = b.batch /\ a.todo = b.todo
         /\ a.ready = b.ready /\ a.multi = b.multi /\ a.step = b.step
         /\ a.decoding = b.decoding /\ a.peer = b.peer
  BY ZenonT(30) DEF Works, Advance

\* A step that touches no request and holds none.
LEMMA IdlingPlaced ==
  ASSUME Placed, work.pc \in Between, UNCHANGED <<mode, eos, stopping, req, budget>>,
         UNCHANGED <<clients, lists, streak, skipped>>, lost' \in {"no", "probe", "stall"},
         lost # "no" => lost' # "no",
         NEW p \in Between \ {"done"}, work' = Advance(work, p),
         p = "drain" => stopping \/ lost' # "no"
  PROVE  Placed'
<1>1. p \in Counters
  BY DEF Between, Counters
<1>2. work.batch = <<>>
  BY PlacedFacts DEF Batching
<1>3. work' \in Works /\ work'.pc = p /\ work'.batch = <<>>
  BY <1>1, <1>2, AdvanceIs, PlacedFacts
<1>4. World' \in Worlds
  <2>1. World' = [req |-> World.req, budget |-> World.budget, lost |-> lost']
    BY DEF World
  <2>2. /\ World.req \in [Req -> Requests] /\ World.budget \in Nat
        /\ World.budget = SumOf(Buffers(World.req), Req) /\ World.budget <= MaxTotal
    BY PlacedFacts, WorldFacts
  <2>. QED
    BY <2>1, <2>2 DEF Worlds
<1>5. Batching(work', req', lost')
  BY <1>3, BatchingNone
<1>6. Fated(req, req', QueuedIn(clients) \cup Members(lists) \cup ToSet(work.batch), lost')
  BY FatedSelf
<1>7. Replaced(req', QueuedIn(clients), lists, ToSet(work.batch),
               QueuedIn(clients'), lists', ToSet(work'.batch))
  <2>1. ToSet(work.batch) = {} /\ ToSet(work'.batch) = {}
    BY <1>2, <1>3, ShortMembers
  <2>. QED
    BY <2>1, PlacedFacts DEF Replaced, Placement
<1>8. Draining(work', stopping, lost', clients', lists')
  BY <1>3 DEF Draining
<1>9. /\ lists' \in ListType /\ Lined(clients') /\ streak' \in Nat /\ skipped' \in [Req -> Nat]
      /\ mode' = mode /\ eos' = eos /\ stopping' = stopping
  BY DEF Placed
<1>. QED
  BY <1>3, <1>4, <1>5, <1>6, <1>7, <1>8, <1>9, WorkerPlaced, ZenonT(30)

\* The worker's steps that touch no request.
Idling == LeaveLoop \/ NothingToRun \/ IdleReturns \/ PollDevice

\* They change its place, and whether the device is lost.
LEMMA IdlingIs ==
  ASSUME Placed, Idling
  PROVE  /\ work.pc \in Between /\ UNCHANGED <<mode, eos, stopping, req, budget>>
         /\ UNCHANGED <<clients, lists, streak, skipped>>
         /\ lost' \in {"no", "probe", "stall"} /\ (lost # "no" => lost' = lost)
         /\ \E p \in Between \ {"done"} :
              work' = Advance(work, p) /\ (p = "drain" => stopping \/ lost' # "no")
<1>1. lost \in {"no", "probe", "stall"}
  BY PlacedFacts
<1>2. CASE LeaveLoop
  <2>1. work' = Advance(work, "drain") /\ lost' = lost
    BY <1>2 DEF LeaveLoop, Advance
  <2>2. stopping \/ lost # "no"
    BY <1>2 DEF LeaveLoop
  <2>. QED
    BY <1>1, <1>2, <2>1, <2>2 DEF LeaveLoop, ListFrame, Between
<1>3. CASE NothingToRun
  <2>1. PICK p \in {"idle", "top"} : work' = Advance(work, p)
    BY <1>3 DEF NothingToRun, Advance
  <2>. QED
    BY <1>1, <1>3, <2>1 DEF NothingToRun, ListFrame, Between
<1>4. CASE IdleReturns
  <2>1. PICK p \in {"probe", "top"} : work' = Advance(work, p)
    BY <1>4 DEF IdleReturns, Advance
  <2>. QED
    BY <1>1, <1>4, <2>1 DEF IdleReturns, ListFrame, Between
<1>5. CASE PollDevice
  <2>1. PICK p \in {"idle", "top"} : work' = Advance(work, p)
    BY <1>5 DEF PollDevice, Advance
  <2>. QED
    BY <1>1, <1>5, <2>1 DEF PollDevice, ListFrame, Between
<1>. QED
  BY <1>2, <1>3, <1>4, <1>5 DEF Idling

\* They keep the placement.
LEMMA IdlingStepPlaced ==
  ASSUME Placed, Idling
  PROVE  Placed'
  BY IdlingIs, IdlingPlaced

\* A batch of one to prefill.
Prefilled1(b, h, d, p) ==
  [b EXCEPT !.pc = "prefill", !.batch = <<h>>, !.decoding = d, !.peer = p]

\* A batch of one request.
LoneBatch(a, h) ==
  /\ a.batch = <<h>> /\ Head(a.batch) = h /\ Len(a.batch) = 1 /\ ToSet(a.batch) = {h}
  /\ Distinct(a.batch)

\* The unit of a prefill chunk.
LEMMA Prefilled1Is ==
  ASSUME NEW b \in Works, NEW h \in Req, NEW d \in BOOLEAN, NEW p \in BOOLEAN
  PROVE  /\ Prefilled1(b, h, d, p) \in Works /\ Prefilled1(b, h, d, p).pc = "prefill"
         /\ Prefilled1(b, h, d, p).decoding = d /\ LoneBatch(Prefilled1(b, h, d, p), h)
<1>0. PICK a : a = Prefilled1(b, h, d, p)
  OBVIOUS
<1>1. <<h>> \in Seq(Req) /\ ToSet(<<h>>) = {h} /\ Distinct(<<h>>)
      /\ Head(<<h>>) = h /\ Len(<<h>>) = 1
  BY ShortMembers, ZenonT(30)
<1>2. PICK s \in Seq(Req) : s = <<h>>
  BY <1>1, ZenonT(30)
<1>3. a = [b EXCEPT !.pc = "prefill", !.batch = s, !.decoding = d, !.peer = p]
  BY <1>0, <1>2 DEF Prefilled1
<1>4. a \in Works /\ a.pc = "prefill" /\ a.batch = s /\ a.decoding = d
  BY <1>3, ZenonT(30) DEF Works, Counters
<1>5. LoneBatch(a, h)
  BY <1>1, <1>2, <1>4 DEF LoneBatch
<1>. QED
  BY <1>0, <1>4, <1>5

\* A step that changes no request.
LEMMA WorldSame ==
  ASSUME Placed, UNCHANGED <<req, budget, lost>>
  PROVE  World' \in Worlds /\ World' = World
<1>1. World' = World
  BY DEF World
<1>. QED
  BY <1>1, PlacedFacts

\* ChoosePrefill takes the first prefilling request as its batch.
LEMMA ChoosePrefillIs ==
  ASSUME Placed, ChoosePrefill
  PROVE  /\ work.batch = <<>> /\ work' \in Works /\ work'.pc = "prefill"
         /\ (work'.decoding <=> lists.decoding # <<>>)
         /\ Head(lists.prefilling) \in Members(lists)
         /\ work'.batch = <<Head(lists.prefilling)>>
         /\ Head(work'.batch) = Head(lists.prefilling) /\ Len(work'.batch) = 1
         /\ ToSet(work'.batch) = {Head(lists.prefilling)} /\ Distinct(work'.batch)
         /\ lists' \in ListType /\ Apart(lists') /\ lists'.decoding = lists.decoding
         /\ Members(lists') = Members(lists) \ {Head(lists.prefilling)}
<1>1. PICK h : h = Head(lists.prefilling)
  OBVIOUS
<1>2. PICK k : k = Prefilling(lists, Tail(lists.prefilling))
  OBVIOUS
<1>3. /\ k \in ListType /\ Apart(k) /\ h \in Members(lists)
      /\ Members(k) = Members(lists) \ {h} /\ k.decoding = lists.decoding
  <2>1. lists.prefilling # <<>> /\ lists \in ListType /\ Apart(lists)
    BY PlacedFacts DEF ChoosePrefill
  <2>. QED
    BY <1>1, <1>2, <2>1, PrefillTaken
<1>4. h \in Req
  BY <1>3, PlacedFacts, ListFacts
<1>5. lists' = k
  BY <1>2 DEF ChoosePrefill, Prefilling
<1>6. \E d, p \in BOOLEAN : work' = Prefilled1(work, h, d, p) /\ (d <=> lists.decoding # <<>>)
  <2>1. PICK d \in BOOLEAN : d = (lists.decoding # <<>>)
    BY ZenonT(30)
  <2>2. PICK p \in BOOLEAN : p = (\/ lists.capturing # <<>>
                                  \/ \E r \in ToSet(Tail(lists.prefilling)) : Short(r))
    BY ZenonT(30)
  <2>3. work' = Prefilled1(work, h, d, p)
    BY <1>1, <2>1, <2>2 DEF ChoosePrefill, Prefilled1
  <2>. QED
    BY <2>1, <2>3, ZenonT(30)
<1>7. PICK d \in BOOLEAN, p \in BOOLEAN :
        work' = Prefilled1(work, h, d, p) /\ (d <=> lists.decoding # <<>>)
  BY <1>6
<1>8. PICK a : a = Prefilled1(work, h, d, p)
  OBVIOUS
<1>0. work \in Works
  BY PlacedFacts
<1>12. a \in Works /\ a.pc = "prefill" /\ a.decoding = d /\ LoneBatch(a, h)
  BY <1>0, <1>4, <1>8, Prefilled1Is
<1>10. /\ a \in Works /\ a.pc = "prefill" /\ a.batch = <<h>> /\ a.decoding = d
       /\ Head(a.batch) = h /\ Len(a.batch) = 1 /\ ToSet(a.batch) = {h} /\ Distinct(a.batch)
  BY <1>12 DEF LoneBatch
<1>9. work.batch = <<>>
  BY PlacedFacts DEF Batching, ChoosePrefill, Between
<1>11. work' = a
  BY <1>7, <1>8
<1>. QED
  BY <1>1, <1>3, <1>5, <1>7, <1>10, <1>11, <1>9

\* ChoosePrefill keeps the placement.
LEMMA ChoosePrefillPlaced ==
  ASSUME Placed, ChoosePrefill
  PROVE  Placed'
<1>1. PICK h : h = Head(lists.prefilling)
  OBVIOUS
<1>2. /\ work.batch = <<>> /\ work' \in Works /\ work'.pc = "prefill"
      /\ h \in Members(lists)
      /\ Head(work'.batch) = h /\ Len(work'.batch) = 1
      /\ ToSet(work'.batch) = {h} /\ Distinct(work'.batch)
      /\ lists' \in ListType /\ Apart(lists')
      /\ Members(lists') = Members(lists) \ {h}
  BY <1>1, ChoosePrefillIs
<1>3. /\ mode' = mode /\ eos' = eos /\ stopping' = stopping /\ clients' = clients
      /\ req' = req /\ budget' = budget /\ lost' = lost /\ streak' = streak /\ skipped' = skipped
  BY DEF ChoosePrefill, ListFrame
<1>4. World' \in Worlds
  BY <1>3, WorldSame
<1>5. req[h].out = "none"
  BY <1>2, PlacedFacts DEF Placement
<1>6. Batching(work', req', lost')
  BY <1>2, <1>3, <1>5 DEF Batching, Between
<1>7. Fated(req, req', QueuedIn(clients) \cup Members(lists) \cup ToSet(work.batch), lost')
  BY <1>3, FatedSelf
<1>8. Replaced(req', QueuedIn(clients), lists, ToSet(work.batch),
               QueuedIn(clients'), lists', ToSet(work'.batch))
  <2>1. ToSet(work.batch) = {}
    BY <1>2, ShortMembers
  <2>2. \A r \in QueuedIn(clients) \cup Members(lists) : req[r].out = "none"
    BY PlacedFacts DEF Placement
  <2>. QED
    BY <1>2, <1>3, <2>1, <2>2 DEF Replaced
<1>9. Draining(work', stopping, lost', clients', lists')
  BY <1>2 DEF Draining
<1>10. Lined(clients') /\ streak' \in Nat /\ skipped' \in [Req -> Nat]
  BY <1>3 DEF Placed
<1>. QED
  BY <1>2, <1>3, <1>4, <1>6, <1>7, <1>8, <1>9, <1>10, WorkerPlaced, ZenonT(30)

-----------------------------------------------------------------------------
(* ChooseDecode *)

\* A batch to prepare.
Chosen1(b, P, m) ==
  [b EXCEPT !.pc = "prepare", !.batch = P, !.todo = P, !.ready = <<>>, !.multi = m]

\* The unit of a decode batch.
LEMMA Chosen1Is ==
  ASSUME NEW b \in Works, NEW P \in Seq(Req), NEW m \in BOOLEAN, NEW a, a = Chosen1(b, P, m)
  PROVE  /\ a \in Works /\ a.pc = "prepare" /\ a.batch = P /\ a.todo = P /\ a.ready = <<>>
         /\ a.multi = m
<1>1. PICK e \in Seq(Req) : e = <<>>
  BY EmptySeq, ZenonT(30)
<1>2. a = [b EXCEPT !.pc = "prepare", !.batch = P, !.todo = P, !.ready = e, !.multi = m]
  BY <1>1 DEF Chosen1
<1>3. /\ a \in Works /\ a.pc = "prepare" /\ a.batch = P /\ a.todo = P /\ a.ready = e
      /\ a.multi = m
  BY <1>2, ZenonT(30) DEF Works, Counters
<1>. QED
  BY <1>1, <1>3

\* The members of a batch are no longer due.
Unmarked(f, g, D) ==
  \A r \in Req :
    /\ Level(f[r], g[r]) /\ g[r].lease = f[r].lease
    /\ g[r].due <=> f[r].due /\ r \notin D
    /\ r \notin D => g[r] = f[r]

\* The requests of a set are no longer due.
LEMMA DueClearedIs ==
  ASSUME NEW w \in Worlds, NEW D
  PROVE  /\ Redone(w, DueCleared(w.req, D)) \in Worlds
         /\ Redone(w, DueCleared(w.req, D)).lost = w.lost
         /\ Redone(w, DueCleared(w.req, D)).req = DueCleared(w.req, D)
         /\ Unmarked(w.req, DueCleared(w.req, D), D)
<1>0. PICK g : g = DueCleared(w.req, D)
  OBVIOUS
<1>9. PICK v : v = Redone(w, g)
  OBVIOUS
<1>1. w.req \in [Req -> Requests]
  BY WorldFacts
<1>2. ASSUME NEW r \in Req
      PROVE  /\ g[r] \in Requests /\ Level(w.req[r], g[r]) /\ g[r].lease = w.req[r].lease
             /\ g[r].due <=> w.req[r].due /\ r \notin D
             /\ r \notin D => g[r] = w.req[r]
  <2>1. PICK q \in Requests : q = w.req[r]
    BY <1>1
  <2>2. CASE r \in D
    <3>1. g[r] = NotDue(q)
      BY <1>0, <2>1, <2>2 DEF DueCleared
    <3>. QED
      BY <2>1, <2>2, <3>1, NotDueIs, ZenonT(30)
  <2>3. CASE r \notin D
    <3>1. g[r] = q
      BY <1>0, <2>1, <2>3 DEF DueCleared
    <3>. QED
      BY <2>1, <2>3, <3>1 DEF Level, SameClient
  <2>. QED
    BY <2>2, <2>3
<1>3. g \in [Req -> Requests]
  <2>1. g = [r \in Req |-> g[r]]
    BY <1>0 DEF DueCleared
  <2>. QED
    BY <1>2, <2>1
<1>4. \A x \in Req : g[x].buffered = w.req[x].buffered
  BY <1>2 DEF Level
<1>5. v \in Worlds /\ v.req = g /\ v.lost = w.lost
  BY <1>3, <1>4, <1>9, RedoneIs
<1>6. Unmarked(w.req, g, D)
  BY <1>2 DEF Unmarked
<1>. QED
  BY <1>0, <1>5, <1>6, <1>9

\* ChooseDecode takes its batch from the decoding list: every candidate, when they fit.
LEMMA ChooseDecodeIs ==
  ASSUME Placed, ChooseDecode, NEW P, P = PoppedBatch
  PROVE  /\ work.batch = <<>> /\ work' \in Works /\ work'.pc = "prepare"
         /\ work'.batch = P /\ work'.todo = P /\ work'.ready = <<>>
         /\ (work'.multi <=> UsesMultiToken(P))
         /\ P \in Seq(Req) /\ Distinct(P) /\ P # <<>>
         /\ ToSet(P) \subseteq ToSet(lists.decoding)
         /\ Len(Candidates) <= mode.width => ToSet(P) = ToSet(Candidates)
         /\ lists' \in ListType /\ Apart(lists')
         /\ Members(lists') = Members(lists) \ ToSet(P)
         /\ ToSet(lists'.decoding) = ToSet(lists.decoding) \ ToSet(P)
         /\ World' \in Worlds /\ lost' = lost
         /\ \A r \in Req :
              /\ Level(req[r], req'[r]) /\ req'[r].lease = req[r].lease
              /\ req'[r].due <=> req[r].due /\ r \notin ToSet(P)
              /\ r \notin ToSet(P) => req'[r] = req[r]
<1>1. PICK k : k = Decoding(lists, DecodersLeft)
  OBVIOUS
<1>2. /\ P \in Seq(Req) /\ Distinct(P) /\ P # <<>>
      /\ ToSet(P) \subseteq ToSet(lists.decoding)
      /\ Len(Candidates) <= mode.width => ToSet(P) = ToSet(Candidates)
      /\ k \in ListType /\ Apart(k) /\ Members(k) = Members(lists) \ ToSet(P)
      /\ ToSet(k.decoding) = ToSet(lists.decoding) \ ToSet(P)
  <2>1. lists.decoding # <<>> /\ mode \in Modes /\ lists \in ListType /\ Apart(lists)
    BY PlacedFacts DEF ChooseDecode
  <2>. QED
    BY <1>1, <2>1, DecodersTaken
<1>3. lists' = k
  BY <1>1 DEF ChooseDecode, Decoding
<1>4. PICK m \in BOOLEAN : m = UsesMultiToken(P)
  BY ZenonT(30) DEF UsesMultiToken
<1>5. work' = Chosen1(work, P, m)
  BY <1>4 DEF ChooseDecode, Chosen1
<1>6. /\ work' \in Works /\ work'.pc = "prepare" /\ work'.batch = P /\ work'.todo = P
      /\ work'.ready = <<>> /\ work'.multi = m
  BY <1>2, <1>5, PlacedFacts, Chosen1Is
<1>7. work.batch = <<>>
  BY PlacedFacts DEF Batching, ChooseDecode, Between
<1>8. PICK g : g = DueCleared(req, ToSet(P))
  OBVIOUS
<1>9. req' = g /\ budget' = budget /\ lost' = lost
  BY <1>8, ZenonT(30) DEF ChooseDecode, DueCleared, NotDue
<1>10. PICK v : v = Redone(World, g)
  OBVIOUS
<1>13. PICK D : D = ToSet(P)
  OBVIOUS
<1>14. World \in Worlds /\ World.req = req /\ World.lost = lost
  BY PlacedFacts
<1>15. g = DueCleared(World.req, D)
  BY <1>8, <1>13, <1>14
<1>16. v \in Worlds /\ v.lost = World.lost /\ v.req = g /\ Unmarked(World.req, g, D)
  BY <1>10, <1>14, <1>15, DueClearedIs
<1>11. /\ v \in Worlds /\ v.lost = lost /\ v.req = g
       /\ \A r \in Req :
              /\ Level(req[r], g[r]) /\ g[r].lease = req[r].lease
              /\ g[r].due <=> req[r].due /\ r \notin ToSet(P)
              /\ r \notin ToSet(P) => g[r] = req[r]
  BY <1>13, <1>14, <1>16 DEF Unmarked
<1>12. World' = v
  BY <1>9, <1>10 DEF World, Redone
<1>. QED
  BY <1>2, <1>3, <1>4, <1>6, <1>7, <1>9, <1>11, <1>12

\* ChooseDecode keeps the placement.
LEMMA ChooseDecodePlaced ==
  ASSUME Placed, ChooseDecode
  PROVE  Placed'
<1>0. PICK P : P = PoppedBatch
  OBVIOUS
<1>1. /\ work.batch = <<>> /\ work' \in Works /\ work'.pc = "prepare"
      /\ work'.batch = P /\ work'.todo = P /\ work'.ready = <<>>
      /\ P \in Seq(Req) /\ Distinct(P) /\ P # <<>>
      /\ ToSet(P) \subseteq ToSet(lists.decoding)
      /\ lists' \in ListType /\ Apart(lists')
      /\ Members(lists') = Members(lists) \ ToSet(P)
      /\ World' \in Worlds /\ lost' = lost
  BY <1>0, ChooseDecodeIs
<1>2. \A r \in Req : /\ Level(req[r], req'[r]) /\ req'[r].lease = req[r].lease
                     /\ r \notin ToSet(P) => req'[r] = req[r]
  BY <1>0, ChooseDecodeIs
<1>3. /\ mode' = mode /\ eos' = eos /\ stopping' = stopping /\ clients' = clients
      /\ streak' = 0 /\ skipped' = [r \in Req |-> IF r \in ToSet(P) THEN 0 ELSE skipped[r]]
  BY <1>0 DEF ChooseDecode, ListFrame
<1>4. ToSet(work.batch) = {} /\ ToSet(work'.ready) = {} /\ Distinct(work'.ready)
  BY <1>1, ShortMembers
<1>5. ToSet(P) \subseteq Members(lists) /\ ToSet(P) \subseteq Req
  BY <1>1, PlacedFacts, ListFacts DEF Members
<1>6. \A r \in QueuedIn(clients) \cup Members(lists) : req[r].out = "none"
  BY PlacedFacts DEF Placement
<1>7. \A r \in Req : req'[r].out = req[r].out
  BY <1>2 DEF Level
<1>8. Batching(work', req', lost')
  BY <1>1, <1>4, <1>5, <1>6, <1>7 DEF Batching, Between
<1>9. Fated(req, req', QueuedIn(clients) \cup Members(lists) \cup ToSet(work.batch), lost')
  <2>1. \A r \in Req : Fate(r, req[r], req'[r], lost')
    BY <1>2, FateLevel
  <2>. QED
    BY <1>2, <1>5, <2>1 DEF Fated
<1>10. Replaced(req', QueuedIn(clients), lists, ToSet(work.batch),
                QueuedIn(clients'), lists', ToSet(work'.batch))
  <2>1. QueuedIn(clients) \subseteq Req /\ Members(lists) \subseteq Req
    BY PlacedFacts DEF Placement
  <2>2. \A r \in QueuedIn(clients) \cup Members(lists) : req'[r].out = "none"
    BY <1>6, <1>7, <2>1
  <2>. QED
    BY <1>1, <1>3, <1>4, <1>5, <2>2 DEF Replaced
<1>11. Draining(work', stopping, lost', clients', lists')
  BY <1>1 DEF Draining
<1>12. Lined(clients') /\ streak' \in Nat /\ skipped' \in [Req -> Nat]
  BY <1>3 DEF Placed
<1>. QED
  BY <1>1, <1>3, <1>8, <1>9, <1>10, <1>11, <1>12, WorkerPlaced, ZenonT(30)

-----------------------------------------------------------------------------
(* CancelRemaining *)

\* CancelRemaining ends every request that is queued or in a list.
LEMMA CancelRemainingIs ==
  ASSUME Placed, CancelRemaining
  PROVE  /\ World' \in Worlds /\ lost' = lost
         /\ Fated(req, req', QueuedIn(clients) \cup Members(lists), lost')
         /\ \A r \in QueuedIn(clients) \cup Members(lists) : req'[r].out # "none"
         /\ \A r \in QueuedIn(clients) \cup Members(lists) : req'[r].tokens = req[r].tokens
<1>1. PICK S : S = QueuedIn(clients) \cup Members(lists)
  BY ZenonT(30)
<1>2. PICK v : v = CancelledAll(World, S)
  OBVIOUS
<1>3. Queued \cup UNION {ToSet(lists[k]) : k \in DOMAIN lists} = S
  <2>1. Queued = QueuedIn(clients)
    BY PlacedFacts, QueuedIs
  <2>2. DOMAIN lists = {"prefilling", "decoding", "capturing", "waiting"}
    BY PlacedFacts, ListFacts
  <2>3. UNION {ToSet(lists[k]) : k \in DOMAIN lists} = Members(lists)
    BY <2>2 DEF Members
  <2>. QED
    BY <1>1, <2>1, <2>3
<1>4. Apply(v)
  BY <1>2, <1>3, ZenonT(30) DEF CancelRemaining
<1>5. S \in SUBSET Req /\ \A r \in S : req[r].out = "none"
  BY <1>1, PlacedFacts DEF Placement
<1>6. /\ v \in Worlds /\ v.lost = lost
      /\ \A r \in Req \ S : v.req[r] = req[r]
      /\ \A r \in S : req[r].out = "none" =>
           /\ Ending(req[r], v.req[r], lost) /\ v.req[r].tokens = req[r].tokens
           /\ Stream(r, req[r]) => Stream(r, v.req[r])
  BY <1>2, <1>5, PlacedFacts, CancelledSet
<1>7. World' = v /\ req' = v.req /\ lost' = lost
  BY <1>4, <1>6, ApplyIs
<1>8. \A r \in Req : Fate(r, req[r], req'[r], lost')
  <2>1. \A r \in S : Fate(r, req[r], req'[r], lost')
    BY <1>5, <1>6, <1>7 DEF Fate
  <2>2. \A r \in Req \ S : Fate(r, req[r], req'[r], lost')
    BY <1>6, <1>7, FateSelf
  <2>. QED
    BY <2>1, <2>2
<1>9. \A r \in S : req'[r].out # "none"
  BY <1>5, <1>6, <1>7 DEF Ending
<1>10. \A r \in S : req'[r].tokens = req[r].tokens
  BY <1>5, <1>6, <1>7
<1>. QED
  BY <1>1, <1>6, <1>7, <1>8, <1>9, <1>10 DEF Fated

\* CancelRemaining keeps the placement.
LEMMA CancelRemainingPlaced ==
  ASSUME Placed, CancelRemaining
  PROVE  Placed'
<1>1. /\ World' \in Worlds /\ lost' = lost
      /\ Fated(req, req', QueuedIn(clients) \cup Members(lists), lost')
      /\ \A r \in QueuedIn(clients) \cup Members(lists) : req'[r].out # "none"
  BY CancelRemainingIs
<1>2. /\ mode' = mode /\ eos' = eos /\ stopping' = stopping /\ clients' = <<>>
      /\ streak' = streak /\ skipped' = skipped
      /\ work' = Advance(work, "done") /\ work.pc = "drain"
      /\ lists' = [k \in DOMAIN lists |-> <<>>]
  BY DEF CancelRemaining, ListFrame, Advance
<1>3. work.batch = <<>>
  BY <1>2, PlacedFacts DEF Batching, Between
<1>4. work' \in Works /\ work'.pc = "done" /\ work'.batch = <<>>
  <2>1. "done" \in Counters
    BY DEF Counters
  <2>. QED
    BY <1>2, <1>3, <2>1, AdvanceIs, PlacedFacts
<1>5. lists' = NoLists
  <2>1. DOMAIN lists = {"prefilling", "decoding", "capturing", "waiting"}
    BY PlacedFacts, ListFacts
  <2>. QED
    BY <1>2, <2>1 DEF NoLists, Sorted
<1>6. lists' \in ListType /\ Apart(lists') /\ Members(lists') = {}
  BY <1>5, NoListsAre
<1>7. Lined(clients') /\ QueuedIn(clients') = {}
  BY <1>2, NoQueue
<1>8. ToSet(work.batch) = {} /\ ToSet(work'.batch) = {}
  BY <1>3, <1>4, ShortMembers
<1>9. Batching(work', req', lost')
  BY <1>4, BatchingNone DEF Between
<1>10. Fated(req, req', QueuedIn(clients) \cup Members(lists) \cup ToSet(work.batch), lost')
  BY <1>1, <1>8
<1>11. Replaced(req', QueuedIn(clients), lists, ToSet(work.batch),
                QueuedIn(clients'), lists', ToSet(work'.batch))
  BY <1>1, <1>6, <1>7, <1>8 DEF Replaced
<1>12. Draining(work', stopping, lost', clients', lists')
  BY <1>1, <1>2, <1>6, <1>7 DEF Draining, Placed
<1>13. streak' \in Nat /\ skipped' \in [Req -> Nat]
  BY <1>2 DEF Placed
<1>. QED
  BY <1>1, <1>2, <1>4, <1>6, <1>7, <1>9, <1>10, <1>11, <1>12, <1>13, WorkerPlaced, ZenonT(30)

-----------------------------------------------------------------------------
(* BeginLoop *)

\* BeginLoop ends, marks due, updates the waiting ones and sorts the lists.
LEMMA BeginLoopSplit ==
  ASSUME BeginLoop
  PROVE  \E S, v, w :
           /\ v = Asked(World, EndedQueued \cup ToSet(Back(lists)))
           /\ w = UpdatedAll(MarkDue(v, ToDecode(lists, v)), lists.waiting, S)
           /\ Apply(w) /\ clients' = RemoveQueued(EndedQueued)
           /\ lists' = Resumed(lists, v, w)
BY ZenonT(30) DEF BeginLoop

\* Each request of the three worlds of a turn.
Turned(w, v, z, S, D, X) ==
  /\ z \in Worlds /\ z.lost = w.lost
  /\ Fated(w.req, z.req, S \cup X, w.lost)
  /\ \A r \in S \ X : z.req[r].out = v.req[r].out
  /\ \A r \in S : w.req[r].out = "none" /\ Stopped(w, r) => z.req[r].out # "none"
  /\ \A r \in ToSet(D) \ X : z.req[r].due

\* What that does to each request.
LEMMA BeginLoopFates ==
  ASSUME NEW w \in Worlds, NEW S \in SUBSET Req,
         NEW D, ToSet(D) \subseteq S,
         NEW s \in Seq(Req), Distinct(s), NEW T
  PROVE  Turned(w, Asked(w, S), UpdatedAll(MarkDue(Asked(w, S), D), s, T), S, D, ToSet(s))
<1>01. PICK v : v = Asked(w, S)
  OBVIOUS
<1>02. PICK u : u = MarkDue(v, D)
  OBVIOUS
<1>03. PICK z : z = UpdatedAll(u, s, T)
  OBVIOUS
<1>1. /\ v \in Worlds /\ v.lost = w.lost
      /\ \A r \in Req \ S : v.req[r] = w.req[r]
      /\ \A r \in S :
              /\ \/ ~Stopped(w, r) /\ v.req[r] = w.req[r]
                 \/ w.req[r].out # "none" /\ v.req[r] = w.req[r]
                 \/ w.req[r].out = "none" /\ Stopped(w, r)
                      /\ Ending(w.req[r], v.req[r], w.lost)
              /\ Stream(r, w.req[r]) => Stream(r, v.req[r])
  BY <1>01, StoppedSet
<1>2. /\ u \in Worlds /\ u.lost = v.lost
      /\ \A r \in Req :
              /\ Level(v.req[r], u.req[r]) /\ u.req[r].lease = v.req[r].lease
              /\ u.req[r].due <=> v.req[r].due \/ r \in ToSet(D)
              /\ r \notin ToSet(D) => u.req[r] = v.req[r]
  BY <1>02, <1>1, DueMarkedIs
<1>3. /\ z \in Worlds /\ z.lost = u.lost
      /\ \A r \in Req \ ToSet(s) : z.req[r] = u.req[r]
      /\ \A r \in ToSet(s) :
              /\ \/ u.req[r].out # "none" /\ z.req[r] = u.req[r]
                 \/ u.req[r].out = "none" /\ Ending(u.req[r], z.req[r], u.lost)
                 \/ u.req[r].out = "none" /\ Level(u.req[r], z.req[r])
                      /\ z.req[r].lease = u.req[r].lease
              /\ Stream(r, u.req[r]) => Stream(r, z.req[r])
  BY <1>03, <1>2, UpdatedSeq
<1>4. ASSUME NEW r \in Req
      PROVE  Fate(r, w.req[r], v.req[r], w.lost)
  <2>1. CASE v.req[r] = w.req[r]
    BY <2>1, FateSelf
  <2>2. CASE /\ w.req[r].out = "none" /\ Ending(w.req[r], v.req[r], w.lost)
             /\ Stream(r, w.req[r]) => Stream(r, v.req[r])
    BY <2>2 DEF Fate
  <2>. QED
    BY <1>1, <2>1, <2>2
<1>5. ASSUME NEW r \in Req
      PROVE  Fate(r, v.req[r], u.req[r], w.lost)
  BY <1>2, FateLevel
<1>6. ASSUME NEW r \in Req
      PROVE  Fate(r, u.req[r], z.req[r], w.lost)
  <2>1. CASE z.req[r] = u.req[r]
    BY <2>1, FateSelf
  <2>2. CASE /\ u.req[r].out = "none" /\ Ending(u.req[r], z.req[r], u.lost)
             /\ Stream(r, u.req[r]) => Stream(r, z.req[r])
    BY <1>1, <1>2, <2>2 DEF Fate
  <2>3. CASE Level(u.req[r], z.req[r]) /\ z.req[r].lease = u.req[r].lease
    BY <2>3, FateLevel
  <2>. QED
    BY <1>3, <2>1, <2>2, <2>3
<1>7. \A r \in Req : Fate(r, w.req[r], z.req[r], w.lost)
  BY <1>4, <1>5, <1>6, FateTrans
<1>8. \A r \in Req \ (S \cup ToSet(s)) : z.req[r] = w.req[r]
  BY <1>1, <1>2, <1>3
<1>9. Fated(w.req, z.req, S \cup ToSet(s), w.lost)
  BY <1>7, <1>8 DEF Fated
<1>10. \A r \in S \ ToSet(s) : z.req[r].out = v.req[r].out
  BY <1>2, <1>3 DEF Level
<1>11. ASSUME NEW r \in S, w.req[r].out = "none", Stopped(w, r)
       PROVE  z.req[r].out # "none"
  <2>1. v.req[r].out # "none"
    BY <1>1, <1>11 DEF Ending
  <2>2. u.req[r].out # "none"
    BY <1>2, <2>1 DEF Level
  <2>. QED
    BY <1>3, <2>2
<1>13. \A r \in ToSet(D) \ ToSet(s) : z.req[r].due
  BY <1>2, <1>3
<1>14. z \in Worlds /\ z.lost = w.lost
  BY <1>1, <1>2, <1>3
<1>15. Turned(w, v, z, S, D, ToSet(s))
  BY <1>9, <1>10, <1>11, <1>13, <1>14 DEF Turned
<1>. QED
  BY <1>01, <1>02, <1>03, <1>15

\* BeginLoop leaves each decoder alone and adds only due ones.
LEMMA BeginLoopIs ==
  ASSUME Placed, BeginLoop
  PROVE  /\ World' \in Worlds /\ lost' = lost
         /\ Fated(req, req', QueuedIn(clients) \cup Members(lists), lost')
         /\ Lined(clients') /\ lists' \in ListType
         /\ Replaced(req', QueuedIn(clients), lists, {}, QueuedIn(clients'), lists', {})
         /\ \A r \in ToSet(lists.decoding) : req'[r] = req[r] /\ r \in ToSet(lists'.decoding)
         /\ \A r \in ToSet(lists'.decoding) : r \in ToSet(lists.decoding) \/ req'[r].due
<1>1. PICK S, v, w :
           /\ v = Asked(World, EndedQueued \cup ToSet(Back(lists)))
           /\ w = UpdatedAll(MarkDue(v, ToDecode(lists, v)), lists.waiting, S)
           /\ Apply(w) /\ clients' = RemoveQueued(EndedQueued)
           /\ lists' = Resumed(lists, v, w)
  BY BeginLoopSplit
<1>. DEFINE P == ToSet(lists.prefilling)
            D == ToSet(lists.decoding)
            C == ToSet(lists.capturing)
            X == ToSet(lists.waiting)
            Q == QueuedIn(clients)
            B == ToSet(Back(lists))
<1>2. /\ World \in Worlds /\ World.req = req /\ World.lost = lost
      /\ lists \in ListType /\ Apart(lists) /\ Lined(clients)
      /\ Placement(req, Q, lists, ToSet(work.batch))
  BY PlacedFacts
<1>3. /\ lists.waiting \in Seq(Req) /\ Distinct(lists.waiting)
      /\ P \subseteq Req /\ D \subseteq Req /\ C \subseteq Req /\ X \subseteq Req
      /\ Members(lists) = P \cup D \cup C \cup X
  BY <1>2, ListFacts DEF Apart, Members
<1>4. /\ P \cap D = {} /\ P \cap C = {} /\ P \cap X = {} /\ D \cap C = {}
      /\ D \cap X = {} /\ C \cap X = {}
  BY <1>2 DEF Apart
<1>5. Q \subseteq Req /\ Q \cap (P \cup D \cup C \cup X) = {}
  BY <1>2, <1>3 DEF Placement
<1>22. PICK k : k = Resumed(lists, v, w)
  OBVIOUS
<1>23. Resumption(lists, v, w, k)
  BY <1>2, <1>22, ResumedIs
<1>6. /\ B = {r \in C : req[r].capture # "running"}
      /\ ToSet(ToDecode(lists, v)) \subseteq B
      /\ lists' \in ListType /\ Apart(lists')
      /\ Members(lists') = (P \cup D)
              \cup {r \in C : req[r].capture = "running" \/ v.req[r].out = "none"}
              \cup {r \in X : w.req[r].out = "none"}
      /\ ToSet(lists'.decoding) = D \cup ToSet(ToDecode(lists, v))
  BY <1>1, <1>22, <1>23 DEF Resumption
<1>8. EndedQueued = {r \in Q : req[r].expired \/ req[r].cancel}
  BY <1>2, QueuedIs DEF EndedQueued
<1>. DEFINE E == EndedQueued
<1>9. (E \cup B) \in SUBSET Req /\ ToSet(ToDecode(lists, v)) \subseteq E \cup B
  BY <1>3, <1>5, <1>6, <1>8
<1>24. PICK A \in SUBSET Req : A = E \cup B
  BY <1>9, ZenonT(30)
<1>25. PICK d : d = ToDecode(lists, v)
  OBVIOUS
<1>26. PICK u : u = MarkDue(v, d)
  OBVIOUS
<1>27. v = Asked(World, A) /\ ToSet(d) \subseteq A /\ w = UpdatedAll(u, lists.waiting, S)
  BY <1>1, <1>9, <1>24, <1>25, <1>26
<1>28. Turned(World, v, w, A, d, ToSet(lists.waiting))
  BY <1>2, <1>3, <1>26, <1>27, BeginLoopFates
<1>10. /\ w \in Worlds /\ w.lost = World.lost
       /\ Fated(World.req, w.req, (E \cup B) \cup X, World.lost)
       /\ \A r \in (E \cup B) \ X : w.req[r].out = v.req[r].out
       /\ \A r \in E \cup B : World.req[r].out = "none" /\ Stopped(World, r) => w.req[r].out # "none"
       /\ \A r \in ToSet(ToDecode(lists, v)) \ X : w.req[r].due
  BY <1>24, <1>25, <1>28 DEF Turned
<1>11. World' = w /\ req' = w.req /\ lost' = lost
  BY <1>1, <1>2, <1>10, ApplyIs
<1>12. Lined(clients') /\ QueuedIn(clients') = Q \ E
  BY <1>1, <1>2, RemoveQueuedIs
<1>13. \A r \in Req \ ((E \cup B) \cup X) : req'[r] = req[r]
  BY <1>2, <1>10, <1>11 DEF Fated
<1>14. Fated(req, req', Q \cup Members(lists), lost')
  <2>1. \A r \in Req : Fate(r, req[r], req'[r], lost')
    BY <1>2, <1>10, <1>11 DEF Fated
  <2>2. \A r \in Req \ (Q \cup Members(lists)) : req'[r] = req[r]
    BY <1>3, <1>6, <1>8, <1>13
  <2>. QED
    BY <2>1, <2>2 DEF Fated
<1>15. \A r \in Q \cup Members(lists) : req[r].out = "none"
  BY <1>2 DEF Placement
<1>16. \A r \in E : req'[r].out # "none"
  BY <1>2, <1>8, <1>10, <1>11, <1>15 DEF Stopped
<1>17. \A r \in (Q \ E) \cup P \cup D \cup {x \in C : req[x].capture = "running"} :
          req'[r] = req[r] /\ req[r].out = "none"
  BY <1>3, <1>4, <1>5, <1>6, <1>8, <1>13, <1>15
<1>18. \A r \in B : req'[r].out = v.req[r].out
  BY <1>4, <1>6, <1>10, <1>11
<1>19. Replaced(req', Q, lists, {}, Q \ E, lists', {})
  <2>1. Members(lists') \subseteq Members(lists)
    BY <1>3, <1>6
  <2>2. \A r \in Q \cup Members(lists) : req'[r].out = "none" => r \in (Q \ E) \cup Members(lists')
    <3>1. \A r \in Q : req'[r].out = "none" => r \in Q \ E
      BY <1>16
    <3>2. \A r \in C : req'[r].out = "none" => r \in Members(lists')
      BY <1>6, <1>18
    <3>3. \A r \in X : req'[r].out = "none" => r \in Members(lists')
      BY <1>6, <1>11
    <3>. QED
      BY <1>3, <1>6, <3>1, <3>2, <3>3
  <2>3. \A r \in (Q \ E) \cup Members(lists') : req'[r].out = "none"
    BY <1>6, <1>11, <1>17, <1>18
  <2>. QED
    BY <1>6, <2>1, <2>2, <2>3 DEF Replaced
<1>20. \A r \in D : req'[r] = req[r] /\ r \in ToSet(lists'.decoding)
  BY <1>6, <1>17
<1>21. \A r \in ToSet(lists'.decoding) : r \in D \/ req'[r].due
  BY <1>4, <1>6, <1>10, <1>11
<1>. QED
  BY <1>6, <1>10, <1>11, <1>12, <1>14, <1>19, <1>20, <1>21

\* BeginLoop keeps the placement.
LEMMA BeginLoopPlaced ==
  ASSUME Placed, BeginLoop
  PROVE  Placed'
<1>1. /\ World' \in Worlds /\ lost' = lost
      /\ Fated(req, req', QueuedIn(clients) \cup Members(lists), lost')
      /\ Lined(clients') /\ lists' \in ListType
      /\ Replaced(req', QueuedIn(clients), lists, {}, QueuedIn(clients'), lists', {})
  BY BeginLoopIs
<1>2. work.batch = <<>>
  BY PlacedFacts DEF Batching, BeginLoop, Between
<1>3. "admit" \in Counters /\ work' = Advance(work, "admit")
  BY DEF BeginLoop, Advance, Counters
<1>4. work' \in Works /\ work'.pc = "admit" /\ work'.batch = <<>>
  BY <1>2, <1>3, AdvanceIs, PlacedFacts
<1>5. ToSet(work.batch) = {} /\ ToSet(work'.batch) = {}
  BY <1>2, <1>4, ShortMembers
<1>6. Batching(work', req', lost')
  BY <1>4, BatchingNone DEF Between
<1>7. Draining(work', stopping, lost', clients', lists')
  BY <1>4 DEF Draining
<1>8. /\ mode' = mode /\ eos' = eos /\ stopping' = stopping
      /\ streak' \in Nat /\ skipped' \in [Req -> Nat]
  BY DEF BeginLoop, ListFrame, Placed
<1>9. Fated(req, req', QueuedIn(clients) \cup Members(lists) \cup ToSet(work.batch), lost')
  BY <1>1, <1>5
<1>. QED
  BY <1>1, <1>4, <1>5, <1>6, <1>7, <1>8, <1>9, WorkerPlaced, ZenonT(30)

-----------------------------------------------------------------------------
(* AdmitNext *)

\* Acquiring a runner for r.
Acquiring(b, r) == [b EXCEPT !.pc = "acquire", !.batch = <<r>>]

\* The unit of an acquisition.
LEMMA AcquiringIs ==
  ASSUME NEW b \in Works, NEW r \in Req
  PROVE  Acquiring(b, r) \in Works /\ Acquiring(b, r).pc = "acquire" /\ LoneBatch(Acquiring(b, r), r)
<1>1. <<r>> \in Seq(Req) /\ ToSet(<<r>>) = {r} /\ Distinct(<<r>>)
      /\ Head(<<r>>) = r /\ Len(<<r>>) = 1
  BY ShortMembers, ZenonT(30)
<1>2. PICK s \in Seq(Req) : s = <<r>>
  BY <1>1, ZenonT(30)
<1>3. PICK a : a = Acquiring(b, r)
  OBVIOUS
<1>4. a = [b EXCEPT !.pc = "acquire", !.batch = s]
  BY <1>2, <1>3 DEF Acquiring
<1>5. a \in Works /\ a.pc = "acquire" /\ a.batch = s
  BY <1>4, ZenonT(30) DEF Works, Counters
<1>6. LoneBatch(a, r)
  BY <1>1, <1>2, <1>5 DEF LoneBatch
<1>. QED
  BY <1>3, <1>5, <1>6

\* The outcomes of an admission: ended, parked or about to be acquired.
Outcomes(r, o, l, k, b, c) ==
  \/ o # "none" /\ k = Waiting(l, Only(l.waiting, Req \ {r})) /\ c = b
  \/ o = "none" /\ k = Waiting(l, Append(Only(l.waiting, Req \ {r}), r)) /\ c = b
  \/ o = "none" /\ k = Waiting(l, Only(l.waiting, Req \ {r})) /\ c = Acquiring(b, r)

\* Admission ends its request, parks it or takes it for acquisition.
LEMMA AdmissionIs ==
  ASSUME NEW w \in Worlds, NEW r \in Req, w.req[r].out = "none", lists \in ListType,
         Admission(w, r)
  PROVE  \E v \in Worlds :
           /\ Apply(v) /\ v.lost = w.lost /\ Serves(w, v, r)
           /\ Fate(r, w.req[r], v.req[r], w.lost)
           /\ Outcomes(r, v.req[r].out, lists, lists', work, work')
<1>. DEFINE parked == Only(lists.waiting, Req \ {r})
<1>1. CASE /\ Stopped(w, r) /\ Apply(CompleteIfStopped(w, r))
           /\ lists' = [lists EXCEPT !.waiting = parked] /\ work' = work
  <2>1. PICK v : v = CompleteIfStopped(w, r)
    OBVIOUS
  <2>2. /\ Serves(w, v, r) /\ v.lost = w.lost /\ Ending(w.req[r], v.req[r], w.lost)
        /\ Stream(r, w.req[r]) => Stream(r, v.req[r])
    <3>1. /\ Serves(w, v, r) /\ v.lost = w.lost
          /\ \/ ~Stopped(w, r) /\ v = w
             \/ Stopped(w, r) /\ Ending(w.req[r], v.req[r], w.lost)
          /\ Stream(r, w.req[r]) => Stream(r, v.req[r])
      BY <2>1, IfStopped
    <3>. QED
      BY <1>1, <3>1
  <2>3. v \in Worlds /\ v.req[r].out # "none" /\ Fate(r, w.req[r], v.req[r], w.lost)
    BY <2>2 DEF Serves, Ending, Fate
  <2>4. lists' = Waiting(lists, parked)
    BY <1>1 DEF Waiting
  <2>. QED
    BY <1>1, <2>1, <2>2, <2>3, <2>4, ZenonT(30) DEF Outcomes
<1>2. CASE \E s \in WaitForSharedPrefix(w, r) :
           \E p \in (IF s.ok THEN {s} ELSE WaitForPublication(s.w, r)) :
             /\ Apply(p.w)
             /\ lists' = [lists EXCEPT
                  !.waiting = IF p.ok THEN Append(parked, r) ELSE parked]
             /\ work' = IF p.ok THEN work
                        ELSE [work EXCEPT !.pc = "acquire", !.batch = <<r>>]
  <2>1. PICK s \in WaitForSharedPrefix(w, r) :
           \E p \in (IF s.ok THEN {s} ELSE WaitForPublication(s.w, r)) :
             /\ Apply(p.w)
             /\ lists' = [lists EXCEPT
                  !.waiting = IF p.ok THEN Append(parked, r) ELSE parked]
             /\ work' = IF p.ok THEN work
                        ELSE [work EXCEPT !.pc = "acquire", !.batch = <<r>>]
    BY <1>2, ZenonT(30)
  <2>2. PICK p \in (IF s.ok THEN {s} ELSE WaitForPublication(s.w, r)) :
             /\ Apply(p.w)
             /\ lists' = Waiting(lists, IF p.ok THEN Append(parked, r) ELSE parked)
             /\ work' = IF p.ok THEN work ELSE Acquiring(work, r)
    BY <2>1, ZenonT(30) DEF Waiting, Acquiring
  <2>3. Tended(w, p.w, r) /\ p.ok \in BOOLEAN
    BY <2>1, <2>2, AdmittedIs
  <2>4. /\ p.w \in Worlds /\ Serves(w, p.w, r) /\ p.w.lost = w.lost
        /\ Level(w.req[r], p.w.req[r]) /\ p.w.req[r].lease = w.req[r].lease
    BY <2>3 DEF Tended
  <2>5. Fate(r, w.req[r], p.w.req[r], w.lost) /\ p.w.req[r].out = "none"
    BY <2>4, FateLevel DEF Level
  <2>6. Outcomes(r, p.w.req[r].out, lists, lists', work, work')
    BY <2>2, <2>3, <2>5 DEF Outcomes
  <2>. QED
    BY <2>2, <2>4, <2>5, <2>6
<1>. QED
  BY <1>1, <1>2, ZenonT(30) DEF Admission

\* Where the request is afterwards.
LEMMA OutcomesAre ==
  ASSUME NEW l \in ListType, Apart(l), NEW r \in Req,
         r \in ToSet(l.waiting) \/ r \notin Members(l),
         NEW b \in Works, b.batch = <<>>,
         NEW o, NEW k, NEW c, Outcomes(r, o, l, k, b, c)
  PROVE  /\ k \in ListType /\ Apart(k) /\ k.decoding = l.decoding /\ c \in Works
         /\ Members(k) \cap ToSet(c.batch) = {}
         /\ Members(k) \cup ToSet(c.batch)
              = IF o = "none" THEN Members(l) \cup {r} ELSE Members(l) \ {r}
         /\ c = b \/ (c.pc = "acquire" /\ LoneBatch(c, r) /\ o = "none")
<1>0. ToSet(b.batch) = {}
  BY ShortMembers
<1>1. CASE o # "none" /\ k = Waiting(l, Only(l.waiting, Req \ {r})) /\ c = b
  <2>1. k \in ListType /\ Apart(k) /\ k.decoding = l.decoding /\ Members(k) = Members(l) \ {r}
    BY <1>1, Unparked, ZenonT(30)
  <2>. QED
    BY <1>0, <1>1, <2>1, ZenonT(30)
<1>2. CASE o = "none" /\ k = Waiting(l, Append(Only(l.waiting, Req \ {r}), r)) /\ c = b
  <2>1. k \in ListType /\ Apart(k) /\ k.decoding = l.decoding /\ Members(k) = Members(l) \cup {r}
    BY <1>2, ParkedLast, ZenonT(30)
  <2>. QED
    BY <1>0, <1>2, <2>1, ZenonT(30)
<1>3. CASE o = "none" /\ k = Waiting(l, Only(l.waiting, Req \ {r})) /\ c = Acquiring(b, r)
  <2>1. k \in ListType /\ Apart(k) /\ k.decoding = l.decoding /\ Members(k) = Members(l) \ {r}
    BY <1>3, Unparked, ZenonT(30)
  <2>2. c \in Works /\ c.pc = "acquire" /\ LoneBatch(c, r)
    BY <1>3, AcquiringIs
  <2>3. ToSet(c.batch) = {r}
    BY <2>2 DEF LoneBatch
  <2>. QED
    BY <1>3, <2>1, <2>2, <2>3, ZenonT(30)
<1>. QED
  BY <1>1, <1>2, <1>3 DEF Outcomes

-----------------------------------------------------------------------------
\* Whom AdmitNext admits, from the world w in which a queued request already
\* has its session.
Admitting(w, r, B) ==
  /\ w \in Worlds /\ w.lost = lost /\ r \in Req /\ w.req[r].out = "none"
  /\ Beside(req, w.req, r) /\ (w.req = req \/ Popped(req[r], w.req[r]))
  /\ Lined(clients')
  /\ Placement(w.req, QueuedIn(clients'), lists, B) /\ Seating(w.req)
  /\ (r \in ToSet(lists.waiting) /\ B = {}) \/ (r \notin Members(lists) /\ B = {r})
  /\ Admission(w, r)

\* AdmitNext admits the first released request.
LEMMA ReleasedIs ==
  ASSUME Placed, AdmitNext, Released # <<>>
  PROVE  Admitting(World, Head(Released), {})
<1>1. Admission(World, Head(Released)) /\ clients' = clients
  BY DEF AdmitNext
<1>2. /\ lists \in ListType /\ World \in Worlds /\ World.req = req /\ World.lost = lost
      /\ Lined(clients) /\ Seating(req)
      /\ Placement(req, QueuedIn(clients), lists, ToSet(work.batch))
      /\ Batching(work, req, lost)
  BY PlacedFacts
<1>3. PICK s : s = Released
  OBVIOUS
<1>4. s \in Seq(Req) /\ ToSet(s) \subseteq ToSet(lists.waiting)
  BY <1>2, <1>3, ListFacts, OnlyMembers DEF Released
<1>5. Head(s) \in ToSet(lists.waiting) /\ Head(s) \in Req
  BY <1>3, <1>4, HeadTailMembers
<1>6. ToSet(work.batch) = {}
  BY <1>2, ShortMembers DEF Batching, AdmitNext, Between
<1>7. req[Head(s)].out = "none"
  BY <1>2, <1>5 DEF Placement, Members
<1>8. PICK r \in Req : r = Head(s)
  BY <1>5
<1>9. PICK w \in Worlds : w = World
  BY <1>2
<1>10. PICK B : B = {}
  BY ZenonT(30)
<1>11. Beside(req, w.req, r)
  BY <1>2, <1>9 DEF Beside
<1>12. Placement(w.req, QueuedIn(clients'), lists, B) /\ Seating(w.req) /\ Lined(clients')
  BY <1>1, <1>2, <1>6, <1>9, <1>10
<1>13. w.lost = lost /\ w.req = req /\ w.req[r].out = "none" /\ r \in ToSet(lists.waiting)
  BY <1>2, <1>5, <1>7, <1>8, <1>9
<1>14. Admission(w, r)
  BY <1>1, <1>3, <1>8, <1>9
<1>15. Admitting(w, r, B)
  BY <1>10, <1>11, <1>12, <1>13, <1>14 DEF Admitting
<1>. QED
  BY <1>3, <1>8, <1>9, <1>10, <1>15

\* Or the first of the queue.
LEMMA PoppedIs ==
  ASSUME Placed, AdmitNext, Released = <<>>
  PROVE  Admitting(PopQueued(World), Head(Head(clients).requests), {Head(Head(clients).requests)})
<1>1. /\ Admission(PopQueued(World), Head(Head(clients).requests)) /\ clients' = Rotated
      /\ clients # <<>> /\ Residents(lists) + Len(lists.waiting) < mode.capacity
  <2>1. /\ Admission(PopQueued(World), Head(Head(clients).requests)) /\ clients' = Rotated
        /\ ~AdmitOver
    BY DEF AdmitNext
  <2>2. lists \in ListType /\ mode \in Modes
    BY PlacedFacts
  <2>3. Residents(lists) \in Nat /\ Len(lists.waiting) \in Nat /\ mode.capacity \in Nat
    BY <2>2, ListsCount, SchedulerAssumption
  <2>4. clients # <<>> /\ ~(Residents(lists) + Len(lists.waiting) >= mode.capacity)
    BY <2>1 DEF AdmitOver
  <2>. QED
    BY <2>1, <2>3, <2>4
<1>2. /\ lists \in ListType /\ World \in Worlds /\ World.req = req /\ World.lost = lost
      /\ Lined(clients) /\ Seating(req) /\ mode \in Modes /\ req \in [Req -> Requests]
      /\ Placement(req, QueuedIn(clients), lists, ToSet(work.batch))
      /\ Batching(work, req, lost)
  BY PlacedFacts
<1>3. PICK r : r = Head(Head(clients).requests)
  OBVIOUS
<1>4. r \in QueuedIn(clients) /\ Lined(clients') /\ QueuedIn(clients') = QueuedIn(clients) \ {r}
  BY <1>1, <1>2, <1>3, RotatedIs
<1>5. ToSet(work.batch) = {}
  BY <1>2, ShortMembers DEF Batching, AdmitNext, Between
<1>6. Placement(req, QueuedIn(clients), lists, {})
  BY <1>2, <1>5
<1>7. r \in Req /\ r \notin Members(lists) /\ req[r].out = "none"
      /\ \A x \in Req : req[x].counted => x \in Members(lists)
  BY <1>4, <1>6 DEF Placement
<1>8. PICK k : k = IF FreeSessions = {} THEN 0 ELSE Min(FreeSessions)
  OBVIOUS
<1>9. /\ k \in Nat /\ k # 0 /\ k <= mode.capacity
      /\ \A x \in Req : req[x].session # k
  BY <1>1, <1>2, <1>7, <1>8, SessionFree
<1>10. PICK w : w = PopQueued(World)
  OBVIOUS
<1>11. w = Popping(World, r, k)
  BY <1>3, <1>8, <1>10 DEF PopQueued, Popping
<1>12. /\ w \in Worlds /\ Serves(World, w, r) /\ w.lost = lost
       /\ Popped(req[r], w.req[r]) /\ w.req[r].counted /\ w.req[r].session = k
  <2>1. PICK u \in Worlds : u = World
    BY <1>2
  <2>2. w = Popping(u, r, k) /\ r \in Req /\ k \in Nat
    BY <1>7, <1>9, <1>11, <2>1
  <2>3. /\ w \in Worlds /\ Serves(u, w, r) /\ w.lost = u.lost
        /\ Popped(u.req[r], w.req[r]) /\ w.req[r].counted /\ w.req[r].session = k
    BY <2>2, PoppingServes
  <2>. QED
    BY <1>2, <2>1, <2>3
<1>13. Beside(req, w.req, r)
  BY <1>2, <1>12 DEF Serves, Beside
<1>14. w.req[r].handle = req[r].handle /\ w.req[r].out = req[r].out
  BY <1>12 DEF Popped, SameClient
<1>15. Placement(w.req, QueuedIn(clients) \ {r}, lists, {r}) /\ Seating(w.req)
  <2>1. /\ w.req[r].session # 0 /\ w.req[r].session <= mode.capacity
        /\ \A x \in Req : req[x].session # w.req[r].session
    BY <1>9, <1>12
  <2>2. PICK g : g = w.req
    OBVIOUS
  <2>3. PICK Q : Q = QueuedIn(clients)
    OBVIOUS
  <2>4. /\ r \in Q /\ r \in Req /\ Beside(req, g, r) /\ g[r].counted /\ g[r].session # 0
        /\ g[r].session <= mode.capacity /\ g[r].handle = req[r].handle /\ g[r].out = req[r].out
        /\ \A x \in Req : req[x].session # g[r].session
    BY <1>4, <1>7, <1>12, <1>13, <1>14, <2>1, <2>2, <2>3
  <2>5. Placement(g, Q \ {r}, lists, {r}) /\ Seating(g)
    BY <1>2, <1>6, <2>3, <2>4, PlacesPopped
  <2>. QED
    BY <2>2, <2>3, <2>5
<1>. QED
  BY <1>1, <1>3, <1>4, <1>7, <1>10, <1>12, <1>13, <1>14, <1>15 DEF Admitting

\* One of the two.
LEMMA AdmittingIs ==
  ASSUME Placed, AdmitNext
  PROVE  \E w, r, B : Admitting(w, r, B)
BY ReleasedIs, PoppedIs

\* The admission, from the requests f.
Admits(f, r, B) ==
  /\ f \in [Req -> Requests] /\ Beside(req, f, r) /\ (f = req \/ Popped(req[r], f[r]))
  /\ r \in Req /\ r \notin ToSet(lists.decoding)
  /\ Placement(f, QueuedIn(clients'), lists, B) /\ Seating(f)
  /\ Fated(f, req', QueuedIn(clients') \cup Members(lists) \cup B, lost')
  /\ Beside(f, req', r)
  /\ Replaced(req', QueuedIn(clients'), lists, B, QueuedIn(clients'), lists', ToSet(work'.batch))
  /\ work' = work \/ (work'.pc = "acquire" /\ LoneBatch(work', r) /\ req'[r].out = "none")

\* AdmitNext gives a popped request a free session, and no other request changes.
LEMMA AdmitNextIs ==
  ASSUME Placed, AdmitNext
  PROVE  /\ World' \in Worlds /\ lost' = lost /\ Lined(clients')
         /\ lists' \in ListType /\ lists'.decoding = lists.decoding
         /\ work.pc = "admit" /\ work.batch = <<>> /\ work' \in Works
         /\ \E f, r, B : Admits(f, r, B)
<1>1. PICK w, r, B : Admitting(w, r, B)
  BY AdmittingIs
<1>2. /\ w \in Worlds /\ w.lost = lost /\ r \in Req /\ w.req[r].out = "none"
      /\ Beside(req, w.req, r) /\ (w.req = req \/ Popped(req[r], w.req[r]))
      /\ Lined(clients')
      /\ Placement(w.req, QueuedIn(clients'), lists, B) /\ Seating(w.req)
      /\ (r \in ToSet(lists.waiting) /\ B = {}) \/ (r \notin Members(lists) /\ B = {r})
      /\ Admission(w, r)
  BY <1>1 DEF Admitting
<1>3. lists \in ListType /\ Apart(lists) /\ work \in Works /\ Batching(work, req, lost)
  BY PlacedFacts
<1>4. work.pc = "admit" /\ work.batch = <<>>
  BY <1>3 DEF AdmitNext, Batching, Between
<1>5. PICK v \in Worlds :
        /\ Apply(v) /\ v.lost = w.lost /\ Serves(w, v, r)
        /\ Fate(r, w.req[r], v.req[r], w.lost)
        /\ Outcomes(r, v.req[r].out, lists, lists', work, work')
  BY <1>2, <1>3, AdmissionIs
<1>6. World' = v /\ req' = v.req /\ lost' = lost
  BY <1>2, <1>5, ApplyIs
<1>7. /\ lists' \in ListType /\ Apart(lists') /\ lists'.decoding = lists.decoding
      /\ work' \in Works
      /\ Members(lists') \cap ToSet(work'.batch) = {}
      /\ Members(lists') \cup ToSet(work'.batch)
           = IF v.req[r].out = "none" THEN Members(lists) \cup {r} ELSE Members(lists) \ {r}
      /\ work' = work \/ (work'.pc = "acquire" /\ LoneBatch(work', r) /\ v.req[r].out = "none")
  BY <1>2, <1>3, <1>4, <1>5, OutcomesAre
<1>8. w.req \in [Req -> Requests]
  BY <1>2, WorldFacts
<1>9. r \notin ToSet(lists.decoding)
  BY <1>2, <1>3 DEF Apart, Members
<1>10. r \in Members(lists) \cup B
  BY <1>2 DEF Members
<1>11. \A x \in Req \ {r} : v.req[x] = w.req[x]
  BY <1>5 DEF Serves
<1>12. Fated(w.req, req', QueuedIn(clients') \cup Members(lists) \cup B, lost')
  <2>1. ASSUME NEW x \in Req
        PROVE  Fate(x, w.req[x], v.req[x], w.lost)
    BY <1>5, <1>11, FateSelf
  <2>. QED
    BY <1>2, <1>6, <1>10, <1>11, <2>1 DEF Fated
<1>13. Beside(w.req, req', r)
  BY <1>6, <1>11 DEF Beside
<1>14. Replaced(req', QueuedIn(clients'), lists, B, QueuedIn(clients'), lists', ToSet(work'.batch))
  <2>1. /\ QueuedIn(clients') \subseteq Req /\ Members(lists) \subseteq Req
        /\ QueuedIn(clients') \cap (Members(lists) \cup B) = {}
        /\ \A x \in QueuedIn(clients') \cup Members(lists) : w.req[x].out = "none"
    BY <1>2 DEF Placement
  <2>2. \A x \in (QueuedIn(clients') \cup Members(lists)) \ {r} : v.req[x].out = "none"
    BY <1>11, <2>1
  <2>3. ToSet(work'.batch) \subseteq {r}
    BY <1>4, <1>7, ShortMembers DEF LoneBatch
  <2>4. Members(lists') \cup ToSet(work'.batch) \subseteq Members(lists) \cup B
    BY <1>7, <1>10
  <2>5. \A x \in QueuedIn(clients') \cup Members(lists) \cup B : v.req[x].out = "none" =>
           x \in QueuedIn(clients') \cup Members(lists') \cup ToSet(work'.batch)
    BY <1>2, <1>7
  <2>6. \A x \in QueuedIn(clients') \cup Members(lists') : v.req[x].out = "none"
    BY <1>2, <1>7, <1>10, <2>1, <2>2
  <2>. QED
    BY <1>6, <1>7, <2>4, <2>5, <2>6 DEF Replaced
<1>. QED
  BY <1>2, <1>4, <1>5, <1>6, <1>7, <1>8, <1>9, <1>12, <1>13, <1>14, ZenonT(30) DEF Admits

\* AdmitNext keeps the placement.
LEMMA AdmitNextPlaced ==
  ASSUME Placed, AdmitNext
  PROVE  Placed'
<1>1. PICK f, r, B : Admits(f, r, B)
  BY AdmitNextIs
<1>2. /\ World' \in Worlds /\ lost' = lost /\ Lined(clients') /\ lists' \in ListType
      /\ work.pc = "admit" /\ work.batch = <<>> /\ work' \in Works
  BY AdmitNextIs
<1>3. /\ Placement(f, QueuedIn(clients'), lists, B) /\ Seating(f)
      /\ Fated(f, req', QueuedIn(clients') \cup Members(lists) \cup B, lost')
      /\ Replaced(req', QueuedIn(clients'), lists, B, QueuedIn(clients'), lists', ToSet(work'.batch))
      /\ work' = work \/ (work'.pc = "acquire" /\ LoneBatch(work', r) /\ req'[r].out = "none")
  BY <1>1 DEF Admits
<1>4. mode \in Modes /\ Batching(work, req, lost)
  BY PlacedFacts
<1>5. Moved(f, QueuedIn(clients'), lists, B, req', QueuedIn(clients'), lists', ToSet(work'.batch))
  BY <1>3, FatedMoved
<1>6. Placement(req', QueuedIn(clients'), lists', ToSet(work'.batch)) /\ Seating(req')
  BY <1>3, <1>4, <1>5, PlacesMoved
<1>7. /\ mode' = mode /\ eos' = eos /\ stopping' = stopping /\ streak' = streak /\ skipped' = skipped
  BY DEF AdmitNext, ListFrame
<1>8. Seating(req)'
  BY <1>6, <1>7 DEF Seating
<1>9. Batching(work', req', lost')
  <2>1. CASE work' = work
    BY <1>2, <2>1, BatchingNone DEF Between
  <2>2. CASE work'.pc = "acquire" /\ LoneBatch(work', r) /\ req'[r].out = "none"
    BY <2>2 DEF Batching, Between, LoneBatch
  <2>. QED
    BY <1>3, <2>1, <2>2
<1>10. Draining(work', stopping, lost', clients', lists')
  BY <1>2, <1>3 DEF Draining
<1>. QED
  BY <1>2, <1>6, <1>7, <1>8, <1>9, <1>10 DEF Placed

-----------------------------------------------------------------------------
(* One request at a time *)

\* The step from w to v is for r, which goes on as it is or ends.
Handled(w, v, r) ==
  /\ v \in Worlds /\ Serves(w, v, r) /\ Later(w.lost, v.lost)
  /\ Fate(r, w.req[r], v.req[r], v.lost)

\* A failed request is over.
LEMMA RuinedHandled ==
  ASSUME NEW w \in Worlds, NEW r \in Req, NEW v, NEW f, Ruined(w, v, r, f), f # "misuse",
         w.req[r].out = "none"
  PROVE  Handled(w, v, r) /\ v.req[r].out # "none"
<1>1. /\ Serves(w, v, r) /\ v.lost \in {w.lost, Probed(w.lost, f)}
      /\ Ending(w.req[r], v.req[r], v.lost)
      /\ Taken(r, w.req[r]) => Stream(r, v.req[r])
  BY RuinedEnds
<1>2. Later(w.lost, v.lost)
  BY <1>1, WorldFacts, ProbedFacts DEF Later
<1>3. Stream(r, w.req[r]) => Stream(r, v.req[r])
  BY <1>1, StreamTaken, WorldFacts
<1>. QED
  BY <1>1, <1>2, <1>3 DEF Handled, Serves, Fate, Ending

\* A cancelled request is over.
LEMMA CancelledHandled ==
  ASSUME NEW w \in Worlds, NEW r \in Req, w.req[r].out = "none",
         NEW v, v = CompleteCancelled(w, r)
  PROVE  Handled(w, v, r) /\ v.req[r].out # "none"
<1>1. /\ Serves(w, v, r) /\ v.lost = w.lost /\ Ending(w.req[r], v.req[r], w.lost)
      /\ Stream(r, w.req[r]) => Stream(r, v.req[r])
  BY CancelServes
<1>. QED
  BY <1>1 DEF Handled, Serves, Later, Fate, Ending

\* A stopped request is over.
LEMMA StoppedHandled ==
  ASSUME NEW w \in Worlds, NEW r \in Req, w.req[r].out = "none", Stopped(w, r),
         NEW v, v = CompleteIfStopped(w, r)
  PROVE  Handled(w, v, r) /\ v.req[r].out # "none"
<1>1. /\ Serves(w, v, r) /\ v.lost = w.lost
      /\ \/ ~Stopped(w, r) /\ v = w
         \/ Stopped(w, r) /\ Ending(w.req[r], v.req[r], w.lost)
      /\ Stream(r, w.req[r]) => Stream(r, v.req[r])
  BY IfStopped
<1>. QED
  BY <1>1 DEF Handled, Serves, Later, Fate, Ending

\* The request of a batch of one is put where it goes on, if it does.
LEMMA LoneReplaced ==
  ASSUME NEW f, NEW Q, NEW l, NEW r \in Req, Placement(f, Q, l, {r}), Seating(f),
         NEW g, Beside(f, g, r), NEW k, Apart(k),
         Members(k) = IF g[r].out = "none" THEN Members(l) \cup {r} ELSE Members(l)
  PROVE  Replaced(g, Q, l, {r}, Q, k, {})
<1>1. /\ Q \subseteq Req /\ Members(l) \subseteq Req /\ Members(l) \cap {r} = {}
      /\ Q \cap (Members(l) \cup {r}) = {}
      /\ \A x \in Q \cup Members(l) : f[x].out = "none"
  BY DEF Placement
<1>2. \A x \in Q \cup Members(l) : g[x].out = "none"
  BY <1>1 DEF Beside
<1>. QED
  BY <1>1, <1>2 DEF Replaced

\* Handling one request leaves the others alone.
LEMMA HandledFated ==
  ASSUME NEW w, NEW v, NEW r \in Req, Handled(w, v, r), NEW S, r \in S
  PROVE  Fated(w.req, v.req, S, v.lost) /\ Beside(w.req, v.req, r)
<1>1. \A x \in Req \ {r} : v.req[x] = w.req[x]
  BY DEF Handled, Serves
<1>2. ASSUME NEW x \in Req PROVE Fate(x, w.req[x], v.req[x], v.lost)
  BY <1>1, FateSelf DEF Handled
<1>. QED
  BY <1>1, <1>2 DEF Fated, Beside

-----------------------------------------------------------------------------
(* Acquire *)

\* What becomes of the request that waits for a runner, and where it goes.
Acquires(r, v, k) ==
  /\ Handled(World, v, r)
  /\ \/ v.req[r].out # "none" /\ k = lists
     \/ v.req[r].out = "none" /\ v.req[r].due /\ k = ToDecoding(lists, r)
     \/ v.req[r].out = "none" /\ k = Prefilling(lists, InsertPrefill(r))

\* The outcomes of Acquire.
LEMMA AcquireSplit ==
  ASSUME Placed, Acquire, NEW r \in Req, r = Head(work.batch), req[r].out = "none"
  PROVE  \E v \in Worlds : Apply(v) /\ Acquires(r, v, lists')
<1>1. World \in Worlds /\ World.req = req /\ World.lost = lost /\ World.req[r].out = "none"
  BY PlacedFacts
<1>2. CASE (\E f \in Failures : Apply(FailNow(World, r, f))) /\ lists' = lists
  <2>1. PICK f \in Failures : Apply(FailNow(World, r, f))
    BY <1>2
  <2>2. PICK v : v = FailNow(World, r, f)
    OBVIOUS
  <2>3. Ruined(World, v, r, f) /\ f # "misuse"
    BY <1>1, <2>1, <2>2, FailNowIs DEF Ruined, Failures
  <2>4. Handled(World, v, r) /\ v.req[r].out # "none"
    BY <1>1, <2>3, RuinedHandled
  <2>. QED
    BY <1>2, <2>1, <2>2, <2>4 DEF Acquires, Handled
<1>3. CASE Apply(CompleteCancelled(World, r)) /\ lists' = lists
  <2>1. PICK v : v = CompleteCancelled(World, r)
    OBVIOUS
  <2>2. Handled(World, v, r) /\ v.req[r].out # "none"
    BY <1>1, <2>1, CancelledHandled
  <2>. QED
    BY <1>3, <2>1, <2>2 DEF Acquires, Handled
<1>4. CASE \E cached \in {0, Prompt[r]} :
             /\ Apply(Leasing(World, r, cached))
             /\ lists' = IF cached = Prompt[r] THEN ToDecoding(lists, r)
                         ELSE Prefilling(lists, InsertPrefill(r))
  <2>1. PICK n \in {0, Prompt[r]} :
             /\ Apply(Leasing(World, r, n))
             /\ lists' = IF n = Prompt[r] THEN ToDecoding(lists, r)
                         ELSE Prefilling(lists, InsertPrefill(r))
    BY <1>4
  <2>2. n \in Nat
    BY <2>1, SchedulerAssumption
  <2>3. PICK v : v = Leasing(World, r, n)
    OBVIOUS
  <2>4. /\ v \in Worlds /\ Serves(World, v, r) /\ v.lost = World.lost
        /\ Level(World.req[r], v.req[r]) /\ (v.req[r].due <=> n = Prompt[r])
        /\ v.req[r].lease = "held"
    BY <1>1, <2>2, <2>3, LeasingServes
  <2>5. Handled(World, v, r) /\ v.req[r].out = "none"
    BY <1>1, <2>4 DEF Handled, Later, Fate, Level
  <2>. QED
    BY <2>1, <2>3, <2>4, <2>5 DEF Acquires
<1>. QED
  BY <1>2, <1>3, <1>4 DEF Acquire, Leasing, ToDecoding, Prefilling

\* A batch of one, the request still live and nowhere else.
LEMMA LoneIs ==
  ASSUME Placed, work.pc \in {"acquire", "prefill"}, NEW r, r = Head(work.batch)
  PROVE  /\ r \in Req /\ req[r].out = "none" /\ ToSet(work.batch) = {r}
         /\ r \notin Members(lists)
<1>1. /\ Len(work.batch) = 1 /\ req[Head(work.batch)].out = "none"
      /\ work \in Works /\ Placement(req, QueuedIn(clients), lists, ToSet(work.batch))
  BY PlacedFacts DEF Batching
<1>2. work.batch \in Seq(Req)
  BY <1>1, WorkFacts
<1>3. work.batch # <<>>
  BY <1>1, <1>2
<1>4. /\ r \in Req /\ Tail(work.batch) = <<>>
      /\ ToSet(work.batch) = {r} \cup ToSet(Tail(work.batch))
  BY <1>1, <1>2, <1>3, HeadTailMembers
<1>5. ToSet(work.batch) = {r}
  BY <1>4, ShortMembers, ZenonT(30)
<1>6. r \notin Members(lists)
  BY <1>1, <1>5 DEF Placement
<1>. QED
  BY <1>1, <1>4, <1>5, <1>6

\* Fewer requests may change than are allowed to.
LEMMA FatedMore ==
  ASSUME NEW f, NEW g, NEW S, NEW k, Fated(f, g, S, k), NEW T, S \subseteq T
  PROVE  Fated(f, g, T, k)
BY DEF Fated

\* The worker holds no batch any more.
Clearing(b, p) == [b EXCEPT !.pc = p, !.batch = <<>>]

\* A unit without a batch.
LEMMA ClearingIs ==
  ASSUME NEW b \in Works, NEW p \in Counters
  PROVE  /\ Clearing(b, p) \in Works /\ Clearing(b, p).pc = p /\ Clearing(b, p).batch = <<>>
<1>1. <<>> \in Seq(Req)
  OBVIOUS
<1>2. PICK s \in Seq(Req) : s = <<>>
  BY <1>1, ZenonT(30)
<1>3. PICK a : a = Clearing(b, p)
  OBVIOUS
<1>4. a = [b EXCEPT !.pc = p, !.batch = s]
  BY <1>2, <1>3 DEF Clearing
<1>5. a \in Works
  BY <1>4, ZenonT(30) DEF Works, Counters
<1>6. a.pc = p /\ a.batch = s
  BY <1>4, WorkFacts DEF Works
<1>. QED
  BY <1>2, <1>3, <1>5, <1>6

\* What became of the requests after the step of a batch of one: the decoders
\* stayed, and one that joined them is due.
Onward(f, g, d, e) ==
  /\ \A r \in ToSet(d) : g[r] = f[r] /\ r \in ToSet(e)
  /\ \A r \in ToSet(e) : r \in ToSet(d) \/ g[r].due

\* Acquire handles its one request and moves it to a list, unless it is over.
LEMMA AcquireIs ==
  ASSUME Placed, Acquire
  PROVE  /\ World' \in Worlds /\ lists' \in ListType
         /\ Fated(req, req', ToSet(work.batch), lost')
         /\ Replaced(req', QueuedIn(clients), lists, ToSet(work.batch),
                     QueuedIn(clients), lists', {})
         /\ Onward(req, req', lists.decoding, lists'.decoding)
<1>1. PICK r : r = Head(work.batch)
  OBVIOUS
<1>2. /\ r \in Req /\ req[r].out = "none" /\ ToSet(work.batch) = {r}
      /\ r \notin Members(lists)
  BY <1>1, LoneIs DEF Acquire
<1>3. PICK v \in Worlds : Apply(v) /\ Acquires(r, v, lists')
  BY <1>1, <1>2, AcquireSplit
<1>4. World' = v /\ req' = v.req /\ lost' = v.lost
  BY <1>3, ApplyIs
<1>5. /\ Handled(World, v, r) /\ World.req = req
      /\ lists \in ListType /\ Apart(lists)
      /\ Placement(req, QueuedIn(clients), lists, {r}) /\ Seating(req)
  BY <1>2, <1>3, PlacedFacts DEF Acquires
<1>6. Fated(req, req', {r}, lost') /\ Beside(req, req', r)
  <2>1. PICK S : S = {r}
    BY ZenonT(30)
  <2>2. Fated(World.req, v.req, S, v.lost) /\ Beside(World.req, v.req, r)
    BY <1>2, <1>5, <2>1, HandledFated
  <2>. QED
    BY <1>4, <1>5, <2>1, <2>2
<1>7. \/ req'[r].out # "none" /\ lists' = lists
      \/ req'[r].out = "none" /\ req'[r].due /\ lists' = ToDecoding(lists, r)
      \/ req'[r].out = "none" /\ lists' = Prefilling(lists, InsertPrefill(r))
  BY <1>3, <1>4 DEF Acquires
<1>8. /\ lists' \in ListType /\ Apart(lists')
      /\ Members(lists') = IF req'[r].out = "none" THEN Members(lists) \cup {r} ELSE Members(lists)
      /\ ToSet(lists.decoding) \subseteq ToSet(lists'.decoding)
      /\ \A x \in ToSet(lists'.decoding) : x \in ToSet(lists.decoding) \/ (x = r /\ req'[r].due)
  <2>1. CASE req'[r].out # "none" /\ lists' = lists
    BY <1>5, <2>1
  <2>2. CASE req'[r].out = "none" /\ req'[r].due /\ lists' = ToDecoding(lists, r)
    <3>1. Gains(lists, lists', r)
      BY <1>2, <1>5, <2>2, ToDecodingIs
    <3>. QED
      BY <2>2, <3>1 DEF Gains
  <2>3. CASE req'[r].out = "none" /\ lists' = Prefilling(lists, InsertPrefill(r))
    <3>1. Gains(lists, lists', r) /\ lists'.decoding = lists.decoding
      BY <1>2, <1>5, <2>3, InsertedIs
    <3>. QED
      BY <2>3, <3>1 DEF Gains
  <2>. QED
    BY <1>7, <2>1, <2>2, <2>3
<1>9. Replaced(req', QueuedIn(clients), lists, {r}, QueuedIn(clients), lists', {})
  BY <1>2, <1>5, <1>6, <1>8, LoneReplaced
<1>10. Onward(req, req', lists.decoding, lists'.decoding)
  <2>1. ToSet(lists.decoding) \subseteq Req /\ ToSet(lists.decoding) \subseteq Members(lists)
    BY <1>5, ListFacts DEF Members
  <2>. QED
    BY <1>2, <1>6, <1>8, <2>1 DEF Onward, Beside
<1>11. World' \in Worlds
  BY <1>3, <1>4
<1>. QED
  BY <1>2, <1>6, <1>8, <1>9, <1>10, <1>11

\* Acquire keeps the placement.
LEMMA AcquirePlaced ==
  ASSUME Placed, Acquire
  PROVE  Placed'
<1>1. /\ World' \in Worlds /\ lists' \in ListType
      /\ Fated(req, req', ToSet(work.batch), lost')
      /\ Replaced(req', QueuedIn(clients), lists, ToSet(work.batch),
                  QueuedIn(clients), lists', {})
  BY AcquireIs
<1>2. /\ work' = Clearing(work, "admit") /\ UNCHANGED <<mode, eos, stopping>>
      /\ UNCHANGED <<clients, streak, skipped>>
  BY DEF Acquire, Clearing, ListFrame
<1>3. work' \in Works /\ work'.pc = "admit" /\ work'.batch = <<>>
  BY <1>2, PlacedFacts, ClearingIs DEF Counters
<1>4. Batching(work', req', lost')
  BY <1>3, BatchingNone DEF Between
<1>5. Draining(work', stopping, lost', clients', lists')
  BY <1>3 DEF Draining
<1>6. Fated(req, req', QueuedIn(clients) \cup Members(lists) \cup ToSet(work.batch), lost')
  <2>1. PICK T : T = QueuedIn(clients) \cup Members(lists) \cup ToSet(work.batch)
    BY ZenonT(30)
  <2>2. Fated(req, req', T, lost')
    BY <1>1, <2>1, FatedMore
  <2>. QED
    BY <2>1, <2>2
<1>7. Replaced(req', QueuedIn(clients), lists, ToSet(work.batch),
               QueuedIn(clients'), lists', ToSet(work'.batch))
  BY <1>1, <1>2, <1>3, ShortMembers, ZenonT(30)
<1>8. streak' \in Nat /\ skipped' \in [Req -> Nat] /\ Lined(clients')
  BY <1>2 DEF Placed
<1>. QED
  BY <1>1, <1>2, <1>3, <1>4, <1>5, <1>6, <1>7, <1>8, WorkerPlaced, ZenonT(30)

(***************************************************************************)
(* StepPrefill                                                             *)
(***************************************************************************)

\* Every outcome of a chunk handles its request.
LEMMA PrefillOutcomeHandled ==
  ASSUME NEW w \in Worlds, w = World, NEW r \in Req, w.req[r].out = "none",
         NEW v \in PrefillOutcomes(r), NEW b, b = PrefillBudget(r), b \in Int
  PROVE  Handled(w, v, r)
<1>1. PICK n \in 1 .. PrefillBudget(r) : v = CompleteIfStopped(Chunk(World, r, n), r)
  BY DEF PrefillOutcomes
<1>2. n \in Nat
  BY <1>1
<1>3. /\ Serves(w, v, r) /\ v.lost = w.lost
      /\ \/ Ending(w.req[r], v.req[r], w.lost)
         \/ Level(w.req[r], v.req[r]) /\ v.req[r].lease = w.req[r].lease
      /\ Stream(r, w.req[r]) => Stream(r, v.req[r])
  BY <1>1, <1>2, PrefillOutcomesIs
<1>. QED
  BY <1>3 DEF Handled, Later, Fate, Serves

\* The request of the chunk, before the decoders are made due.
Chunked(r, v, l) ==
  /\ Handled(World, v, r) /\ l = Requeued(lists, v, r) /\ lists' = l
  /\ Apply(MarkDue(v, l.decoding))

\* A chunk, and what becomes of the lists.
LEMMA StepPrefillSplit ==
  ASSUME Placed, StepPrefill, NEW r, r = Head(work.batch)
  PROVE  \E v, l : Chunked(r, v, l)
<1>1. /\ r \in Req /\ req[r].out = "none" /\ World \in Worlds /\ World.req = req
      /\ World.req[r].out = "none" /\ work \in Works
  BY LoneIs, PlacedFacts DEF StepPrefill
<1>2. \A w : (/\ Apply(MarkDue(w, Requeued(lists, w, r).decoding))
              /\ lists' = Requeued(lists, w, r)
              /\ Handled(World, w, r)) => \E v, l : Chunked(r, v, l)
  BY DEF Chunked
<1>3. CASE /\ Stopped(World, r)
           /\ Apply(MarkDue(CompleteIfStopped(World, r),
                            Requeued(lists, CompleteIfStopped(World, r), r).decoding))
           /\ lists' = Requeued(lists, CompleteIfStopped(World, r), r)
  <2>1. PICK w : w = CompleteIfStopped(World, r)
    OBVIOUS
  <2>2. Handled(World, w, r)
    BY <1>1, <1>3, <2>1, StoppedHandled
  <2>. QED
    BY <1>2, <1>3, <2>1, <2>2
<1>4. CASE \E f \in Failures :
             /\ Apply(MarkDue(FailUnlessStopped(World, r, f),
                              Requeued(lists, FailUnlessStopped(World, r, f), r).decoding))
             /\ lists' = Requeued(lists, FailUnlessStopped(World, r, f), r)
  <2>1. PICK f \in Failures :
             /\ Apply(MarkDue(FailUnlessStopped(World, r, f),
                              Requeued(lists, FailUnlessStopped(World, r, f), r).decoding))
             /\ lists' = Requeued(lists, FailUnlessStopped(World, r, f), r)
    BY <1>4
  <2>2. PICK w : w = FailUnlessStopped(World, r, f)
    OBVIOUS
  <2>3. f # "misuse"
    BY <2>1 DEF Failures
  <2>4. Ruined(World, w, r, f)
    BY <1>1, <2>2, FailUnlessStoppedIs
  <2>5. Handled(World, w, r)
    BY <1>1, <2>3, <2>4, RuinedHandled
  <2>. QED
    BY <1>2, <2>1, <2>2, <2>5
<1>5. CASE \E w \in PrefillOutcomes(r) :
             Apply(MarkDue(w, Requeued(lists, w, r).decoding)) /\ lists' = Requeued(lists, w, r)
  <2>1. PICK w \in PrefillOutcomes(r) :
             Apply(MarkDue(w, Requeued(lists, w, r).decoding)) /\ lists' = Requeued(lists, w, r)
    BY <1>5
  <2>2. PICK b : b = PrefillBudget(r)
    OBVIOUS
  <2>3. b \in Int
    <3>1. Prompt[r] \in Nat /\ req[r].pos \in Nat
      BY <1>1, PlacedFacts, SchedulerAssumption DEF Requests, Records
    <3>. QED
      BY <2>2, <3>1 DEF PrefillBudget
  <2>4. Handled(World, w, r)
    BY <1>1, <2>1, <2>2, <2>3, PrefillOutcomeHandled
  <2>. QED
    BY <1>2, <2>1, <2>4
<1>. QED
  BY <1>3, <1>4, <1>5 DEF StepPrefill

\* Only what ended matters for the places.
LEMMA ReplacedSame ==
  ASSUME NEW f, NEW g, NEW Q, NEW l, NEW B, NEW R, NEW k, NEW C,
         Replaced(f, Q, l, B, R, k, C),
         \A r \in Q \cup Members(l) \cup B : g[r].out = f[r].out
  PROVE  Replaced(g, Q, l, B, R, k, C)
BY DEF Replaced

\* StepPrefill changes its request, makes every decoder due and loses none.
LEMMA StepPrefillIs ==
  ASSUME Placed, StepPrefill
  PROVE  /\ World' \in Worlds /\ lists' \in ListType
         /\ Fated(req, req', QueuedIn(clients) \cup Members(lists) \cup ToSet(work.batch), lost')
         /\ Replaced(req', QueuedIn(clients), lists, ToSet(work.batch),
                     QueuedIn(clients), lists', {})
         /\ \A r \in ToSet(lists.decoding) : r \in ToSet(lists'.decoding) /\ Level(req[r], req'[r])
         /\ \A r \in ToSet(lists'.decoding) : req'[r].due
<1>1. PICK r : r = Head(work.batch)
  OBVIOUS
<1>2. /\ r \in Req /\ req[r].out = "none" /\ ToSet(work.batch) = {r}
      /\ r \notin Members(lists)
  BY <1>1, LoneIs DEF StepPrefill
<1>3. PICK v, l : Chunked(r, v, l)
  BY <1>1, StepPrefillSplit
<1>4. PICK D, w : D = l.decoding /\ w = MarkDue(v, D)
  OBVIOUS
<1>5. v \in Worlds /\ Handled(World, v, r) /\ lists' = l /\ l = Requeued(lists, v, r)
  BY <1>3 DEF Chunked, Handled
<1>6. /\ w \in Worlds /\ w.lost = v.lost
      /\ \A x \in Req :
           /\ Level(v.req[x], w.req[x]) /\ w.req[x].lease = v.req[x].lease
           /\ w.req[x].due <=> v.req[x].due \/ x \in ToSet(D)
           /\ x \notin ToSet(D) => w.req[x] = v.req[x]
  BY <1>4, <1>5, DueMarkedIs
<1>7. World' = w /\ req' = w.req /\ lost' = w.lost
  <2>1. Apply(w)
    BY <1>3, <1>4 DEF Chunked
  <2>. QED
    BY <1>6, <2>1, ApplyIs
<1>8. /\ World.req = req /\ lists \in ListType /\ Apart(lists)
      /\ Placement(req, QueuedIn(clients), lists, {r}) /\ Seating(req)
      /\ Members(lists) \subseteq Req
  BY <1>2, PlacedFacts, ListFacts
<1>9. Fated(req, v.req, {r}, lost') /\ Beside(req, v.req, r)
  <2>1. PICK S : S = {r}
    BY ZenonT(30)
  <2>2. Fated(World.req, v.req, S, v.lost) /\ Beside(World.req, v.req, r)
    BY <1>2, <1>5, <2>1, HandledFated
  <2>. QED
    BY <1>6, <1>7, <1>8, <2>1, <2>2
<1>10. /\ l \in ListType /\ Apart(l)
       /\ Members(l) = IF v.req[r].out = "none" THEN Members(lists) \cup {r} ELSE Members(lists)
       /\ ToSet(lists.decoding) \subseteq ToSet(l.decoding)
  <2>1. IF v.req[r].out = "none" THEN Gains(lists, l, r) ELSE l = lists
    BY <1>2, <1>5, <1>8, RequeuedIs
  <2>. QED
    BY <1>8, <2>1 DEF Gains
<1>11. ToSet(D) \subseteq Members(lists) \cup {r} /\ ToSet(D) \subseteq Req
  BY <1>2, <1>4, <1>8, <1>10 DEF Members
<1>12. ASSUME NEW x \in Req
       PROVE  Fate(x, req[x], req'[x], lost')
  <2>1. Fate(x, req[x], v.req[x], lost')
    BY <1>9 DEF Fated
  <2>2. Fate(x, v.req[x], req'[x], lost')
    BY <1>6, <1>7, FateLevel
  <2>. QED
    BY <2>1, <2>2, FateTrans
<1>13. Fated(req, req', QueuedIn(clients) \cup Members(lists) \cup ToSet(work.batch), lost')
  <2>1. ASSUME NEW x \in Req \ (QueuedIn(clients) \cup Members(lists) \cup ToSet(work.batch))
        PROVE  req'[x] = req[x]
    <3>1. x # r /\ x \notin ToSet(D)
      BY <1>2, <1>11, <2>1
    <3>. QED
      BY <1>6, <1>7, <1>9, <3>1 DEF Beside
  <2>. QED
    BY <1>12, <2>1 DEF Fated
<1>14. Replaced(v.req, QueuedIn(clients), lists, {r}, QueuedIn(clients), l, {})
  BY <1>2, <1>8, <1>9, <1>10, LoneReplaced
<1>15. Replaced(req', QueuedIn(clients), lists, {r}, QueuedIn(clients), l, {})
  <2>1. \A x \in QueuedIn(clients) \cup Members(lists) \cup {r} : req'[x].out = v.req[x].out
    BY <1>2, <1>6, <1>7, <1>8 DEF Placement, Level
  <2>. QED
    BY <1>14, <2>1, ReplacedSame
<1>16. \A x \in ToSet(lists.decoding) : x \in ToSet(l.decoding) /\ Level(req[x], req'[x])
  BY <1>2, <1>6, <1>7, <1>8, <1>9, <1>10 DEF Beside, Members
<1>17. \A x \in ToSet(l.decoding) : req'[x].due
  BY <1>4, <1>6, <1>7, <1>11
<1>18. World' \in Worlds
  BY <1>6, <1>7
<1>. QED
  BY <1>2, <1>5, <1>10, <1>13, <1>15, <1>16, <1>17, <1>18

\* Nor what a chunk was bounded by.
Emptied(b) == [b EXCEPT !.pc = "top", !.batch = <<>>, !.decoding = FALSE, !.peer = FALSE]

\* The worker between two units.
LEMMA EmptiedIs ==
  ASSUME NEW b \in Works
  PROVE  Emptied(b) \in Works /\ Emptied(b).pc = "top" /\ Emptied(b).batch = <<>>
<1>1. <<>> \in Seq(Req)
  OBVIOUS
<1>2. PICK s \in Seq(Req) : s = <<>>
  BY <1>1, ZenonT(30)
<1>3. PICK a : a = Emptied(b)
  OBVIOUS
<1>4. a = [b EXCEPT !.pc = "top", !.batch = s, !.decoding = FALSE, !.peer = FALSE]
  BY <1>2, <1>3 DEF Emptied
<1>5. a \in Works
  BY <1>4, ZenonT(30) DEF Works, Counters
<1>6. a.pc = "top" /\ a.batch = s
  BY <1>4, WorkFacts DEF Works
<1>. QED
  BY <1>2, <1>3, <1>5, <1>6

\* The counters of chunks.
LEMMA StepPrefillCounts ==
  ASSUME Placed, StepPrefill
  PROVE  streak' \in Nat /\ skipped' \in [Req -> Nat]
<1>1. streak \in Nat /\ skipped \in [Req -> Nat]
  BY DEF Placed
<1>2. streak' = streak \/ streak' = 0 \/ streak' = Min({streak + 1, 2})
  BY DEF StepPrefill
<1>3. streak' \in Nat
  <2>1. PICK a \in Nat : a = streak + 1
    BY <1>1
  <2>2. Min({a, 2}) \in {a, 2}
    BY MinTwo
  <2>. QED
    BY <1>1, <1>2, <2>1, <2>2
<1>4. \/ skipped' = skipped
      \/ skipped' = [x \in Req |-> IF x \in ToSet(lists.decoding)
                                  THEN Min({skipped[x] + 1, 3}) ELSE skipped[x]]
  BY DEF StepPrefill
<1>5. ASSUME NEW x \in Req
      PROVE  Min({skipped[x] + 1, 3}) \in Nat
  <2>1. PICK a \in Int, b \in Int : a = skipped[x] + 1 /\ b = 3 /\ a \in Nat
    BY <1>1
  <2>2. Min({a, b}) \in {a, b}
    BY MinTwo
  <2>. QED
    BY <2>1, <2>2
<1>. QED
  BY <1>1, <1>3, <1>4, <1>5, ZenonT(30)

\* StepPrefill keeps the placement.
LEMMA StepPrefillPlaced ==
  ASSUME Placed, StepPrefill
  PROVE  Placed'
<1>1. /\ World' \in Worlds /\ lists' \in ListType
      /\ Fated(req, req', QueuedIn(clients) \cup Members(lists) \cup ToSet(work.batch), lost')
      /\ Replaced(req', QueuedIn(clients), lists, ToSet(work.batch),
                  QueuedIn(clients), lists', {})
  BY StepPrefillIs
<1>2. work' = Emptied(work) /\ UNCHANGED <<mode, eos, stopping>> /\ UNCHANGED clients
  BY DEF StepPrefill, Emptied, ListFrame
<1>3. work' \in Works /\ work'.pc = "top" /\ work'.batch = <<>>
  BY <1>2, PlacedFacts, EmptiedIs
<1>4. Batching(work', req', lost')
  BY <1>3, BatchingNone DEF Between
<1>5. Draining(work', stopping, lost', clients', lists')
  BY <1>3 DEF Draining
<1>7. Replaced(req', QueuedIn(clients), lists, ToSet(work.batch),
               QueuedIn(clients'), lists', ToSet(work'.batch))
  BY <1>1, <1>2, <1>3, ShortMembers, ZenonT(30)
<1>8. streak' \in Nat /\ skipped' \in [Req -> Nat] /\ Lined(clients')
  BY <1>2, StepPrefillCounts DEF Placed
<1>. QED
  BY <1>1, <1>2, <1>3, <1>4, <1>5, <1>7, <1>8, WorkerPlaced, ZenonT(30)

(***************************************************************************)
(* Batches                                                                 *)
(***************************************************************************)

\* The device being in the state m before and k after, the lease of a live
\* request is not returned once a probe showed the device dead.
Spared(q, p, k, m) ==
  (k = "probe" /\ q.lease = "held" /\ p.lease = "returned") => m = "no" /\ (q.cancel \/ q.expired)

\* What a step for the requests of S does to all of them.
Treated(f, g, S, k, m) ==
  /\ \A r \in Req : Keeps(f[r], g[r]) /\ Spared(f[r], g[r], k, m)
  /\ \A r \in Req \ S : g[r] = f[r]

\* A request may be left alone.
LEMMA KeepsSelf ==
  ASSUME NEW q, NEW k, NEW m
  PROVE  Keeps(q, q) /\ Spared(q, q, k, m)
BY DEF Keeps, Spared

\* A unit of work may treat its requests so.
LEMMA FatedTreated ==
  ASSUME NEW f, NEW g, NEW S, NEW k, Fated(f, g, S, k), NEW m
  PROVE  Treated(f, g, S, k, m)
<1>1. ASSUME NEW r \in Req PROVE Keeps(f[r], g[r]) /\ Spared(f[r], g[r], k, m)
  <2>1. Fate(r, f[r], g[r], k)
    BY DEF Fated
  <2>2. Keeps(f[r], g[r])
    BY <2>1, FateFacts
  <2>3. Spared(f[r], g[r], k, m)
    BY <2>1 DEF Spared, Fate, Ending
  <2>. QED
    BY <2>2, <2>3
<1>. QED
  BY <1>1 DEF Treated, Fated

\* Requests returned from a batch keep the placement.
LEMMA TreatedMoved ==
  ASSUME NEW f, NEW Q, NEW l, NEW B, Placement(f, Q, l, B),
         NEW g, NEW k, NEW m, Treated(f, g, B, k, m),
         NEW d, NEW C, Replaced(g, Q, l, B, Q, d, C)
  PROVE  Moved(f, Q, l, B, g, Q, d, C)
<1>1. \A r \in Req : Keeps(f[r], g[r])
  BY DEF Treated
<1>2. \A r \in Req : f[r].handle = "none" => g[r] = f[r]
  BY DEF Placement, Treated
<1>. QED
  BY <1>1, <1>2 DEF Moved, Replaced

\* A step of the worker for its batch.
LEMMA BatchPlaced ==
  ASSUME Placed, ListFrame, UNCHANGED <<clients, streak, skipped>>,
         World' \in Worlds, lists' \in ListType, work' \in Works,
         Batching(work', req', lost'), NEW k, NEW m,
         Treated(req, req', ToSet(work.batch), k, m),
         Replaced(req', QueuedIn(clients), lists, ToSet(work.batch),
                  QueuedIn(clients), lists', ToSet(work'.batch)),
         work'.pc \notin {"drain", "done"}
  PROVE  Placed'
<1>1. /\ Placement(req, QueuedIn(clients), lists, ToSet(work.batch)) /\ Seating(req)
      /\ mode \in Modes
  BY PlacedFacts
<1>2. Moved(req, QueuedIn(clients), lists, ToSet(work.batch),
            req', QueuedIn(clients), lists', ToSet(work'.batch))
  BY <1>1, TreatedMoved
<1>3. Placement(req', QueuedIn(clients), lists', ToSet(work'.batch)) /\ Seating(req')
  BY <1>1, <1>2, PlacesMoved
<1>4. Seating(req)'
  BY <1>3 DEF Seating, ListFrame
<1>5. Draining(work', stopping', lost', clients', lists')
  BY DEF Draining
<1>. QED
  BY <1>3, <1>4, <1>5 DEF Placed, ListFrame

\* The batch goes on where it is.
LEMMA StillReplaced ==
  ASSUME NEW f, NEW Q, NEW l, NEW B, Placement(f, Q, l, B),
         NEW g, NEW k, NEW m, Treated(f, g, B, k, m)
  PROVE  Replaced(g, Q, l, B, Q, l, B)
BY DEF Placement, Treated, Replaced

\* The live requests of the batch go back to the lists.
LEMMA RefilledReplaced ==
  ASSUME NEW f, NEW Q, NEW l, NEW B, Placement(f, Q, l, B),
         NEW w, NEW k, NEW m, Treated(f, w.req, B, k, m), NEW d, Refilled(l, d, w, B)
  PROVE  Replaced(w.req, Q, l, B, Q, d, {})
<1>1. \A r \in Q \cup Members(l) : w.req[r].out = "none"
  BY DEF Placement, Treated
<1>2. /\ Members(d) = Members(l) \cup {r \in B : w.req[r].out = "none"} /\ Apart(d)
  BY DEF Refilled
<1>. QED
  BY <1>1, <1>2 DEF Replaced

(***************************************************************************)
(* The phases of a request in the worker's batch                           *)
(***************************************************************************)

\* At any time.
Whole(r, q) ==
  /\ Stream(r, q) /\ q.out # "misuse"
  /\ q.out # "none" => Over(q)

\* Prepared for a single-token step, to be stepped with others by tokens, or
\* stepped and not published yet.
Readied(b, r) == b.pc = "prepare" /\ ~b.multi /\ r \in ToSet(b.ready)

\* The request is in a multi-token batch being prepared.
Joined(b, r) == b.pc = "prepare" /\ b.multi /\ r \in ToSet(b.batch)

\* The request's lane is still to be published.
Stepped(b, r) == b.pc \in {"publish", "terminated"} /\ r \in ToSet(b.todo)

\* The output of a request in each phase of its unit.
Phase(r, q, b) ==
  /\ Whole(r, q)
  /\ q.out = "none" =>
       /\ Stepped(b, r) => Lane(r, q, b.step[r])
       /\ Readied(b, r) => Chosen(r, q)
       /\ ~Stepped(b, r) /\ ~Readied(b, r) => Calm(r, q)
       /\ Joined(b, r) => ~q.selected

\* So for every request; a batch of one need not be batched.
Phases(f, b) ==
  /\ b.pc = "prepare" /\ ~b.multi => ~mode.batched
  /\ \A r \in Req : Phase(r, f[r], b)

\* Between two work units.
Settled(r, q) == Whole(r, q) /\ (q.out = "none" => Calm(r, q))

\* Outside a batch the output is settled.
LEMMA SettledPhase ==
  ASSUME NEW r, NEW q, NEW b, ~Stepped(b, r), ~Readied(b, r), ~Joined(b, r)
  PROVE  Phase(r, q, b) <=> Settled(r, q)
BY DEF Phase, Settled

\* Requests that are not of the batch are settled, and all of them where there
\* is none.
LEMMA OutsideBatch ==
  ASSUME NEW b, NEW f, NEW l, Batching(b, f, l), NEW r,
         r \notin ToSet(b.batch) \/ b.pc \notin {"prepare", "publish", "terminated"}
  PROVE  ~Stepped(b, r) /\ ~Readied(b, r) /\ ~Joined(b, r)
BY DEF Batching, Stepped, Readied, Joined

\* An ended request's output fits every phase.
LEMMA EndedWhole ==
  ASSUME NEW r, NEW q, NEW p, NEW k, Ending(q, p, k), Stream(r, p)
  PROVE  Whole(r, p) /\ Settled(r, p) /\ \A b : Phase(r, p, b)
BY DEF Ending, Whole, Settled, Phase

\* The phases after a step.
LEMMA PhasesPrimed ==
  ASSUME mode' = mode, Phases(req', work')
  PROVE  Phases(req, work)'
<1>1. ASSUME NEW r \in Req PROVE Phase(r, req[r], work)'
  <2>1. Phase(r, req'[r], work')
    BY DEF Phases
  <2>2. Calm(r, req'[r]) => Calm(r, req[r])'
    BY DEF Calm
  <2>. QED
    BY <2>1, <2>2 DEF Phase
<1>. QED
  BY <1>1 DEF Phases

(***************************************************************************)
(* PrepareRequest                                                          *)
(***************************************************************************)

\* The head of the requests to prepare is done.
Prepared1(b, t, y) == [b EXCEPT !.todo = t, !.ready = y]

\* One request prepared.
LEMMA Prepared1Is ==
  ASSUME NEW b \in Works, NEW t \in Seq(Req), NEW y \in Seq(Req), NEW a, a = Prepared1(b, t, y)
  PROVE  /\ a \in Works /\ a.pc = b.pc /\ a.batch = b.batch /\ a.multi = b.multi
         /\ a.todo = t /\ a.ready = y
BY ZenonT(30) DEF Works, Prepared1

\* Of a batch being prepared, the next request is live and not prepared yet.
LEMMA NextToPrepare ==
  ASSUME NEW b \in Works, NEW f, NEW l, Batching(b, f, l), b.pc = "prepare", b.todo # <<>>,
         NEW r, r = Head(b.todo)
  PROVE  /\ r \in Req /\ f[r].out = "none" /\ r \in ToSet(b.batch) /\ r \notin ToSet(b.ready)
         /\ Tail(b.todo) \in Seq(Req) /\ r \notin ToSet(Tail(b.todo))
         /\ ToSet(b.todo) = {r} \cup ToSet(Tail(b.todo)) /\ Distinct(Tail(b.todo))
         /\ Len(b.batch) = 1 => b.ready = <<>>
<1>1. /\ b.todo \in Seq(Req) /\ b.ready \in Seq(Req) /\ b.batch \in Seq(Req)
  BY WorkFacts
<1>2. /\ Distinct(b.todo) /\ ToSet(b.todo) \cup ToSet(b.ready) \subseteq ToSet(b.batch)
      /\ ToSet(b.todo) \cap ToSet(b.ready) = {} /\ \A x \in ToSet(b.todo) : f[x].out = "none"
  BY DEF Batching
<1>3. /\ r \in Req /\ Tail(b.todo) \in Seq(Req)
      /\ ToSet(b.todo) = {r} \cup ToSet(Tail(b.todo))
      /\ Distinct(Tail(b.todo)) /\ r \notin ToSet(Tail(b.todo))
  BY <1>1, <1>2, HeadTailMembers
<1>4. ASSUME Len(b.batch) = 1 PROVE b.ready = <<>>
  <2>1. b.batch # <<>>
    BY <1>3, <1>2, ShortMembers
  <2>2. ToSet(b.batch) = {Head(b.batch)} \cup ToSet(Tail(b.batch)) /\ Tail(b.batch) = <<>>
    BY <1>1, <1>4, <2>1, HeadTailMembers
  <2>3. ToSet(b.batch) = {r}
    BY <1>2, <1>3, <2>2, ShortMembers, ZenonT(30)
  <2>4. ToSet(b.ready) = {}
    BY <1>2, <1>3, <2>3
  <2>. QED
    BY <1>1, <2>4, EmptyMembers
<1>. QED
  BY <1>2, <1>3, <1>4

\* What becomes of a batch and of its next request.
Prepares(b, f, c, g, r, ok, k) ==
  /\ c.pc = "prepare" /\ c.batch = b.batch /\ c.multi = b.multi
  /\ c.todo = Tail(b.todo) /\ c.ready = IF ok THEN Append(b.ready, r) ELSE b.ready
  /\ Beside(f, g, r) /\ (ok => g[r].out = "none" /\ k = "no")

\* The prepared request joins the ready ones, or does not.
Readies(b, c, r, ok) == ToSet(c.ready) = ToSet(b.ready) \cup (IF ok THEN {r} ELSE {})

\* The batch after one request is prepared.
LEMMA PreparesBatching ==
  ASSUME NEW b \in Works, NEW f, NEW l, Batching(b, f, l), b.pc = "prepare", b.todo # <<>>,
         NEW r, r = Head(b.todo), NEW c \in Works, NEW g, NEW ok \in BOOLEAN,
         NEW k, Prepares(b, f, c, g, r, ok, k)
  PROVE  Batching(c, g, k) /\ Readies(b, c, r, ok)
<1>1. /\ r \in Req /\ f[r].out = "none" /\ r \in ToSet(b.batch) /\ r \notin ToSet(b.ready)
      /\ Tail(b.todo) \in Seq(Req) /\ r \notin ToSet(Tail(b.todo))
      /\ ToSet(b.todo) = {r} \cup ToSet(Tail(b.todo)) /\ Distinct(Tail(b.todo))
      /\ Len(b.batch) = 1 => b.ready = <<>>
  BY NextToPrepare
<1>2. /\ b.ready \in Seq(Req) /\ Distinct(b.ready) /\ Distinct(b.batch)
      /\ ToSet(b.todo) \cup ToSet(b.ready) \subseteq ToSet(b.batch)
      /\ ToSet(b.todo) \cap ToSet(b.ready) = {}
      /\ \A x \in ToSet(b.todo) : f[x].out = "none"
      /\ \A x \in ToSet(b.ready) : f[x].out = "none"
  BY WorkFacts DEF Batching
<1>3. PICK t : t = Append(b.ready, r)
  BY ZenonT(30)
<1>4. ToSet(t) = ToSet(b.ready) \cup {r} /\ Distinct(t)
  BY <1>1, <1>2, <1>3, AppendMembers
<1>5. /\ ToSet(c.ready) = ToSet(b.ready) \cup (IF ok THEN {r} ELSE {}) /\ Distinct(c.ready)
      /\ c.pc = "prepare" /\ c.batch = b.batch /\ c.todo = Tail(b.todo)
      /\ ~ok => c.ready = b.ready
  BY <1>2, <1>3, <1>4 DEF Prepares
<1>6. \A x \in ToSet(c.ready) \cup ToSet(c.todo) : g[x].out = "none"
  <2>1. ASSUME NEW x \in ToSet(c.ready) \cup ToSet(c.todo) PROVE g[x].out = "none"
    <3>1. CASE x = r
      BY <1>1, <1>5, <3>1 DEF Prepares
    <3>2. CASE x # r
      <4>1. x \in ToSet(b.ready) \cup ToSet(b.todo)
        BY <1>1, <1>5, <2>1, <3>2
      <4>2. x \in Req
        BY <4>1, WorkFacts
      <4>. QED
        BY <1>2, <3>2, <4>1, <4>2 DEF Prepares, Beside
    <3>. QED
      BY <3>1, <3>2
  <2>. QED
    BY <2>1
<1>7. Len(c.batch) = 1 /\ c.ready # <<>> => k # "probe"
  BY <1>1, <1>5 DEF Prepares
<1>8. /\ ToSet(c.todo) \cup ToSet(c.ready) \subseteq ToSet(c.batch)
      /\ ToSet(c.todo) \cap ToSet(c.ready) = {}
  BY <1>1, <1>2, <1>5
<1>9. Readies(b, c, r, ok)
  BY <1>5 DEF Readies
<1>. QED
  BY <1>1, <1>2, <1>5, <1>6, <1>7, <1>8, <1>9 DEF Batching, Between

\* The call prepares the request for its step, or leaves it as it was.
ReadyFor(r, q, multi, ok) ==
  q.out = "none" => IF multi THEN Rested(r, q) ELSE IF ok THEN Chosen(r, q) ELSE Calm(r, q)

\* The outputs after one request is prepared.
LEMMA PreparesPhases ==
  ASSUME NEW b \in Works, NEW f, NEW l, Batching(b, f, l), b.pc = "prepare", b.todo # <<>>,
         NEW r, r = Head(b.todo), NEW c \in Works, NEW g, NEW ok \in BOOLEAN,
         NEW k, Prepares(b, f, c, g, r, ok, k), Phases(f, b), Whole(r, g[r]),
         ReadyFor(r, g[r], b.multi, ok)
  PROVE  Phases(g, c)
<1>1. /\ r \in Req /\ r \in ToSet(b.batch) /\ r \notin ToSet(b.ready)
  BY NextToPrepare
<1>2. ToSet(c.ready) = ToSet(b.ready) \cup (IF ok THEN {r} ELSE {})
  <2>1. Readies(b, c, r, ok)
    BY PreparesBatching, ZenonT(30)
  <2>. QED
    BY <2>1 DEF Readies
<1>3. c.pc = "prepare" /\ c.batch = b.batch /\ c.multi = b.multi
  BY DEF Prepares
<1>4. ASSUME NEW x \in Req \ {r} PROVE Phase(x, g[x], c)
  <2>1. Phase(x, f[x], b) /\ g[x] = f[x]
    BY <1>4 DEF Phases, Prepares, Beside
  <2>2. (Readied(b, x) <=> Readied(c, x)) /\ (Joined(b, x) <=> Joined(c, x))
    BY <1>2, <1>3, <1>4 DEF Readied, Joined
  <2>3. ~Stepped(b, x) /\ ~Stepped(c, x)
    BY <1>3 DEF Stepped
  <2>. QED
    BY <2>1, <2>2, <2>3 DEF Phase
<1>5. Phase(r, g[r], c)
  <2>1. ~Stepped(c, r) /\ (Joined(c, r) <=> b.multi) /\ (Readied(c, r) <=> ~b.multi /\ ok)
    BY <1>1, <1>2, <1>3 DEF Stepped, Joined, Readied
  <2>. QED
    BY <2>1 DEF Phase, Rested, ReadyFor
<1>. QED
  BY <1>3, <1>4, <1>5 DEF Phases

\* A call that served r, in terms of the batch.
LEMMA RanTreated ==
  ASSUME NEW w, NEW r \in Req, NEW s, Ran(w, r, s), s.w.req[r].out # "misuse",
         NEW S, r \in S
  PROVE  /\ s.w \in Worlds /\ Treated(w.req, s.w.req, S, s.w.lost, w.lost)
         /\ Beside(w.req, s.w.req, r)
         /\ Stream(r, s.w.req[r]) => Whole(r, s.w.req[r])
<1>1. Keeps(w.req[r], s.w.req[r])
  BY DEF Ran
<1>2. Spared(w.req[r], s.w.req[r], s.w.lost, w.lost)
  BY DEF Spared, Ran, Ending
<1>3. \A x \in Req \ {r} : s.w.req[x] = w.req[x]
  BY DEF Ran, Serves
<1>4. \A x \in Req : Keeps(w.req[x], s.w.req[x]) /\ Spared(w.req[x], s.w.req[x], s.w.lost, w.lost)
  BY <1>1, <1>2, <1>3, KeepsSelf
<1>5. Stream(r, s.w.req[r]) => Whole(r, s.w.req[r])
  BY DEF Ran, Whole, Ending
<1>. QED
  BY <1>3, <1>4, <1>5 DEF Treated, Beside, Ran, Serves

\* The call that prepares a request.
Calls(w, r, s) == s \in (IF work.multi THEN PrepareMultiToken(w, r) ELSE PrepareDecode(w, r))

\* PrepareRequest prepares the first request that is left.
LEMMA PrepareRequestSplit ==
  ASSUME PrepareRequest, NEW r, r = Head(work.todo)
  PROVE  \E s : /\ Calls(World, r, s) /\ Apply(s.w)
                /\ work' = Prepared1(work, Tail(work.todo),
                                     IF s.ok THEN Append(work.ready, r) ELSE work.ready)
BY ZenonT(30) DEF PrepareRequest, Prepared1, Calls

\* It leaves the request ready for its step, settled or ended.
LEMMA CallsIs ==
  ASSUME Placed, Phases(req, work), work.pc = "prepare", work.todo # <<>>,
         NEW r, r = Head(work.todo), NEW s, Calls(World, r, s)
  PROVE  /\ Ran(World, r, s) /\ Whole(r, s.w.req[r])
         /\ ReadyFor(r, s.w.req[r], work.multi, s.ok)
<1>1. /\ World \in Worlds /\ World.req = req /\ mode \in Modes /\ eos \in EosChoices
      /\ work \in Works /\ Batching(work, req, lost)
  BY PlacedFacts
<1>2. /\ r \in Req /\ World.req[r].out = "none" /\ r \in ToSet(work.batch)
      /\ r \notin ToSet(work.ready)
  BY <1>1, NextToPrepare
<1>3. Phase(r, World.req[r], work)
  BY <1>1, <1>2 DEF Phases
<1>4. Stream(r, World.req[r]) /\ Calm(r, World.req[r])
  BY <1>2, <1>3 DEF Phase, Whole, Stepped, Readied
<1>5. CASE work.multi
  <2>1. s \in PrepareMultiToken(World, r)
    BY <1>5 DEF Calls
  <2>2. Rested(r, World.req[r])
    BY <1>2, <1>3, <1>4, <1>5 DEF Phase, Joined, Rested
  <2>3. /\ Ran(World, r, s) /\ s.w.req[r].out # "misuse"
        /\ Rested(r, World.req[r]) =>
              /\ Stream(r, s.w.req[r])
              /\ s.w.req[r].out = "none" => Rested(r, s.w.req[r])
    BY <1>1, <1>2, <2>1, PrepareMultiTokenIs
  <2>4. Stream(r, s.w.req[r]) => Whole(r, s.w.req[r])
    BY <2>3 DEF Ran, Whole, Ending
  <2>. QED
    BY <1>5, <2>2, <2>3, <2>4 DEF ReadyFor
<1>6. CASE ~work.multi
  <2>1. s \in PrepareDecode(World, r)
    BY <1>6 DEF Calls
  <2>2. ~mode.batched
    BY <1>6 DEF Phases
  <2>3. /\ Ran(World, r, s)
        /\ Stream(r, World.req[r]) /\ Calm(r, World.req[r]) /\ ~mode.batched =>
              /\ Stream(r, s.w.req[r]) /\ s.w.req[r].out # "misuse"
              /\ s.w.req[r].out = "none" =>
                   IF s.ok THEN Chosen(r, s.w.req[r]) ELSE Calm(r, s.w.req[r])
    BY <1>1, <1>2, <2>1, PrepareDecodeIs
  <2>4. Stream(r, s.w.req[r]) /\ s.w.req[r].out # "misuse" => Whole(r, s.w.req[r])
    BY <2>3 DEF Ran, Whole, Ending
  <2>. QED
    BY <1>4, <1>6, <2>2, <2>3, <2>4 DEF ReadyFor
<1>. QED
  BY <1>5, <1>6

\* What a step of the worker for its batch establishes.
Safe ==
  /\ Placed' /\ Phases(req', work') /\ Treated(req, req', ToSet(work.batch), lost', lost)
  /\ ToSet(lists.decoding) \subseteq ToSet(lists'.decoding)
  /\ work'.pc \notin {"prefill", "done"}

\* PrepareRequest keeps the placement and the phases.
LEMMA PrepareRequestSafe ==
  ASSUME Placed, Phases(req, work), PrepareRequest
  PROVE  Safe
<1>1. PICK r : r = Head(work.todo)
  OBVIOUS
<1>2. PICK s : /\ Calls(World, r, s) /\ Apply(s.w)
               /\ work' = Prepared1(work, Tail(work.todo),
                                     IF s.ok THEN Append(work.ready, r) ELSE work.ready)
  BY <1>1, PrepareRequestSplit
<1>3. work.pc = "prepare" /\ work.todo # <<>>
  BY DEF PrepareRequest
<1>4. /\ World \in Worlds /\ World.req = req /\ World.lost = lost
      /\ work \in Works /\ Batching(work, req, lost) /\ lists \in ListType
      /\ Placement(req, QueuedIn(clients), lists, ToSet(work.batch))
  BY PlacedFacts
<1>5. /\ r \in Req /\ req[r].out = "none" /\ r \in ToSet(work.batch)
      /\ Tail(work.todo) \in Seq(Req) /\ work.ready \in Seq(Req)
  BY <1>1, <1>3, <1>4, NextToPrepare, WorkFacts
<1>6. /\ Ran(World, r, s) /\ Whole(r, s.w.req[r])
      /\ ReadyFor(r, s.w.req[r], work.multi, s.ok)
  BY <1>1, <1>2, <1>3, CallsIs
<1>7. PICK S : S = ToSet(work.batch)
  OBVIOUS
<1>8. /\ s.w \in Worlds /\ Treated(World.req, s.w.req, S, s.w.lost, World.lost)
      /\ Beside(World.req, s.w.req, r)
      /\ Stream(r, s.w.req[r]) => Whole(r, s.w.req[r])
  <2>1. s.w.req[r].out # "misuse" /\ r \in S
    BY <1>5, <1>6, <1>7 DEF Whole
  <2>. QED
    BY <1>5, <1>6, <2>1, RanTreated
<1>9. World' = s.w /\ req' = s.w.req /\ lost' = s.w.lost
  BY <1>2, <1>8, ApplyIs
<1>10. PICK y, t : y = (IF s.ok THEN Append(work.ready, r) ELSE work.ready) /\ t = Tail(work.todo)
  BY ZenonT(30)
<1>11. y \in Seq(Req) /\ t \in Seq(Req)
  BY <1>5, <1>10
<1>12. /\ work' \in Works /\ work'.pc = work.pc /\ work'.batch = work.batch
       /\ work'.multi = work.multi /\ work'.todo = t /\ work'.ready = y
  <2>1. work' = Prepared1(work, t, y)
    BY <1>2, <1>10
  <2>. QED
    BY <1>4, <1>11, <2>1, Prepared1Is
<1>13. PICK ok \in BOOLEAN : ok = s.ok
  BY <1>6 DEF Ran
<1>14. Prepares(work, req, work', req', r, ok, lost')
  <2>1. ok => req'[r].out = "none" /\ lost' = "no"
    BY <1>6, <1>9, <1>13 DEF Ran
  <2>2. Beside(req, req', r)
    BY <1>4, <1>8, <1>9
  <2>. QED
    BY <1>3, <1>10, <1>12, <1>13, <2>1, <2>2 DEF Prepares
<1>15. Batching(work', req', lost')
  BY <1>1, <1>3, <1>4, <1>12, <1>13, <1>14, PreparesBatching
<1>16. Phases(req', work')
  <2>1. Whole(r, req'[r])
    BY <1>6, <1>9
  <2>2. ReadyFor(r, req'[r], work.multi, ok)
    BY <1>6, <1>9, <1>13
  <2>. QED
    BY <1>1, <1>3, <1>4, <1>12, <1>13, <1>14, <2>1, <2>2, PreparesPhases, ZenonT(30)
<1>17. Treated(req, req', ToSet(work.batch), lost', lost)
  BY <1>4, <1>7, <1>8, <1>9
<1>18. Replaced(req', QueuedIn(clients), lists, ToSet(work.batch),
                QueuedIn(clients), lists, ToSet(work.batch))
  BY <1>4, <1>17, StillReplaced
<1>19. Placed'
  <2>1. /\ ListFrame /\ UNCHANGED <<clients, streak, skipped>> /\ lists' = lists
    BY DEF PrepareRequest
  <2>2. work'.pc \notin {"drain", "done"} /\ work'.batch = work.batch /\ work' \in Works
    BY <1>3, <1>12
  <2>3. World' \in Worlds /\ lists' \in ListType
    BY <1>4, <1>8, <1>9, <2>1
  <2>4. Replaced(req', QueuedIn(clients), lists, ToSet(work.batch),
                 QueuedIn(clients), lists', ToSet(work'.batch))
    BY <1>18, <2>1, <2>2
  <2>. QED
    BY <1>15, <1>17, <2>1, <2>2, <2>3, <2>4, BatchPlaced
<1>20. ToSet(lists.decoding) \subseteq ToSet(lists'.decoding)
  BY DEF PrepareRequest
<1>21. work'.pc \notin {"prefill", "done"}
  BY <1>3, <1>12
<1>. QED
  BY <1>16, <1>17, <1>19, <1>20, <1>21 DEF Safe

(***************************************************************************)
(* FinishBatch                                                             *)
(***************************************************************************)

\* The world w after what the batch ended with: every request of it is settled.
Ends(w) ==
  /\ w \in Worlds /\ Treated(req, w.req, ToSet(work.batch), w.lost, lost)
  /\ \A r \in ToSet(work.batch) : Settled(r, w.req[r])

\* The frame of the steps of a batch.
BatchFrame == ListFrame /\ UNCHANGED <<clients, streak, skipped>>

\* A batch whose outputs are settled may finish.
LEMMA FinishBatchSafe ==
  ASSUME Placed, Phases(req, work), BatchFrame, NEW w, Ends(w), FinishBatch(w)
  PROVE  Safe
<1>1. /\ lists \in ListType /\ Apart(lists) /\ work \in Works /\ Batching(work, req, lost)
      /\ Placement(req, QueuedIn(clients), lists, ToSet(work.batch))
  BY PlacedFacts
<1>2. Apply(w) /\ lists' = RequeuedAll(lists, w, work.batch) /\ work' = Idle
  BY DEF FinishBatch
<1>3. /\ w \in Worlds /\ Treated(req, w.req, ToSet(work.batch), w.lost, lost)
      /\ \A r \in ToSet(work.batch) : Settled(r, w.req[r])
  BY DEF Ends
<1>4. World' = w /\ req' = w.req /\ lost' = w.lost
  BY <1>2, <1>3, ApplyIs
<1>5. work.batch \in Seq(Req) /\ Distinct(work.batch)
  BY <1>1, WorkFacts DEF Batching
<1>6. Members(lists) \cap ToSet(work.batch) = {}
  BY <1>1 DEF Placement
<1>7. Refilled(lists, lists', w, ToSet(work.batch))
  BY <1>1, <1>2, <1>5, <1>6, RequeuedSeq
<1>8. /\ work' \in Works /\ work'.pc = "top" /\ ToSet(work'.batch) = {} /\ work'.batch = <<>>
  BY <1>2, IdleIs
<1>9. Replaced(w.req, QueuedIn(clients), lists, ToSet(work.batch),
               QueuedIn(clients), lists', {})
  BY <1>1, <1>3, <1>7, RefilledReplaced, ZenonT(30)
<1>10. Treated(req, req', ToSet(work.batch), lost', lost)
  BY <1>3, <1>4
<1>11. Placed'
  <2>1. ListFrame /\ UNCHANGED <<clients, streak, skipped>>
    BY DEF BatchFrame
  <2>2. World' \in Worlds /\ lists' \in ListType
    BY <1>3, <1>4, <1>7 DEF Refilled
  <2>3. Batching(work', req', lost')
    <3>1. work'.pc \in Between
      BY <1>8 DEF Between
    <3>. QED
      BY <1>8, <3>1, BatchingNone
  <2>4. Replaced(req', QueuedIn(clients), lists, ToSet(work.batch),
                 QueuedIn(clients), lists', ToSet(work'.batch))
    BY <1>4, <1>8, <1>9
  <2>5. work'.pc \notin {"drain", "done"} /\ work' \in Works
    BY <1>8
  <2>. QED
    BY <1>10, <2>1, <2>2, <2>3, <2>4, <2>5, BatchPlaced
<1>12. Phases(req', work')
  <2>1. ASSUME NEW r \in Req PROVE Phase(r, req'[r], work')
    <3>1. Settled(r, req'[r])
      <4>1. CASE r \in ToSet(work.batch)
        BY <1>3, <1>4, <4>1
      <4>2. CASE r \notin ToSet(work.batch)
        <5>1. ~Stepped(work, r) /\ ~Readied(work, r) /\ ~Joined(work, r)
          BY <1>1, <4>2, OutsideBatch
        <5>2. Phase(r, req[r], work)
          BY DEF Phases
        <5>3. Settled(r, req[r])
          BY <5>1, <5>2, SettledPhase
        <5>. QED
          BY <1>10, <4>2, <5>3 DEF Treated
      <4>. QED
        BY <4>1, <4>2
    <3>2. ~Stepped(work', r) /\ ~Readied(work', r) /\ ~Joined(work', r)
      BY <1>8 DEF Stepped, Readied, Joined
    <3>. QED
      BY <3>1, <3>2, SettledPhase
  <2>. QED
    BY <1>8, <2>1 DEF Phases
<1>13. ToSet(lists.decoding) \subseteq ToSet(lists'.decoding)
  BY <1>7 DEF Refilled
<1>. QED
  BY <1>8, <1>10, <1>11, <1>12, <1>13 DEF Safe

(***************************************************************************)
(* ExecuteBatch                                                            *)
(***************************************************************************)

\* What the lanes of the batch returned.
Returns(d) ==
  /\ d \in [Ready -> UNION {LaneResults(r) : r \in Ready}]
  /\ \A r \in Ready : d[r] \in LaneResults(r)

\* The device after a call in which a lane failed.
Seen(d) == IF \E r \in Ready : d[r].kind = "lost" THEN ClassifyFailure(World, "lost") ELSE World

\* What the runner's states hold after the call.
Lanes(v, d) == [r \in Req |-> IF r \in Ready THEN LaneState(v.req[r], d[r]) ELSE v.req[r]]

\* The lanes are published one by one.
Publishes(b, s) == [b EXCEPT !.pc = "publish", !.todo = b.ready, !.step = s]

\* The results of the ready lanes.
StepsOf(d) == [r \in Req |-> IF r \in Ready THEN d[r] ELSE [kind |-> "none"]]

\* ExecuteBatch finishes, fails or goes on to publish.
LEMMA ExecuteBatchSplit ==
  ASSUME ExecuteBatch
  PROVE  \/ work.ready = <<>> /\ FinishBatch(World)
         \/ StoppedBeforeCall /\ FinishBatch(Asked(World, Ready))
         \/ /\ work.ready # <<>>
            /\ \E f \in (IF Misused THEN {"misuse"} ELSE Failures) : FinishBatch(ThrowAll(f))
         \/ /\ work.ready # <<>> /\ ~StoppedBeforeCall
            /\ \E d : /\ Returns(d)
                      /\ IF Len(work.ready) > 1 /\ Redone(Seen(d), Lanes(Seen(d), d)).lost # "no"
                         THEN FinishBatch(Asked(Redone(Seen(d), Lanes(Seen(d), d)), Ready))
                         ELSE /\ Apply(Redone(Seen(d), Lanes(Seen(d), d)))
                              /\ UNCHANGED lists
                              /\ work' = Publishes(work, StepsOf(d))
<1>1. CASE work.ready # <<>> /\ ~StoppedBeforeCall /\ ~Misused
           /\ \E d \in [Ready -> UNION {LaneResults(r) : r \in Ready}] :
             /\ \A r \in Ready : d[r] \in LaneResults(r)
             /\ LET dead == \E r \in Ready : d[r].kind = "lost"
                    v == IF dead THEN ClassifyFailure(World, "lost") ELSE World
                    moved == [v EXCEPT !.req = [r \in Req |->
                                IF r \in Ready THEN LaneState(v.req[r], d[r])
                                ELSE v.req[r]]] IN
                  IF Len(work.ready) > 1 /\ moved.lost # "no"
                  THEN FinishBatch(Asked(moved, Ready))
                  ELSE /\ Apply(moved)
                       /\ UNCHANGED lists
                       /\ work' = [work EXCEPT !.pc = "publish", !.todo = work.ready,
                                    !.step = [r \in Req |-> IF r \in Ready THEN d[r]
                                                            ELSE [kind |-> "none"]]]
  <2>1. \E d : /\ Returns(d)
                      /\ IF Len(work.ready) > 1 /\ Redone(Seen(d), Lanes(Seen(d), d)).lost # "no"
                         THEN FinishBatch(Asked(Redone(Seen(d), Lanes(Seen(d), d)), Ready))
                         ELSE /\ Apply(Redone(Seen(d), Lanes(Seen(d), d)))
                              /\ UNCHANGED lists
                              /\ work' = Publishes(work, StepsOf(d))
    BY <1>1, ZenonT(30) DEF Returns, Seen, Lanes, Publishes, StepsOf, Redone
  <2>. QED
    BY <1>1, <2>1
<1>2. CASE work.ready = <<>> /\ FinishBatch(World)
  BY <1>2
<1>3. CASE StoppedBeforeCall /\ FinishBatch(Asked(World, Ready))
  BY <1>3
<1>4. CASE /\ work.ready # <<>>
            /\ \E f \in (IF Misused THEN {"misuse"} ELSE Failures) : FinishBatch(ThrowAll(f))
  BY <1>4
<1>. QED
  BY <1>1, <1>2, <1>3, <1>4, ZenonT(30) DEF ExecuteBatch

\* A batch that is prepared.
Executes ==
  /\ work.ready \in Seq(Req) /\ Distinct(work.ready)
  /\ Ready \in SUBSET Req /\ Ready \subseteq ToSet(work.batch)
  /\ work.batch \in Seq(Req) /\ ToSet(work.batch) \subseteq Req
  /\ \A r \in Ready : Whole(r, req[r]) /\ req[r].out = "none"
  /\ \A r \in Ready : IF work.multi THEN Rested(r, req[r]) ELSE Chosen(r, req[r])
  /\ \A r \in ToSet(work.batch) \ Ready : Settled(r, req[r])
  /\ work.multi => \A r \in Ready : Settled(r, req[r])
  /\ ~Misused

\* What holds of a batch that is prepared.
LEMMA ExecutesIs ==
  ASSUME Placed, Phases(req, work), work.pc = "prepare", work.todo = <<>>
  PROVE  Executes
<1>1. work \in Works /\ Batching(work, req, lost)
  BY PlacedFacts
<1>2. /\ work.ready \in Seq(Req) /\ Distinct(work.ready) /\ work.multi \in BOOLEAN
      /\ Ready \in SUBSET Req /\ Ready \subseteq ToSet(work.batch)
      /\ work.batch \in Seq(Req) /\ ToSet(work.batch) \subseteq Req
      /\ \A r \in Ready : req[r].out = "none"
  BY <1>1, WorkFacts DEF Batching, Ready
<1>3. ASSUME NEW r \in Ready
      PROVE  /\ Whole(r, req[r])
             /\ IF work.multi THEN Rested(r, req[r]) ELSE Chosen(r, req[r])
             /\ work.multi => Settled(r, req[r])
  <2>1. Phase(r, req[r], work) /\ req[r].out = "none" /\ ~Stepped(work, r)
    BY <1>2 DEF Phases, Stepped
  <2>2. CASE work.multi
    <3>1. Joined(work, r) /\ ~Readied(work, r)
      BY <1>2, <2>2 DEF Joined, Readied
    <3>. QED
      BY <2>1, <2>2, <3>1 DEF Phase, Rested, Settled, Whole
  <2>3. CASE ~work.multi
    <3>1. Readied(work, r)
      BY <2>3 DEF Readied, Ready
    <3>. QED
      BY <2>1, <2>3, <3>1 DEF Phase
  <2>. QED
    BY <2>2, <2>3
<1>4. ASSUME NEW r \in ToSet(work.batch) \ Ready
      PROVE  Settled(r, req[r])
  <2>1. Phase(r, req[r], work) /\ ~Stepped(work, r) /\ ~Readied(work, r)
    BY <1>2 DEF Phases, Stepped, Readied, Ready
  <2>. QED
    BY <2>1 DEF Phase, Settled
<1>5. ~Misused
  BY <1>2, <1>3 DEF Misused, Rested, Chosen
<1>. QED
  BY <1>2, <1>3, <1>4, <1>5 DEF Executes

\* Without a ready request the outputs are settled.
LEMMA NothingReadyEnds ==
  ASSUME Placed, Executes, work.ready = <<>>
  PROVE  Ends(World)
<1>1. World \in Worlds /\ World.req = req /\ World.lost = lost
  BY PlacedFacts
<1>2. Ready = {}
  BY ShortMembers DEF Ready
<1>3. Treated(req, req, ToSet(work.batch), lost, lost)
  BY KeepsSelf DEF Treated
<1>. QED
  BY <1>1, <1>2, <1>3 DEF Ends, Executes

\* Of two steps for a request, the second its end.
LEMMA EndsLater ==
  ASSUME NEW q, NEW x, NEW p, NEW k, NEW m, Keeps(q, x), x.lease = q.lease, Ending(x, p, k)
  PROVE  Keeps(q, p) /\ Spared(q, p, k, m)
BY DEF Keeps, Spared, Ending, Over, SameClient

\* The prepared requests are asked whether they were stopped.
LEMMA AskedEnds ==
  ASSUME Executes, NEW w \in Worlds, Treated(req, w.req, Ready, w.lost, lost),
         \A r \in Ready : Whole(r, w.req[r]) /\ w.req[r].lease = req[r].lease,
         w.lost # "no" \/ \A r \in Ready : Settled(r, w.req[r])
  PROVE  Ends(Asked(w, Ready))
<1>1. PICK v : v = Asked(w, Ready)
  OBVIOUS
<1>2. /\ v \in Worlds /\ v.lost = w.lost
      /\ \A r \in Req \ Ready : v.req[r] = w.req[r]
      /\ \A r \in Ready :
           /\ \/ ~Stopped(w, r) /\ v.req[r] = w.req[r]
              \/ w.req[r].out # "none" /\ v.req[r] = w.req[r]
              \/ w.req[r].out = "none" /\ Stopped(w, r)
                   /\ Ending(w.req[r], v.req[r], w.lost)
           /\ Stream(r, w.req[r]) => Stream(r, v.req[r])
  <2>1. Ready \in SUBSET Req
    BY DEF Executes
  <2>. QED
    BY <1>1, <2>1, StoppedSet
<1>3. ASSUME NEW r \in Ready
      PROVE  /\ Keeps(req[r], v.req[r]) /\ Spared(req[r], v.req[r], v.lost, lost)
             /\ Settled(r, v.req[r])
  <2>1. r \in Req
    BY DEF Executes
  <2>2. /\ Whole(r, w.req[r]) /\ w.req[r].lease = req[r].lease
        /\ Keeps(req[r], w.req[r]) /\ Spared(req[r], w.req[r], w.lost, lost)
    BY <2>1 DEF Treated
  <2>3. CASE v.req[r] = w.req[r]
    <3>1. Settled(r, w.req[r])
      <4>1. CASE w.lost = "no"
        BY <4>1
      <4>2. CASE w.lost # "no"
        <5>1. w.req[r].out # "none"
          BY <1>2, <2>3, <4>2 DEF Stopped, Ending
        <5>. QED
          BY <2>2, <5>1 DEF Settled
      <4>. QED
        BY <4>1, <4>2
    <3>. QED
      BY <1>2, <2>2, <2>3, <3>1
  <2>4. CASE Ending(w.req[r], v.req[r], w.lost)
    <3>1. Keeps(req[r], v.req[r]) /\ Spared(req[r], v.req[r], w.lost, lost)
      BY <2>2, <2>4, EndsLater
    <3>2. Stream(r, v.req[r])
      BY <1>2, <2>2 DEF Whole
    <3>3. Settled(r, v.req[r])
      BY <2>4, <3>2, EndedWhole
    <3>. QED
      BY <1>2, <3>1, <3>3
  <2>. QED
    BY <1>2, <2>3, <2>4
<1>4. ASSUME NEW r \in Req \ Ready
      PROVE  v.req[r] = req[r] /\ v.req[r] = w.req[r]
  BY <1>2 DEF Treated
<1>5. Treated(req, v.req, ToSet(work.batch), v.lost, lost)
  <2>1. \A r \in Req : Keeps(req[r], v.req[r]) /\ Spared(req[r], v.req[r], v.lost, lost)
    BY <1>3, <1>4, KeepsSelf
  <2>2. \A r \in Req \ ToSet(work.batch) : v.req[r] = req[r]
    BY <1>4 DEF Executes
  <2>. QED
    BY <2>1, <2>2 DEF Treated
<1>6. \A r \in ToSet(work.batch) : Settled(r, v.req[r])
  BY <1>3, <1>4 DEF Executes
<1>7. Asked(w, Ready) = v
  BY <1>1
<1>. QED
  BY <1>2, <1>5, <1>6, <1>7 DEF Ends

\* So they are when every ready request was stopped.
LEMMA StoppedBeforeCallEnds ==
  ASSUME Placed, Executes, StoppedBeforeCall
  PROVE  Ends(Asked(World, Ready))
<1>1. World \in Worlds /\ World.req = req /\ World.lost = lost
  BY PlacedFacts
<1>2. Treated(World.req, World.req, Ready, World.lost, lost)
  BY KeepsSelf DEF Treated
<1>3. World.lost # "no" \/ \A r \in Ready : Settled(r, World.req[r])
  BY <1>1 DEF StoppedBeforeCall, Executes
<1>4. \A r \in Ready : Whole(r, World.req[r]) /\ World.req[r].lease = req[r].lease
  BY <1>1 DEF Executes
<1>5. Treated(req, World.req, Ready, World.lost, lost)
  BY <1>1, <1>2
<1>. QED
  BY <1>1, <1>3, <1>4, <1>5, AskedEnds

\* So they are when the call failed and each was failed.
LEMMA ThrowAllEnds ==
  ASSUME Placed, Executes, work.ready # <<>>, NEW f, f # "misuse"
  PROVE  Ends(ThrowAll(f))
<1>1. World \in Worlds /\ World.req = req /\ World.lost = lost
  BY PlacedFacts
<1>2. CASE Len(work.ready) = 1
  <2>1. PICK r : r = Head(work.ready)
    OBVIOUS
  <2>2. Ready = {r} /\ r \in Req
    <3>1. Tail(work.ready) = <<>> /\ ToSet(work.ready) = {r} \cup ToSet(Tail(work.ready)) /\ r \in Req
      BY <1>2, <2>1, HeadTailMembers DEF Executes
    <3>. QED
      BY <3>1, ShortMembers, ZenonT(30) DEF Ready
  <2>3. req[r].out = "none" /\ Whole(r, req[r]) /\ r \in ToSet(work.batch)
    BY <2>2 DEF Executes
  <2>4. PICK s : s = No(FailStep(World, r, f))
    OBVIOUS
  <2>5. /\ Ran(World, r, s) /\ ~s.ok /\ s.w.req[r].out # "none"
        /\ f # "misuse" => s.w.req[r].out # "misuse"
        /\ Stream(r, World.req[r]) => Stream(r, s.w.req[r])
        /\ s.w.lost \in {World.lost, Probed(World.lost, f)}
    BY <1>1, <2>2, <2>3, <2>4, FailStepIs
  <2>6. PICK S : S = ToSet(work.batch)
    OBVIOUS
  <2>7. /\ s.w \in Worlds /\ Treated(World.req, s.w.req, S, s.w.lost, World.lost)
        /\ Beside(World.req, s.w.req, r)
        /\ Stream(r, s.w.req[r]) => Whole(r, s.w.req[r])
    <3>1. s.w.req[r].out # "misuse" /\ r \in S
      BY <2>3, <2>5, <2>6
    <3>. QED
      BY <2>2, <2>5, <3>1, RanTreated
  <2>8. s.w = ThrowAll(f)
    BY <1>2, <2>1, <2>4, NoIs, ZenonT(30) DEF ThrowAll
  <2>9. ASSUME NEW x \in ToSet(work.batch) PROVE Settled(x, s.w.req[x])
    <3>1. CASE x = r
      <4>1. Whole(r, s.w.req[r])
        BY <1>1, <2>3, <2>5, <2>7 DEF Whole
      <4>. QED
        BY <2>5, <3>1, <4>1 DEF Settled
    <3>2. CASE x # r
      <4>1. s.w.req[x] = req[x] /\ x \in ToSet(work.batch) \ Ready
        BY <1>1, <2>2, <2>7, <3>2 DEF Beside, Executes
      <4>. QED
        BY <4>1 DEF Executes
    <3>. QED
      BY <3>1, <3>2
  <2>10. Treated(req, s.w.req, ToSet(work.batch), s.w.lost, lost)
    BY <1>1, <2>6, <2>7
  <2>. QED
    BY <2>7, <2>8, <2>9, <2>10 DEF Ends
<1>3. CASE Len(work.ready) # 1
  <2>1. PICK v : v = ThrownAll(World, work.ready, f)
    OBVIOUS
  <2>2. /\ v \in Worlds /\ Later(World.lost, v.lost) /\ (f # "lost" => v.lost = World.lost)
        /\ \A r \in Req \ ToSet(work.ready) : v.req[r] = World.req[r]
        /\ \A r \in ToSet(work.ready) : World.req[r].out = "none" => Felled(World, v, r, f)
    BY <1>1, <2>1, ThrownSeq DEF Executes
  <2>3. v = ThrowAll(f)
    BY <1>3, <2>1 DEF ThrowAll
  <2>4. ASSUME NEW r \in Ready
        PROVE  /\ Keeps(req[r], v.req[r]) /\ Spared(req[r], v.req[r], v.lost, lost)
               /\ Settled(r, v.req[r])
    <3>1. Whole(r, req[r]) /\ req[r].out = "none"
      BY DEF Executes
    <3>2. Felled(World, v, r, f)
      BY <1>1, <2>2, <3>1 DEF Ready
    <3>3. Stream(r, v.req[r])
      BY <1>1, <3>1, <3>2 DEF Felled, Whole
    <3>4. Ending(req[r], v.req[r], "no")
      BY <1>1, <3>2 DEF Felled
    <3>5. Spared(req[r], v.req[r], v.lost, lost)
      BY <1>1, <2>2, <3>2 DEF Felled, Spared
    <3>6. Settled(r, v.req[r])
      BY <3>3, <3>4, EndedWhole
    <3>7. Keeps(req[r], v.req[r])
      BY <1>1, <3>2 DEF Felled
    <3>. QED
      BY <3>5, <3>6, <3>7
  <2>5. \A r \in Req \ Ready : v.req[r] = req[r]
    BY <1>1, <2>2 DEF Ready
  <2>6. Treated(req, v.req, ToSet(work.batch), v.lost, lost)
    <3>1. \A r \in Req : Keeps(req[r], v.req[r]) /\ Spared(req[r], v.req[r], v.lost, lost)
      BY <2>4, <2>5, KeepsSelf
    <3>2. \A r \in Req \ ToSet(work.batch) : v.req[r] = req[r]
      BY <2>5 DEF Executes
    <3>. QED
      BY <3>1, <3>2 DEF Treated
  <2>7. \A r \in ToSet(work.batch) : Settled(r, v.req[r])
    BY <2>4, <2>5 DEF Executes
  <2>. QED
    BY <2>2, <2>3, <2>6, <2>7 DEF Ends
<1>. QED
  BY <1>2, <1>3

\* What a lane returns is a step.
LEMMA LaneResultIs ==
  ASSUME Placed, Executes, NEW r \in Ready, NEW d \in LaneResults(r)
  PROVE  /\ d \in Steps /\ d.kind # "none"
         /\ d.kind \in {"error", "lost"} => Len(work.ready) # 1
         /\ d.kind = "tokens" => work.multi /\ d \in ValidSteps(req[r], r)
         /\ d.kind = "advanced" => ~work.multi
         /\ ~Begun(d)
<1>1. req[r] \in Requests /\ r \in Req
  <2>1. r \in Req
    BY DEF Executes
  <2>. QED
    BY <2>1, PlacedFacts
<1>2. CASE work.multi /\ d \in ValidSteps(req[r], r)
  <2>1. d.kind = "tokens" /\ d \in Steps /\ ~d.begun
    BY <1>1, <1>2, ValidStepIs
  <2>2. ~Begun(d)
    BY <2>1 DEF Begun
  <2>. QED
    BY <1>2, <2>1, <2>2
<1>3. CASE ~work.multi /\ d = [kind |-> "advanced"]
  <2>1. d.kind = "advanced" /\ d \in Steps
    BY <1>3, ZenonT(30) DEF Steps
  <2>2. ~Begun(d)
    BY <2>1 DEF Begun
  <2>. QED
    BY <1>3, <2>1, <2>2
<1>4. CASE Len(work.ready) # 1 /\ \E f \in Failures : d = [kind |-> f]
  <2>1. PICK f \in {"error", "lost"} : d = [kind |-> f]
    BY <1>4, ZenonT(30) DEF Failures
  <2>2. d.kind = f
    BY <2>1
  <2>3. d \in Steps
    <3>1. f \in {"none", "advanced", "error", "lost"}
      BY <2>1
    <3>. QED
      BY <2>1, <3>1 DEF Steps
  <2>4. f \in {"error", "lost"}
    BY <2>1
  <2>5. ~Begun(d)
    BY <2>2, <2>4 DEF Begun
  <2>. QED
    BY <1>4, <2>2, <2>3, <2>4, <2>5
<1>. QED
  BY <1>2, <1>3, <1>4 DEF LaneResults

\* The batch after the call, if it is published: the requests are stepped.
Steps1(w, d) ==
  /\ w \in Worlds /\ Treated(req, w.req, Ready, w.lost, lost)
  /\ Len(work.ready) = 1 => w.lost = lost
  /\ \A r \in Ready : /\ Whole(r, w.req[r]) /\ w.req[r].lease = req[r].lease
                      /\ w.req[r].out = "none" /\ Lane(r, w.req[r], d[r]) /\ d[r] \in Steps
                      /\ ~Begun(d[r])

\* The state of a request after the runner's step.
LEMMA LaneIs ==
  ASSUME Placed, Executes, NEW r \in Ready, NEW d \in LaneResults(r),
         NEW p, p = LaneState(req[r], d)
  PROVE  /\ p \in Requests /\ Alike(req[r], p) /\ Lane(r, p, d)
<1>1. req[r] \in Requests /\ r \in Req
  <2>1. r \in Req
    BY DEF Executes
  <2>. QED
    BY <2>1, PlacedFacts
<1>2. /\ d \in Steps /\ d.kind # "none"
      /\ d.kind = "tokens" => work.multi /\ d \in ValidSteps(req[r], r)
      /\ d.kind = "advanced" => ~work.multi
  BY LaneResultIs
<1>3. /\ p \in Requests /\ Alike(req[r], p)
      /\ p.advancing = req[r].advancing /\ p.preview = req[r].preview
      /\ d.kind = "tokens" => p.adv = req[r].adv + Len(d.toks) /\ p.selected = req[r].selected
      /\ d.kind = "advanced" => p.adv = req[r].adv + 1 /\ ~p.selected
      /\ d.kind \notin {"tokens", "advanced"} => p = req[r]
  BY <1>1, <1>2, LaneStateIs
<1>4. CASE d.kind = "tokens"
  <2>1. Rested(r, req[r])
    BY <1>2, <1>4 DEF Executes
  <2>2. p.adv = req[r].adv + Len(d.toks) /\ p.selected = req[r].selected
    BY <1>3, <1>4
  <2>3. d \in ValidSteps(req[r], r)
    BY <1>2, <1>4
  <2>. QED
    BY <1>1, <1>3, <2>1, <2>2, <2>3, StepLane
<1>5. CASE d.kind = "advanced"
  <2>1. Chosen(r, req[r])
    BY <1>2, <1>5 DEF Executes
  <2>2. p.adv = req[r].adv + 1 /\ ~p.selected
    BY <1>3, <1>5
  <2>. QED
    BY <1>1, <1>3, <1>5, <2>1, <2>2, AdvancedLane
<1>6. CASE d.kind \notin {"advanced", "tokens"}
  BY <1>3, <1>6, FailedLane
<1>. QED
  BY <1>3, <1>4, <1>5, <1>6

\* The states of all ready requests after it.
LEMMA LanesAre ==
  ASSUME Placed, Executes, NEW d, Returns(d),
         NEW w, w = Redone(Seen(d), Lanes(Seen(d), d))
  PROVE  Steps1(w, d)
<1>1. World \in Worlds /\ World.req = req /\ World.lost = lost
  BY PlacedFacts
<1>2. \A r \in Ready : d[r] \in LaneResults(r)
  BY DEF Returns
<1>3. PICK v : v = Seen(d)
  OBVIOUS
<1>4. /\ v \in Worlds /\ v.req = req
      /\ v.lost # lost => \E r \in Ready : d[r].kind = "lost"
  BY <1>1, <1>3, ClassifyFailureIs DEF Seen
<1>5. PICK g : g = Lanes(v, d)
  OBVIOUS
<1>6. Ready \subseteq Req /\ req \in [Req -> Requests]
  BY PlacedFacts DEF Executes
<1>7. ASSUME NEW r \in Ready
      PROVE  /\ g[r] \in Requests /\ Alike(req[r], g[r]) /\ Lane(r, g[r], d[r])
             /\ d[r] \in Steps /\ ~Begun(d[r])
  <2>1. d[r] \in LaneResults(r)
    BY <1>2
  <2>2. g[r] = LaneState(req[r], d[r])
    BY <1>4, <1>5, <1>6 DEF Lanes
  <2>. QED
    BY <2>1, <2>2, LaneIs, LaneResultIs
<1>8. \A r \in Req \ Ready : g[r] = req[r]
  BY <1>4, <1>5 DEF Lanes
<1>9. g \in [Req -> Requests]
  <2>1. \A r \in Req : g[r] \in Requests
    BY <1>6, <1>7, <1>8
  <2>2. DOMAIN g = Req /\ g = [r \in Req |-> g[r]]
    BY <1>5 DEF Lanes
  <2>. QED
    BY <2>1, <2>2
<1>10. \A x \in Req : g[x].buffered = v.req[x].buffered
  BY <1>4, <1>7, <1>8 DEF Alike
<1>11. w \in Worlds /\ w.req = g /\ w.lost = v.lost
  BY <1>3, <1>4, <1>5, <1>9, <1>10, RedoneIs
<1>12. Treated(req, w.req, Ready, w.lost, lost)
  <2>1. ASSUME NEW r \in Req PROVE Keeps(req[r], g[r]) /\ Spared(req[r], g[r], w.lost, lost)
    <3>1. CASE r \in Ready
      <4>1. Alike(req[r], g[r])
        BY <1>7, <3>1
      <4>2. Keeps(req[r], g[r])
        BY <4>1, AlikeFacts
      <4>. QED
        BY <4>1, <4>2 DEF Alike, Spared
    <3>2. CASE r \notin Ready
      BY <1>8, <3>2, KeepsSelf
    <3>. QED
      BY <3>1, <3>2
  <2>. QED
    BY <1>8, <1>11, <2>1 DEF Treated
<1>13. Len(work.ready) = 1 => w.lost = lost
  <2>1. v.lost # lost => Len(work.ready) # 1
    BY <1>2, <1>4, LaneResultIs
  <2>. QED
    BY <1>11, <2>1
<1>14. ASSUME NEW r \in Ready
       PROVE  /\ Whole(r, w.req[r]) /\ w.req[r].lease = req[r].lease /\ w.req[r].out = "none"
              /\ Lane(r, w.req[r], d[r]) /\ d[r] \in Steps /\ ~Begun(d[r])
  <2>1. /\ Alike(req[r], w.req[r]) /\ Lane(r, w.req[r], d[r]) /\ d[r] \in Steps
        /\ ~Begun(d[r])
    BY <1>7, <1>11
  <2>2. Whole(r, req[r]) /\ req[r].out = "none"
    BY DEF Executes
  <2>3. Stream(r, w.req[r])
    BY <2>1, <2>2, AlikeFacts DEF Whole
  <2>. QED
    BY <2>1, <2>2, <2>3 DEF Alike, Whole
<1>. QED
  BY <1>11, <1>12, <1>13, <1>14 DEF Steps1

\* The results of a call, for each request.
StepsHeld(s, d) ==
  /\ s \in [Req -> Steps] /\ \A r \in Ready : s[r] = d[r]

\* The results are those of the ready lanes.
LEMMA StepsOfIs ==
  ASSUME Executes, NEW w, NEW d, Steps1(w, d), NEW s, s = StepsOf(d)
  PROVE  StepsHeld(s, d)
<1>1. Ready \subseteq Req /\ \A r \in Ready : d[r] \in Steps
  BY DEF Executes, Steps1
<1>2. ASSUME NEW r \in Req PROVE s[r] = IF r \in Ready THEN d[r] ELSE [kind |-> "none"]
  BY DEF StepsOf
<1>3. \A r \in Req : s[r] \in Steps
  BY <1>1, <1>2, StepNone
<1>4. DOMAIN s = Req /\ s = [r \in Req |-> s[r]]
  BY DEF StepsOf
<1>5. s \in [Req -> Steps]
  BY <1>3, <1>4
<1>6. \A r \in Ready : s[r] = d[r]
  BY <1>1, <1>2
<1>. QED
  BY <1>5, <1>6 DEF StepsHeld

\* The unit that publishes the results.
LEMMA PublishesIs ==
  ASSUME NEW b \in Works, NEW s \in [Req -> Steps], NEW a, a = Publishes(b, s)
  PROVE  /\ a \in Works /\ a.pc = "publish" /\ a.batch = b.batch /\ a.ready = b.ready
         /\ a.todo = b.ready /\ a.step = s
<1>1. "publish" \in Counters
  BY DEF Counters
<1>. QED
  BY <1>1, ZenonT(30) DEF Works, Publishes

\* A number that is not zero.
LEMMA OneOrMore ==
  ASSUME NEW n \in Nat, n # 0
  PROVE  n = 1 \/ n > 1
OBVIOUS

\* Going on to publish keeps the placement and the phases.
LEMMA PublishesSafe ==
  ASSUME Placed, Phases(req, work), BatchFrame, Executes, work.pc = "prepare", work.todo = <<>>,
         work.ready # <<>>, ~StoppedBeforeCall, NEW d, NEW w, Steps1(w, d),
         Apply(w), lists' = lists, work' = Publishes(work, StepsOf(d))
  PROVE  Safe
<1>1. /\ lists \in ListType /\ Apart(lists) /\ work \in Works /\ Batching(work, req, lost)
      /\ Placement(req, QueuedIn(clients), lists, ToSet(work.batch))
  BY PlacedFacts
<1>2. PICK s : s = StepsOf(d)
  OBVIOUS
<1>3. s \in [Req -> Steps] /\ \A r \in Ready : s[r] = d[r]
  BY <1>2, StepsOfIs DEF StepsHeld
<1>4. /\ work' \in Works /\ work'.pc = "publish" /\ work'.batch = work.batch
      /\ work'.ready = work.ready /\ work'.todo = work.ready /\ work'.step = s
  BY <1>1, <1>2, <1>3, PublishesIs
<1>5. /\ w \in Worlds /\ Treated(req, w.req, Ready, w.lost, lost)
      /\ Len(work.ready) = 1 => w.lost = lost
      /\ \A r \in Ready : /\ Whole(r, w.req[r]) /\ w.req[r].lease = req[r].lease
                          /\ w.req[r].out = "none" /\ Lane(r, w.req[r], d[r]) /\ d[r] \in Steps
                          /\ ~Begun(d[r])
  BY DEF Steps1
<1>6. World' = w /\ req' = w.req /\ lost' = w.lost
  BY <1>5, ApplyIs
<1>7. Treated(req, req', ToSet(work.batch), lost', lost)
  BY <1>5, <1>6 DEF Treated, Executes
<1>8. Len(work.ready) = 1 => lost' # "probe"
  <2>1. Len(work.batch) = 1 => lost # "probe"
    BY <1>1 DEF Batching
  <2>2. Len(work.batch) \in Nat /\ Len(work.batch) # 0
    <3>1. Head(work.ready) \in ToSet(work.ready)
      BY HeadTailMembers DEF Executes
    <3>2. ToSet(work.batch) # {}
      BY <3>1 DEF Executes, Ready
    <3>. QED
      BY <3>2, SeqFacts DEF Executes
  <2>3. Len(work.batch) > 1 => lost = "no"
    BY DEF StoppedBeforeCall
  <2>4. Len(work.batch) = 1 \/ Len(work.batch) > 1
    BY <2>2, OneOrMore, ZenonT(30)
  <2>5. lost # "probe"
    BY <2>1, <2>3, <2>4
  <2>6. Len(work.ready) = 1 => lost' = lost
    BY <1>5, <1>6
  <2>. QED
    BY <2>5, <2>6
<1>9. Batching(work', req', lost')
  <2>1. Distinct(work.batch)
    BY <1>1 DEF Batching
  <2>2. /\ Distinct(work.ready) /\ ToSet(work.ready) \subseteq ToSet(work.batch)
        /\ \A r \in ToSet(work.ready) : req'[r].out = "none"
    BY <1>5, <1>6 DEF Executes, Ready
  <2>3. work'.pc \notin Between
    BY <1>4 DEF Between
  <2>4. \A r \in ToSet(work'.todo) : ~Begun(work'.step[r])
    BY <1>3, <1>4, <1>5 DEF Ready
  <2>. QED
    BY <1>4, <1>8, <2>1, <2>2, <2>3, <2>4 DEF Batching
<1>10. Placed'
  <2>1. ListFrame /\ UNCHANGED <<clients, streak, skipped>>
    BY DEF BatchFrame
  <2>2. Replaced(req', QueuedIn(clients), lists, ToSet(work.batch),
                 QueuedIn(clients), lists, ToSet(work.batch))
    BY <1>1, <1>7, StillReplaced
  <2>3. Replaced(req', QueuedIn(clients), lists, ToSet(work.batch),
                 QueuedIn(clients), lists', ToSet(work'.batch))
    BY <1>4, <2>2
  <2>4. World' \in Worlds /\ lists' \in ListType /\ work'.pc \notin {"drain", "done"}
    BY <1>1, <1>4, <1>5, <1>6
  <2>. QED
    BY <1>4, <1>7, <1>9, <2>1, <2>3, <2>4, BatchPlaced
<1>11. Phases(req', work')
  <2>1. ASSUME NEW r \in Req PROVE Phase(r, req'[r], work')
    <3>1. ~Readied(work', r) /\ ~Joined(work', r)
      BY <1>4 DEF Readied, Joined
    <3>2. Stepped(work', r) <=> r \in Ready
      BY <1>4 DEF Stepped, Ready
    <3>3. CASE r \in Ready
      <4>1. Whole(r, req'[r]) /\ Lane(r, req'[r], work'.step[r])
        BY <1>3, <1>4, <1>5, <1>6, <3>3
      <4>. QED
        BY <3>1, <3>2, <3>3, <4>1 DEF Phase
    <3>4. CASE r \notin Ready
      <4>1. req'[r] = req[r]
        BY <1>5, <1>6, <3>4 DEF Treated
      <4>2. Settled(r, req[r])
        <5>1. CASE r \in ToSet(work.batch)
          BY <3>4, <5>1 DEF Executes
        <5>2. CASE r \notin ToSet(work.batch)
          <6>1. ~Stepped(work, r) /\ ~Readied(work, r) /\ ~Joined(work, r)
            BY <1>1, <5>2, OutsideBatch
          <6>2. Phase(r, req[r], work)
            BY DEF Phases
          <6>. QED
            BY <6>1, <6>2, SettledPhase
        <5>. QED
          BY <5>1, <5>2
      <4>. QED
        BY <3>1, <3>2, <3>4, <4>1, <4>2, SettledPhase
    <3>. QED
      BY <3>3, <3>4
  <2>. QED
    BY <1>4, <2>1 DEF Phases
<1>. QED
  BY <1>4, <1>7, <1>10, <1>11 DEF Safe

\* So does ExecuteBatch.
LEMMA ExecuteBatchSafe ==
  ASSUME Placed, Phases(req, work), ExecuteBatch
  PROVE  Safe
<1>1. work.pc = "prepare" /\ work.todo = <<>> /\ BatchFrame
  BY ZenonT(30) DEF ExecuteBatch, BatchFrame
<1>2. Executes
  BY <1>1, ExecutesIs
<1>3. CASE work.ready = <<>> /\ FinishBatch(World)
  <2>1. Ends(World)
    BY <1>2, <1>3, NothingReadyEnds
  <2>. QED
    BY <1>1, <1>3, <2>1, FinishBatchSafe
<1>4. CASE StoppedBeforeCall /\ FinishBatch(Asked(World, Ready))
  <2>1. Ends(Asked(World, Ready))
    BY <1>2, <1>4, StoppedBeforeCallEnds
  <2>. QED
    BY <1>1, <1>4, <2>1, FinishBatchSafe
<1>5. CASE /\ work.ready # <<>>
           /\ \E f \in (IF Misused THEN {"misuse"} ELSE Failures) : FinishBatch(ThrowAll(f))
  <2>1. PICK f \in Failures : FinishBatch(ThrowAll(f))
    BY <1>2, <1>5, ZenonT(30) DEF Executes
  <2>2. f # "misuse"
    BY <2>1 DEF Failures
  <2>3. Ends(ThrowAll(f))
    BY <1>2, <1>5, <2>2, ThrowAllEnds
  <2>. QED
    BY <1>1, <2>1, <2>3, FinishBatchSafe
<1>6. CASE /\ work.ready # <<>> /\ ~StoppedBeforeCall
           /\ \E d : /\ Returns(d)
                      /\ IF Len(work.ready) > 1 /\ Redone(Seen(d), Lanes(Seen(d), d)).lost # "no"
                         THEN FinishBatch(Asked(Redone(Seen(d), Lanes(Seen(d), d)), Ready))
                         ELSE /\ Apply(Redone(Seen(d), Lanes(Seen(d), d)))
                              /\ UNCHANGED lists
                              /\ work' = Publishes(work, StepsOf(d))
  <2>1. PICK d : /\ Returns(d)
                 /\ IF Len(work.ready) > 1 /\ Redone(Seen(d), Lanes(Seen(d), d)).lost # "no"
                    THEN FinishBatch(Asked(Redone(Seen(d), Lanes(Seen(d), d)), Ready))
                    ELSE /\ Apply(Redone(Seen(d), Lanes(Seen(d), d)))
                         /\ UNCHANGED lists
                         /\ work' = Publishes(work, StepsOf(d))
    BY <1>6
  <2>2. PICK w : w = Redone(Seen(d), Lanes(Seen(d), d))
    OBVIOUS
  <2>3. Steps1(w, d)
    BY <1>2, <2>1, <2>2, LanesAre
  <2>4. CASE Len(work.ready) > 1 /\ w.lost # "no"
    <3>1. FinishBatch(Asked(w, Ready))
      BY <2>1, <2>2, <2>4
    <3>2. /\ w \in Worlds /\ Treated(req, w.req, Ready, w.lost, lost)
          /\ \A r \in Ready : Whole(r, w.req[r]) /\ w.req[r].lease = req[r].lease
      BY <2>3 DEF Steps1
    <3>3. Ends(Asked(w, Ready))
      BY <1>2, <2>4, <3>2, AskedEnds
    <3>. QED
      BY <1>1, <3>1, <3>3, FinishBatchSafe
  <2>5. CASE ~(Len(work.ready) > 1 /\ w.lost # "no")
    <3>1. Apply(w) /\ lists' = lists /\ work' = Publishes(work, StepsOf(d))
      BY <2>1, <2>2, <2>5
    <3>. QED
      BY <1>1, <1>2, <1>6, <2>3, <3>1, PublishesSafe
  <2>. QED
    BY <2>4, <2>5
<1>. QED
  BY <1>3, <1>4, <1>5, <1>6, ExecuteBatchSplit

(***************************************************************************)
(* PublishLane                                                             *)
(***************************************************************************)

\* The lane of r is published next.
Publishing1(r) ==
  /\ work.pc = "publish" /\ work.todo # <<>> /\ r = Head(work.todo)
  /\ r \in Req /\ r \in ToSet(work.batch) /\ req[r].out = "none"
  /\ Whole(r, req[r]) /\ Lane(r, req[r], work.step[r])
  /\ Tail(work.todo) \in Seq(Req) /\ Distinct(Tail(work.todo))
  /\ ToSet(work.todo) = {r} \cup ToSet(Tail(work.todo)) /\ r \notin ToSet(Tail(work.todo))
  /\ Len(work.todo) # 1 => Tail(work.todo) # <<>>
  /\ Len(work.todo) = 1 => ToSet(work.todo) = {r}
  /\ \A x \in ToSet(work.batch) \ ToSet(work.todo) : Settled(x, req[x])

\* What holds of the lane being published.
LEMMA PublishingIs ==
  ASSUME Placed, Phases(req, work), work.pc = "publish", NEW r, r = Head(work.todo)
  PROVE  Publishing1(r)
<1>1. work \in Works /\ Batching(work, req, lost)
  BY PlacedFacts
<1>2. /\ work.todo \in Seq(Req) /\ work.todo # <<>> /\ Distinct(work.todo)
      /\ ToSet(work.todo) \subseteq ToSet(work.batch) /\ ToSet(work.batch) \subseteq Req
      /\ \A x \in ToSet(work.todo) : req[x].out = "none"
  BY <1>1, WorkFacts DEF Batching
<1>3. /\ r \in Req /\ Tail(work.todo) \in Seq(Req)
      /\ Tail(work.todo) = <<>> <=> Len(work.todo) = 1
      /\ ToSet(work.todo) = {r} \cup ToSet(Tail(work.todo))
      /\ Distinct(Tail(work.todo)) /\ r \notin ToSet(Tail(work.todo))
  BY <1>2, HeadTailMembers
<1>4. Len(work.todo) = 1 => ToSet(work.todo) = {r}
  BY <1>3, ShortMembers
<1>5. Whole(r, req[r]) /\ Lane(r, req[r], work.step[r])
  <2>1. Phase(r, req[r], work) /\ Stepped(work, r)
    BY <1>3 DEF Phases, Stepped
  <2>. QED
    BY <1>2, <1>3, <2>1 DEF Phase
<1>6. ASSUME NEW x \in ToSet(work.batch) \ ToSet(work.todo)
      PROVE  Settled(x, req[x])
  <2>1. Phase(x, req[x], work) /\ ~Stepped(work, x) /\ ~Readied(work, x) /\ ~Joined(work, x)
    BY <1>2 DEF Phases, Stepped, Readied, Joined
  <2>. QED
    BY <2>1, SettledPhase
<1>. QED
  BY <1>2, <1>3, <1>4, <1>5, <1>6 DEF Publishing1

\* What a call for its lane leaves of r.
Leaves(w, r) ==
  /\ w \in Worlds /\ Treated(req, w.req, ToSet(work.batch), w.lost, lost)
  /\ Beside(req, w.req, r)

\* A step of the publication leaves every other request alone.
LEMMA RanLeaves ==
  ASSUME Placed, NEW r \in Req, r \in ToSet(work.batch), NEW s, Ran(World, r, s),
         s.w.req[r].out # "misuse"
  PROVE  /\ Leaves(s.w, r)
         /\ Stream(r, s.w.req[r]) => Whole(r, s.w.req[r])
         /\ Later(lost, s.w.lost)
<1>1. World.req = req /\ World.lost = lost
  BY PlacedFacts
<1>2. PICK S : S = ToSet(work.batch)
  OBVIOUS
<1>3. r \in S
  BY <1>2
<1>4. /\ s.w \in Worlds /\ Treated(World.req, s.w.req, S, s.w.lost, World.lost)
      /\ Beside(World.req, s.w.req, r)
      /\ Stream(r, s.w.req[r]) => Whole(r, s.w.req[r])
  BY <1>3, RanTreated, ZenonT(30)
<1>5. Later(lost, s.w.lost)
  BY <1>1 DEF Ran, Later
<1>. QED
  BY <1>1, <1>2, <1>4, <1>5 DEF Leaves

\* The worker goes on to the next lane.
Passed(b) == [b EXCEPT !.todo = Tail(@), !.step[Head(b.todo)] = [kind |-> "none"]]

\* The unit goes on to the next lane.
LEMMA PassedIs ==
  ASSUME NEW b \in Works, b.todo # <<>>, NEW a, a = Passed(b)
  PROVE  /\ a \in Works /\ a.pc = b.pc /\ a.batch = b.batch /\ a.ready = b.ready
         /\ a.todo = Tail(b.todo) /\ \A x \in Req : x # Head(b.todo) => a.step[x] = b.step[x]
<1>1. PICK r, t, s : r = Head(b.todo) /\ t = Tail(b.todo)
                     /\ s = [b.step EXCEPT ![r] = [kind |-> "none"]]
  BY ZenonT(30)
<1>2. r \in Req /\ t \in Seq(Req)
  BY <1>1, HeadTailMembers, WorkFacts
<1>3. s \in [Req -> Steps] /\ \A x \in Req : x # r => s[x] = b.step[x]
  BY <1>1, <1>2, StepNone, WorkFacts
<1>4. a = [b EXCEPT !.todo = t, !.step = s]
  BY <1>1, ZenonT(30) DEF Passed
<1>5. /\ a \in Works /\ a.pc = b.pc /\ a.batch = b.batch /\ a.ready = b.ready
      /\ a.todo = t /\ a.step = s
  BY <1>2, <1>3, <1>4, ZenonT(30) DEF Works
<1>. QED
  BY <1>1, <1>3, <1>5

\* After the last lane the batch finishes.
LEMMA NextLaneSplit ==
  ASSUME NEW w, NextLane(w)
  PROVE  \/ Len(work.todo) = 1 /\ FinishBatch(w)
         \/ Len(work.todo) # 1 /\ Apply(w) /\ work' = Passed(work) /\ lists' = lists
BY ZenonT(30) DEF NextLane, Passed

\* The batch c is b, still to be published, all but perhaps r.
Continues(b, c, r) ==
  /\ c \in Works /\ c.batch = b.batch /\ c.ready = b.ready
  /\ c.pc \in {"publish", "terminated"}
  /\ c.todo # <<>> /\ Distinct(c.todo) /\ ToSet(c.todo) \subseteq ToSet(b.todo)
  /\ \A x \in ToSet(b.todo) : x # r => x \in ToSet(c.todo) /\ c.step[x] = b.step[x]

\* The request r in the batch c, the device being k.
Remains(c, r, q, k) ==
  /\ Whole(r, q)
  /\ r \in ToSet(c.todo) => q.out = "none" /\ Lane(r, q, c.step[r])
  /\ r \notin ToSet(c.todo) => Settled(r, q)
  /\ r \in ToSet(c.todo) /\ Begun(c.step[r]) => r = Head(c.todo) /\ k # "probe"
  /\ Len(c.ready) = 1 => k # "probe"

\* A lane that is published further keeps the placement and the phases.
LEMMA StillPublishing ==
  ASSUME Placed, Phases(req, work), BatchFrame, NEW r, Publishing1(r),
         NEW w, Leaves(w, r), Apply(w), lists' = lists,
         Continues(work, work', r), Remains(work', r, w.req[r], w.lost)
  PROVE  Safe
<1>1. /\ lists \in ListType /\ work \in Works /\ Batching(work, req, lost)
      /\ Placement(req, QueuedIn(clients), lists, ToSet(work.batch))
  BY PlacedFacts
<1>2. /\ w \in Worlds /\ Treated(req, w.req, ToSet(work.batch), w.lost, lost)
      /\ \A x \in Req \ {r} : w.req[x] = req[x]
  BY DEF Leaves, Beside
<1>3. World' = w /\ req' = w.req /\ lost' = w.lost
  BY <1>2, ApplyIs
<1>4. Treated(req, req', ToSet(work.batch), lost', lost)
  BY <1>2, <1>3
<1>5. /\ work' \in Works /\ work'.batch = work.batch /\ work'.ready = work.ready
      /\ work'.pc \in {"publish", "terminated"}
      /\ work'.todo # <<>> /\ Distinct(work'.todo) /\ ToSet(work'.todo) \subseteq ToSet(work.todo)
      /\ \A x \in ToSet(work.todo) : x # r => x \in ToSet(work'.todo) /\ work'.step[x] = work.step[x]
  BY DEF Continues
<1>6. /\ Whole(r, req'[r])
      /\ r \in ToSet(work'.todo) => req'[r].out = "none" /\ Lane(r, req'[r], work'.step[r])
      /\ r \notin ToSet(work'.todo) => Settled(r, req'[r])
      /\ r \in ToSet(work'.todo) /\ Begun(work'.step[r]) => r = Head(work'.todo) /\ lost' # "probe"
      /\ Len(work'.ready) = 1 => lost' # "probe"
  BY <1>3 DEF Remains
<1>7. work.pc = "publish" /\ r \in Req /\ r \in ToSet(work.batch) /\ ToSet(work.batch) \subseteq Req
  BY <1>1, WorkFacts DEF Publishing1
<1>8. Batching(work', req', lost')
  <2>1. work'.pc \notin Between
    BY <1>5 DEF Between
  <2>2. /\ Distinct(work.batch) /\ Distinct(work.ready)
        /\ ToSet(work.todo) \cup ToSet(work.ready) \subseteq ToSet(work.batch)
        /\ \A x \in ToSet(work.todo) : req[x].out = "none"
        /\ ToSet(work.todo) \subseteq ToSet(work.ready)
    BY <1>1, <1>7 DEF Batching
  <2>3. \A x \in ToSet(work'.todo) : req'[x].out = "none"
    <3>1. ASSUME NEW x \in ToSet(work'.todo) PROVE req'[x].out = "none"
      <4>1. CASE x = r
        BY <1>6, <4>1
      <4>2. CASE x # r
        <5>1. x \in Req /\ x \in ToSet(work.todo)
          BY <1>5, <1>7, <2>2
        <5>. QED
          BY <1>2, <1>3, <2>2, <4>2, <5>1
      <4>. QED
        BY <4>1, <4>2
    <3>. QED
      BY <3>1
  <2>4. work'.pc \notin {"acquire", "prefill", "prepare"}
    BY <1>5
  <2>5. ASSUME NEW x \in ToSet(work'.todo), Begun(work'.step[x])
        PROVE  x = Head(work'.todo) /\ lost' # "probe"
    <3>1. CASE x = r
      BY <1>6, <2>5, <3>1
    <3>2. CASE x # r
      <4>1. x \in ToSet(work.todo) /\ work'.step[x] = work.step[x]
        BY <1>5, <3>2
      <4>2. x = Head(work.todo)
        BY <1>1, <1>7, <2>5, <4>1 DEF Batching
      <4>. QED
        BY <3>2, <4>2 DEF Publishing1
    <3>. QED
      BY <3>1, <3>2
  <2>. QED
    BY <1>5, <1>6, <2>1, <2>2, <2>3, <2>4, <2>5 DEF Batching
<1>9. Placed'
  <2>1. ListFrame /\ UNCHANGED <<clients, streak, skipped>>
    BY DEF BatchFrame
  <2>2. Replaced(req', QueuedIn(clients), lists, ToSet(work.batch),
                 QueuedIn(clients), lists, ToSet(work.batch))
    BY <1>1, <1>4, StillReplaced
  <2>3. Replaced(req', QueuedIn(clients), lists, ToSet(work.batch),
                 QueuedIn(clients), lists', ToSet(work'.batch))
    BY <1>5, <2>2
  <2>4. World' \in Worlds /\ lists' \in ListType /\ work'.pc \notin {"drain", "done"}
    BY <1>1, <1>2, <1>3, <1>5
  <2>5. work' \in Works
    BY <1>5
  <2>. QED
    BY <1>4, <1>8, <2>1, <2>3, <2>4, <2>5, BatchPlaced
<1>10. Phases(req', work')
  <2>1. ASSUME NEW x \in Req PROVE Phase(x, req'[x], work')
    <3>1. ~Readied(work', x) /\ ~Joined(work', x) /\ ~Readied(work, x) /\ ~Joined(work, x)
      BY <1>5, <1>7 DEF Readied, Joined
    <3>2. /\ (Stepped(work', x) <=> x \in ToSet(work'.todo))
          /\ (Stepped(work, x) <=> x \in ToSet(work.todo))
      BY <1>5, <1>7 DEF Stepped
    <3>3. CASE x = r
      <4>1. CASE r \in ToSet(work'.todo)
        BY <1>6, <3>1, <3>2, <3>3, <4>1 DEF Phase
      <4>2. CASE r \notin ToSet(work'.todo)
        BY <1>6, <3>1, <3>2, <3>3, <4>2, SettledPhase
      <4>. QED
        BY <4>1, <4>2
    <3>4. CASE x # r
      <4>1. req'[x] = req[x] /\ Phase(x, req[x], work)
        BY <1>2, <1>3, <3>4 DEF Phases
      <4>2. CASE x \in ToSet(work.todo)
        <5>1. x \in ToSet(work'.todo) /\ work'.step[x] = work.step[x]
          BY <1>5, <3>4, <4>2
        <5>. QED
          BY <3>1, <3>2, <4>1, <4>2, <5>1 DEF Phase
      <4>3. CASE x \notin ToSet(work.todo)
        <5>1. Settled(x, req[x])
          BY <3>1, <3>2, <4>1, <4>3, SettledPhase
        <5>2. ~Stepped(work', x)
          BY <1>5, <3>2, <4>3
        <5>. QED
          BY <3>1, <4>1, <5>1, <5>2, SettledPhase
      <4>. QED
        BY <4>2, <4>3
    <3>. QED
      BY <3>3, <3>4
  <2>. QED
    BY <1>5, <2>1 DEF Phases
<1>11. work'.pc \notin {"prefill", "done"}
  BY <1>5
<1>. QED
  BY <1>4, <1>9, <1>10, <1>11 DEF Safe

\* A batch of one is published in one step.
LEMMA LoneLane ==
  ASSUME Placed, NEW r, Publishing1(r), Len(work.todo) # 1
  PROVE  Len(work.ready) # 1
<1>1. SUFFICES ASSUME Len(work.ready) = 1
               PROVE  FALSE
  OBVIOUS
<1>2. work.ready \in Seq(Req) /\ ToSet(work.todo) \subseteq ToSet(work.ready) /\ work.ready # <<>>
  <2>1. work.pc = "publish" /\ work \in Works /\ Batching(work, req, lost)
    BY PlacedFacts DEF Publishing1
  <2>2. work.ready \in Seq(Req) /\ ToSet(work.todo) \subseteq ToSet(work.ready)
    BY <2>1, WorkFacts DEF Batching
  <2>3. r \in ToSet(work.ready)
    BY <2>2 DEF Publishing1
  <2>. QED
    BY <2>2, <2>3, ShortMembers
<1>3. ToSet(work.ready) = {Head(work.ready)}
  <2>1. Tail(work.ready) = <<>> /\ ToSet(work.ready) = {Head(work.ready)} \cup ToSet(Tail(work.ready))
    BY <1>1, <1>2, HeadTailMembers
  <2>. QED
    BY <2>1, ShortMembers, ZenonT(30)
<1>4. PICK t \in Seq(Req) : t = Tail(work.todo)
  BY ZenonT(30) DEF Publishing1
<1>5. t # <<>> /\ r \notin ToSet(t) /\ ToSet(work.todo) = {r} \cup ToSet(t)
  BY <1>4 DEF Publishing1
<1>6. Head(t) \in ToSet(t)
  <2>1. ToSet(t) = {Head(t)} \cup ToSet(Tail(t))
    BY <1>5, HeadTailMembers
  <2>. QED
    BY <2>1
<1>. QED
  BY <1>2, <1>3, <1>5, <1>6

\* So does a lane that is settled, the next one following.
LEMMA NextLaneSafe ==
  ASSUME Placed, Phases(req, work), BatchFrame, NEW r, Publishing1(r),
         NEW w, Leaves(w, r), Settled(r, w.req[r]), NextLane(w)
  PROVE  Safe
<1>1. work \in Works
  BY PlacedFacts
<1>2. CASE Len(work.todo) = 1 /\ FinishBatch(w)
  <2>1. ASSUME NEW x \in ToSet(work.batch) PROVE Settled(x, w.req[x])
    <3>1. x \in Req
      BY <1>1, WorkFacts
    <3>2. CASE x # r
      <4>1. x \notin ToSet(work.todo)
        BY <1>2, <3>2 DEF Publishing1
      <4>2. w.req[x] = req[x]
        BY <3>1, <3>2 DEF Leaves, Beside
      <4>. QED
        BY <4>1, <4>2 DEF Publishing1
    <3>. QED
      BY <3>2
  <2>2. Ends(w)
    BY <2>1 DEF Ends, Leaves
  <2>. QED
    BY <1>2, <2>2, FinishBatchSafe
<1>3. CASE Len(work.todo) # 1 /\ Apply(w) /\ work' = Passed(work) /\ lists' = lists
  <2>1. /\ work' \in Works /\ work'.pc = work.pc /\ work'.batch = work.batch
        /\ work'.ready = work.ready /\ work'.todo = Tail(work.todo)
        /\ \A x \in Req : x # Head(work.todo) => work'.step[x] = work.step[x]
    BY <1>1, <1>3, PassedIs DEF Publishing1
  <2>2. Len(work.ready) # 1
    BY <1>3, LoneLane
  <2>3. ToSet(work.todo) \subseteq Req
    BY <1>1, WorkFacts
  <2>4. Continues(work, work', r)
    BY <1>3, <2>1, <2>3 DEF Continues, Publishing1
  <2>5. Remains(work', r, w.req[r], w.lost)
    BY <2>1, <2>2 DEF Remains, Publishing1, Settled
  <2>. QED
    BY <1>3, <2>4, <2>5, StillPublishing
<1>. QED
  BY <1>2, <1>3, NextLaneSplit

\* A token of the lane was published.
Shorter(b, r) == [b EXCEPT !.step[r] = WithoutFirst(b.step[r])]

\* Run is left by an exception.
Terminated(b) == [b EXCEPT !.pc = "terminated"]

\* The unit whose lane meets its stop token.
LEMMA TerminatedIs ==
  ASSUME NEW b \in Works, NEW a, a = Terminated(b)
  PROVE  /\ a \in Works /\ a.pc = "terminated" /\ a.batch = b.batch /\ a.ready = b.ready
         /\ a.todo = b.todo /\ a.step = b.step
<1>1. "terminated" \in Counters
  BY DEF Counters
<1>. QED
  BY <1>1, ZenonT(30) DEF Works, Terminated

\* A result without its first token.
LEMMA WithoutFirstIs ==
  ASSUME NEW d \in Steps, d.kind = "tokens", d.toks # <<>>, NEW e, e = WithoutFirst(d)
  PROVE  e \in Steps /\ Rest(d, e) /\ d.toks \in Seq(Nat)
<1>1. d \in [kind : {"tokens"}, toks : Seq(Nat), stop : BOOLEAN, begun : BOOLEAN]
  BY DEF Steps
<1>2. PICK t : t = Tail(d.toks)
  BY ZenonT(30)
<1>3. t \in Seq(Nat) /\ d.toks \in Seq(Nat)
  BY <1>1, <1>2
<1>4. e = [d EXCEPT !.toks = t, !.begun = TRUE]
  BY <1>2 DEF WithoutFirst
<1>5. e \in [kind : {"tokens"}, toks : Seq(Nat), stop : BOOLEAN, begun : BOOLEAN]
      /\ e.kind = d.kind /\ e.toks = t /\ e.stop = d.stop
  BY <1>1, <1>3, <1>4, ZenonT(30)
<1>. QED
  BY <1>2, <1>3, <1>5 DEF Rest, Steps

\* A lane without its first token.
LEMMA ShorterIs ==
  ASSUME NEW b \in Works, NEW r \in Req, NEW d, d = b.step[r], d.kind = "tokens", d.toks # <<>>,
         NEW a, a = Shorter(b, r)
  PROVE  /\ a \in Works /\ a.pc = b.pc /\ a.batch = b.batch /\ a.ready = b.ready
         /\ a.todo = b.todo /\ Rest(d, a.step[r])
         /\ \A x \in Req : x # r => a.step[x] = b.step[x]
<1>1. PICK e : e = WithoutFirst(d)
  OBVIOUS
<1>2. e \in Steps /\ Rest(d, e)
  <2>1. d \in Steps
    BY WorkFacts
  <2>. QED
    BY <1>1, <2>1, WithoutFirstIs
<1>3. PICK s : s = [b.step EXCEPT ![r] = e]
  BY ZenonT(30)
<1>4. s \in [Req -> Steps] /\ s[r] = e /\ \A x \in Req : x # r => s[x] = b.step[x]
  BY <1>2, <1>3, WorkFacts
<1>5. a = [b EXCEPT !.step = s]
  BY <1>1, <1>3, ZenonT(30) DEF Shorter
<1>6. /\ a \in Works /\ a.pc = b.pc /\ a.batch = b.batch /\ a.ready = b.ready
      /\ a.todo = b.todo /\ a.step = s
  BY <1>4, <1>5, ZenonT(30) DEF Works
<1>. QED
  BY <1>2, <1>4, <1>6

\* A token of the lane, or the end of the request at it.
Publishes1(w, r) ==
  IF IsTerminal(w, r) THEN NextLane(w)
  ELSE Apply(w) /\ work' = Shorter(work, r) /\ lists' = lists

\* The request of the lane is not asked whether it was stopped.
Unasked(r, d) == ~(Len(work.ready) > 1 /\ ~d.begun /\ Stopped(World, r))

\* PublishLane fails, finishes, stops or publishes one token.
LEMMA PublishLaneSplit ==
  ASSUME PublishLane, NEW r, r = Head(work.todo), NEW d, d = work.step[r]
  PROVE  \/ d.kind \in {"error", "lost"} /\ NextLane(FailUnlessStopped(World, r, "error"))
         \/ /\ d.kind = "advanced" /\ work' = Terminated(work)
            /\ UNCHANGED <<req, budget, lost, lists>>
         \/ d.kind = "advanced" /\ NextLane(FinishAdvanced(World, r))
         \/ /\ d.kind = "tokens" /\ Stopped(World, r)
            /\ NextLane(CompleteIfStopped(World, r))
         \/ /\ d.kind = "tokens" /\ Unasked(r, d)
            /\ d.toks # <<>> /\ ~req[r].matched
            /\ \E w \in PublishDecodedSelection(World, r, Head(d.toks)) : Publishes1(w, r)
         \/ /\ d.kind = "tokens" /\ Unasked(r, d)
            /\ d.toks = <<>> \/ req[r].matched
            /\ NextLane(FinishDecoded(World, r, d.stop))
BY ZenonT(30) DEF PublishLane, Shorter, Terminated, Publishes1, Unasked

\* The lane of r ended with what a call left of it.
LEMMA LaneEnds ==
  ASSUME Placed, Phases(req, work), BatchFrame, NEW r, Publishing1(r), NEW w,
         Ran(World, r, No(w)), w.req[r].out # "misuse", Stream(r, w.req[r]),
         w.req[r].out = "none" => Calm(r, w.req[r]), NextLane(w)
  PROVE  Safe
<1>1. PICK s : s = No(w)
  OBVIOUS
<1>2. s.w = w /\ Ran(World, r, s)
  BY <1>1, NoIs, ZenonT(30)
<1>3. r \in Req /\ r \in ToSet(work.batch)
  BY DEF Publishing1
<1>4. /\ Leaves(s.w, r)
      /\ Stream(r, s.w.req[r]) => Whole(r, s.w.req[r])
      /\ Later(lost, s.w.lost)
  BY <1>2, <1>3, RanLeaves
<1>5. Settled(r, w.req[r])
  BY <1>2, <1>4 DEF Settled
<1>6. Leaves(w, r)
  BY <1>2, <1>4
<1>. QED
  BY <1>5, <1>6, NextLaneSafe

\* PublishLane keeps the placement and the phases.
LEMMA PublishLaneSafe ==
  ASSUME Placed, Phases(req, work), PublishLane
  PROVE  Safe
<1>1. PICK r : r = Head(work.todo)
  OBVIOUS
<1>2. PICK d : d = work.step[r]
  OBVIOUS
<1>3. work.pc = "publish" /\ BatchFrame
  BY DEF PublishLane, BatchFrame
<1>4. Publishing1(r)
  BY <1>1, <1>3, PublishingIs
<1>5. /\ r \in Req /\ r \in ToSet(work.batch) /\ req[r].out = "none"
      /\ Whole(r, req[r]) /\ Stream(r, req[r]) /\ Lane(r, req[r], d)
  BY <1>2, <1>4 DEF Publishing1, Whole
<1>6. /\ World \in Worlds /\ World.req = req /\ World.lost = lost /\ mode \in Modes
      /\ work \in Works /\ Batching(work, req, lost) /\ eos \in EosChoices
      /\ World.budget = budget
  BY PlacedFacts
<1>7. d \in Steps /\ TokenLimit[r] \in Nat
  BY <1>2, <1>5, <1>6, WorkFacts, EosFacts
<1>8. Len(work.ready) = 1 => lost # "probe"
  BY <1>3, <1>6 DEF Batching
<1>9. World.req[r].out = "none" /\ Stream(r, World.req[r]) /\ Lane(r, World.req[r], d)
  BY <1>5, <1>6
<1>10. CASE d.kind \in {"error", "lost"} /\ NextLane(FailUnlessStopped(World, r, "error"))
  <2>1. PICK f : f = "error"
    OBVIOUS
  <2>2. PICK w : w = FailUnlessStopped(World, r, f)
    OBVIOUS
  <2>3. PICK s : s = No(w)
    OBVIOUS
  <2>4. /\ Ran(World, r, s) /\ s.w.req[r].out \notin {"none", "misuse"}
        /\ Stream(r, World.req[r]) => Stream(r, s.w.req[r])
        /\ s.w.lost \in {World.lost, Probed(World.lost, f)}
    <3>1. f # "misuse" /\ s = No(FailUnlessStopped(World, r, f))
      BY <2>1, <2>2, <2>3
    <3>. QED
      BY <1>5, <1>6, <1>9, <3>1, FailUnlessStoppedRan
  <2>5. s.w = w
    BY <2>3, NoIs, ZenonT(30)
  <2>6. Ran(World, r, No(w)) /\ w.req[r].out \notin {"none", "misuse"} /\ Stream(r, w.req[r])
    BY <1>9, <2>3, <2>4, <2>5
  <2>7. NextLane(w)
    BY <1>10, <2>1, <2>2
  <2>. QED
    BY <1>3, <1>4, <2>6, <2>7, LaneEnds
<1>11. CASE /\ d.kind = "advanced" /\ work' = Terminated(work)
            /\ UNCHANGED <<req, budget, lost, lists>>
  <2>1. /\ work' \in Works /\ work'.pc = "terminated" /\ work'.batch = work.batch
        /\ work'.ready = work.ready /\ work'.todo = work.todo /\ work'.step = work.step
    BY <1>6, <1>11, TerminatedIs
  <2>2. PICK S : S = ToSet(work.batch)
    OBVIOUS
  <2>3. Treated(req, req, S, lost, lost)
    BY KeepsSelf DEF Treated
  <2>4. Leaves(World, r)
    BY <1>6, <2>2, <2>3 DEF Leaves, Beside
  <2>5. Apply(World) /\ lists' = lists
    BY <1>6, <1>11 DEF Apply
  <2>6. work.todo # <<>> /\ Distinct(work.todo) /\ r \in ToSet(work.todo)
    BY <1>3, <1>4, <1>6 DEF Batching, Publishing1
  <2>7. Continues(work, work', r)
    BY <2>1, <2>6 DEF Continues
  <2>8. Remains(work', r, World.req[r], World.lost)
    BY <1>2, <1>5, <1>6, <1>8, <1>11, <2>1, <2>6 DEF Remains, Begun
  <2>. QED
    BY <1>3, <1>4, <2>4, <2>5, <2>7, <2>8, StillPublishing
<1>12. CASE d.kind = "advanced" /\ NextLane(FinishAdvanced(World, r))
  <2>1. PICK w : w = FinishAdvanced(World, r)
    OBVIOUS
  <2>2. /\ Ran(World, r, No(w)) /\ w.req[r].out # "misuse"
        /\ \A e : Stream(r, World.req[r]) /\ Lane(r, World.req[r], e) /\ e.kind = "advanced" =>
             /\ Stream(r, w.req[r])
             /\ w.req[r].out = "none" => Calm(r, w.req[r])
    BY <1>5, <1>6, <1>7, <1>9, <2>1, FinishAdvancedIs
  <2>3. Stream(r, w.req[r]) /\ (w.req[r].out = "none" => Calm(r, w.req[r]))
    BY <1>9, <1>12, <2>2
  <2>4. NextLane(w)
    BY <1>12, <2>1
  <2>. QED
    BY <1>3, <1>4, <2>2, <2>3, <2>4, LaneEnds
<1>13. CASE /\ d.kind = "tokens" /\ Stopped(World, r)
            /\ NextLane(CompleteIfStopped(World, r))
  <2>1. PICK w : w = CompleteIfStopped(World, r)
    OBVIOUS
  <2>2. PICK s : s = No(w)
    OBVIOUS
  <2>3. /\ Ran(World, r, s) /\ ~s.ok /\ s.w.req[r].out \notin {"none", "misuse"}
        /\ s.w.lost = World.lost
        /\ Stream(r, World.req[r]) => Stream(r, s.w.req[r])
    <3>1. s = No(CompleteIfStopped(World, r))
      BY <2>1, <2>2
    <3>. QED
      BY <1>5, <1>6, <1>9, <1>13, <3>1, StoppedRan
  <2>4. s.w = w
    BY <2>2, NoIs, ZenonT(30)
  <2>5. Ran(World, r, No(w)) /\ w.req[r].out \notin {"none", "misuse"} /\ Stream(r, w.req[r])
    BY <1>9, <2>2, <2>3, <2>4
  <2>6. NextLane(w)
    BY <1>13, <2>1
  <2>. QED
    BY <1>3, <1>4, <2>5, <2>6, LaneEnds
<1>14. ASSUME d.kind = "tokens", Unasked(r, d)
       PROVE  World.lost # "probe"
  <2>1. CASE d.begun
    <3>1. Begun(work.step[r]) /\ r \in ToSet(work.todo)
      BY <1>2, <1>4, <1>14, <2>1 DEF Begun, Publishing1
    <3>. QED
      BY <1>3, <1>6, <3>1 DEF Batching
  <2>2. CASE ~Stopped(World, r)
    BY <2>2 DEF Stopped
  <2>3. CASE ~(Len(work.ready) > 1)
    <3>1. PICK n : n = Len(work.ready)
      BY ZenonT(30)
    <3>2. n \in Nat /\ n # 0
      <4>1. work.ready \in Seq(Req) /\ r \in ToSet(work.ready)
        BY <1>3, <1>4, <1>6, WorkFacts DEF Batching, Publishing1
      <4>2. work.ready # <<>>
        BY <4>1, ShortMembers
      <4>. QED
        BY <3>1, <4>1, <4>2, HeadTailMembers
    <3>3. n = 1 \/ n > 1
      BY <3>2, OneOrMore
    <3>. QED
      BY <1>6, <1>8, <2>3, <3>1, <3>3
  <2>. QED
    BY <1>14, <2>1, <2>2, <2>3 DEF Unasked
<1>15. CASE /\ d.kind = "tokens" /\ Unasked(r, d)
            /\ d.toks # <<>> /\ ~req[r].matched
            /\ \E w \in PublishDecodedSelection(World, r, Head(d.toks)) : Publishes1(w, r)
  <2>1. PICK w \in PublishDecodedSelection(World, r, Head(d.toks)) : Publishes1(w, r)
    BY <1>15
  <2>2. PICK e : e = WithoutFirst(d)
    OBVIOUS
  <2>3. e \in Steps /\ Rest(d, e) /\ d.toks \in Seq(Nat)
    BY <1>7, <1>15, <2>2, WithoutFirstIs
  <2>4. \A x : Rest(d, x) =>
          /\ Ran(World, r, No(w)) /\ w.req[r].out # "misuse" /\ w.lost = World.lost
          /\ Stream(r, World.req[r]) /\ Lane(r, World.req[r], d) /\ ~World.req[r].matched =>
               /\ Stream(r, w.req[r])
               /\ w.req[r].out = "none" => Lane(r, w.req[r], x)
    <3>1. ASSUME NEW x, Rest(d, x)
          PROVE  /\ Ran(World, r, No(w)) /\ w.req[r].out # "misuse" /\ w.lost = World.lost
                 /\ Stream(r, World.req[r]) /\ Lane(r, World.req[r], d) /\ ~World.req[r].matched =>
                      /\ Stream(r, w.req[r])
                      /\ w.req[r].out = "none" => Lane(r, w.req[r], x)
      BY <1>5, <1>6, <1>7, <1>9, <1>15, <2>1, <2>3, <3>1, PublishDecodedSelectionIs
    <3>. QED
      BY <3>1
  <2>5. /\ Ran(World, r, No(w)) /\ w.req[r].out # "misuse" /\ w.lost = World.lost
        /\ Stream(r, w.req[r])
        /\ w.req[r].out = "none" => \A x : Rest(d, x) => Lane(r, w.req[r], x)
    BY <1>6, <1>9, <1>15, <2>3, <2>4
  <2>6. CASE w.req[r].out # "none"
    <3>1. NextLane(w)
      BY <2>1, <2>6 DEF Publishes1, IsTerminal
    <3>. QED
      BY <1>3, <1>4, <2>5, <2>6, <3>1, LaneEnds
  <2>7. CASE w.req[r].out = "none"
    <3>1. Apply(w) /\ work' = Shorter(work, r) /\ lists' = lists
      BY <2>1, <2>7 DEF Publishes1, IsTerminal
    <3>2. /\ work' \in Works /\ work'.pc = work.pc /\ work'.batch = work.batch
          /\ work'.ready = work.ready
          /\ work'.todo = work.todo /\ Rest(d, work'.step[r])
          /\ \A x \in Req : x # r => work'.step[x] = work.step[x]
      BY <1>2, <1>5, <1>6, <1>15, <3>1, ShorterIs
    <3>3. PICK s : s = No(w)
      OBVIOUS
    <3>4. s.w = w /\ Ran(World, r, s)
      BY <2>5, <3>3, NoIs, ZenonT(30)
    <3>5. /\ Leaves(s.w, r)
          /\ Stream(r, s.w.req[r]) => Whole(r, s.w.req[r])
          /\ Later(lost, s.w.lost)
      BY <1>5, <2>5, <3>4, RanLeaves
    <3>6. Whole(r, w.req[r]) /\ Leaves(w, r)
      BY <2>5, <3>4, <3>5
    <3>7. /\ work.todo # <<>> /\ Distinct(work.todo) /\ r \in ToSet(work.todo)
          /\ ToSet(work.todo) \subseteq Req
      BY <1>3, <1>4, <1>6, WorkFacts DEF Batching, Publishing1
    <3>8. Continues(work, work', r)
      BY <1>3, <3>2, <3>7 DEF Continues
    <3>9. Remains(work', r, w.req[r], w.lost)
      <4>1. r = Head(work'.todo) /\ w.lost # "probe"
        BY <1>1, <1>14, <1>15, <2>5, <3>2
      <4>. QED
        BY <1>6, <1>8, <2>5, <2>7, <3>2, <3>6, <3>7, <4>1 DEF Remains
    <3>. QED
      BY <1>3, <1>4, <3>1, <3>6, <3>8, <3>9, StillPublishing
  <2>. QED
    BY <2>6, <2>7
<1>16. CASE /\ d.kind = "tokens" /\ Unasked(r, d)
            /\ d.toks = <<>> \/ req[r].matched
            /\ NextLane(FinishDecoded(World, r, d.stop))
  <2>1. PICK w : w = FinishDecoded(World, r, d.stop)
    OBVIOUS
  <2>2. World.lost # "probe"
    BY <1>14, <1>16
  <2>3. d.toks = <<>> \/ World.req[r].matched
    BY <1>6, <1>16
  <2>4. /\ Ran(World, r, No(w)) /\ w.req[r].out # "misuse"
        /\ Stream(r, World.req[r]) /\ Lane(r, World.req[r], d) /\ d.kind = "tokens" =>
             /\ Stream(r, w.req[r])
             /\ w.req[r].out = "none" => Calm(r, w.req[r])
    BY <1>5, <1>6, <1>7, <1>9, <2>1, <2>2, <2>3, FinishDecodedIs
  <2>5. Stream(r, w.req[r]) /\ (w.req[r].out = "none" => Calm(r, w.req[r]))
    BY <1>9, <1>16, <2>4
  <2>6. NextLane(w)
    BY <1>16, <2>1
  <2>. QED
    BY <1>3, <1>4, <2>4, <2>5, <2>6, LaneEnds
<1>. QED
  BY <1>1, <1>2, <1>10, <1>11, <1>12, <1>13, <1>15, <1>16, PublishLaneSplit

(***************************************************************************)
(* The phases, in every step                                               *)
(***************************************************************************)

\* Where the worker runs a batch.
Batched == {"prepare", "publish", "terminated"}

\* Every request's output is settled.
AllSettled(f) == \A r \in Req : Settled(r, f[r])

\* Outside a batch that is what the phases say.
LEMMA AllSettledIs ==
  ASSUME NEW b, b.pc \notin Batched, NEW f
  PROVE  Phases(f, b) <=> AllSettled(f)
<1>1. \A r : ~Stepped(b, r) /\ ~Readied(b, r) /\ ~Joined(b, r)
  BY DEF Batched, Stepped, Readied, Joined
<1>2. \A r \in Req : Phase(r, f[r], b) <=> Settled(r, f[r])
  BY <1>1, SettledPhase
<1>3. b.pc # "prepare"
  BY DEF Batched
<1>. QED
  BY <1>2, <1>3 DEF Phases, AllSettled

\* A settled request stays so.
LEMMA SettledFate ==
  ASSUME NEW r, NEW q, NEW p, NEW k, Settled(r, q), Fate(r, q, p, k)
  PROVE  Settled(r, p)
<1>1. CASE Level(q, p)
  <2>1. Stream(r, p) /\ p.out = q.out
    BY <1>1, LevelFacts DEF Settled, Whole, Level
  <2>2. Calm(r, q) => Calm(r, p)
    BY <1>1, LevelFacts
  <2>3. Over(q) => Over(p)
    BY <1>1, LevelFacts
  <2>. QED
    BY <2>1, <2>2, <2>3 DEF Settled, Whole
<1>2. CASE Ending(q, p, k) /\ (Stream(r, q) => Stream(r, p))
  <2>1. Stream(r, p)
    BY <1>2 DEF Settled, Whole
  <2>. QED
    BY <1>2, <2>1, EndedWhole
<1>. QED
  BY <1>1, <1>2 DEF Fate

\* No lease goes back to a device that a probe showed to be dead.
Leases == \A r \in Req : Spared(req[r], req'[r], lost', lost)

\* What every step establishes.
Kept == Placed' /\ Phases(req', work') /\ Leases

\* A step of a batch keeps the invariant.
LEMMA SafeKept ==
  ASSUME Safe
  PROVE  Kept
BY DEF Safe, Kept, Treated, Leases

\* Steps of the worker between two batches.
LEMMA FatedKept ==
  ASSUME Placed', Phases(req, work), work.pc \notin Batched, work'.pc \notin Batched,
         NEW S, Fated(req, req', S, lost')
  PROVE  Kept
<1>1. AllSettled(req)
  BY AllSettledIs
<1>2. AllSettled(req')
  <2>1. ASSUME NEW r \in Req PROVE Settled(r, req'[r])
    <3>1. Settled(r, req[r]) /\ Fate(r, req[r], req'[r], lost')
      BY <1>1 DEF AllSettled, Fated
    <3>. QED
      BY <3>1, SettledFate
  <2>. QED
    BY <2>1 DEF AllSettled
<1>3. Phases(req', work')
  BY <1>2, AllSettledIs
<1>4. Leases
  BY FatedTreated DEF Treated, Leases
<1>. QED
  BY <1>3, <1>4 DEF Kept

\* BeginLoop keeps the invariant.
LEMMA BeginLoopKept ==
  ASSUME Placed, Phases(req, work), BeginLoop
  PROVE  Kept
<1>1. Placed' /\ Fated(req, req', QueuedIn(clients) \cup Members(lists), lost')
  BY BeginLoopPlaced, BeginLoopIs
<1>2. "admit" \in Counters /\ work' = Advance(work, "admit") /\ work.pc = "top"
  BY DEF BeginLoop, Advance, Counters
<1>3. work'.pc = "admit"
  BY <1>2, AdvanceIs, PlacedFacts
<1>4. work.pc \notin Batched /\ work'.pc \notin Batched
  BY <1>2, <1>3 DEF Batched
<1>. QED
  BY <1>1, <1>4, FatedKept

\* Acquire keeps the invariant.
LEMMA AcquireKept ==
  ASSUME Placed, Phases(req, work), Acquire
  PROVE  Kept
<1>1. Placed' /\ Fated(req, req', ToSet(work.batch), lost')
  BY AcquirePlaced, AcquireIs
<1>2. work' = Clearing(work, "admit") /\ work.pc = "acquire"
  BY DEF Acquire, Clearing
<1>3. work'.pc = "admit"
  BY <1>2, PlacedFacts, ClearingIs DEF Counters
<1>4. work.pc \notin Batched /\ work'.pc \notin Batched
  BY <1>2, <1>3 DEF Batched
<1>. QED
  BY <1>1, <1>4, FatedKept

\* StepPrefill keeps the invariant.
LEMMA StepPrefillKept ==
  ASSUME Placed, Phases(req, work), StepPrefill
  PROVE  Kept
<1>1. /\ Placed'
      /\ Fated(req, req', QueuedIn(clients) \cup Members(lists) \cup ToSet(work.batch), lost')
  BY StepPrefillPlaced, StepPrefillIs
<1>2. work' = Emptied(work) /\ work.pc = "prefill"
  BY DEF StepPrefill, Emptied
<1>3. work'.pc = "top"
  BY <1>2, PlacedFacts, EmptiedIs
<1>4. work.pc \notin Batched /\ work'.pc \notin Batched
  BY <1>2, <1>3 DEF Batched
<1>. QED
  BY <1>1, <1>4, FatedKept

\* CancelRemaining keeps the invariant.
LEMMA CancelRemainingKept ==
  ASSUME Placed, Phases(req, work), CancelRemaining
  PROVE  Kept
<1>1. Placed' /\ Fated(req, req', QueuedIn(clients) \cup Members(lists), lost')
  BY CancelRemainingPlaced, CancelRemainingIs
<1>2. work' = Advance(work, "done") /\ work.pc = "drain"
  BY DEF CancelRemaining, Advance
<1>3. work'.pc = "done"
  <2>1. "done" \in Counters
    BY DEF Counters
  <2>. QED
    BY <1>2, <2>1, AdvanceIs, PlacedFacts
<1>4. work.pc \notin Batched /\ work'.pc \notin Batched
  BY <1>2, <1>3 DEF Batched
<1>. QED
  BY <1>1, <1>4, FatedKept

\* The worker's steps that touch no request keep the invariant.
LEMMA IdlingKept ==
  ASSUME Placed, Phases(req, work), Idling
  PROVE  Kept
<1>1. PICK p \in Between \ {"done"} : work' = Advance(work, p)
  BY IdlingIs
<1>2. p \in Counters /\ p \notin Batched
  BY <1>1 DEF Between, Counters, Batched
<1>3. work'.pc = p
  BY <1>1, <1>2, AdvanceIs, PlacedFacts
<1>4. work.pc \notin Batched /\ req' = req
  BY IdlingIs DEF Between, Batched
<1>5. Fated(req, req', {}, lost')
  BY <1>4, FatedSelf
<1>. QED
  BY <1>2, <1>3, <1>4, <1>5, IdlingStepPlaced, FatedKept

\* ChoosePrefill keeps the invariant.
LEMMA ChoosePrefillKept ==
  ASSUME Placed, Phases(req, work), ChoosePrefill
  PROVE  Kept
<1>1. work.pc = "admit" /\ req' = req
  BY DEF ChoosePrefill
<1>2. work'.pc = "prefill"
  BY ChoosePrefillIs
<1>3. work.pc \notin Batched /\ work'.pc \notin Batched
  BY <1>1, <1>2 DEF Batched
<1>4. Fated(req, req', {}, lost')
  BY <1>1, FatedSelf
<1>. QED
  BY <1>3, <1>4, ChoosePrefillPlaced, FatedKept

\* AdmitNext keeps the invariant.
LEMMA AdmitNextKept ==
  ASSUME Placed, Phases(req, work), AdmitNext
  PROVE  Kept
<1>1. /\ work.pc = "admit" /\ lost' = lost /\ \E f, r, B : Admits(f, r, B)
  BY AdmitNextIs
<1>2. PICK f, r, B : Admits(f, r, B)
  BY <1>1
<1>3. /\ f \in [Req -> Requests] /\ Beside(req, f, r) /\ (f = req \/ Popped(req[r], f[r]))
      /\ r \in Req
      /\ Placement(f, QueuedIn(clients'), lists, B) /\ Seating(f)
      /\ Fated(f, req', QueuedIn(clients') \cup Members(lists) \cup B, lost')
  BY <1>2 DEF Admits
<1>4. work' = work \/ work'.pc = "acquire"
  BY <1>2 DEF Admits
<1>5. work.pc \notin Batched /\ work'.pc \notin Batched
  BY <1>1, <1>4 DEF Batched
<1>6. AllSettled(req)
  BY <1>5, AllSettledIs
<1>7. ASSUME NEW x \in Req
      PROVE  Settled(x, f[x]) /\ f[x].lease = req[x].lease
  <2>1. Settled(x, req[x])
    BY <1>6 DEF AllSettled
  <2>2. CASE f[x] = req[x]
    BY <2>1, <2>2
  <2>3. CASE f[x] # req[x]
    <3>1. x = r /\ Popped(req[x], f[x])
      BY <1>3, <2>3 DEF Beside
    <3>2. (Stream(x, req[x]) => Stream(x, f[x])) /\ (Calm(x, req[x]) => Calm(x, f[x]))
      BY <3>1, PoppedFacts
    <3>3. f[x].out # "none" => ~f[x].counted /\ f[x].session = 0
      BY <1>3 DEF Placement, Seating
    <3>4. /\ f[x].out = req[x].out /\ f[x].lease = req[x].lease
          /\ f[x].held = req[x].held /\ f[x].matched = req[x].matched
      BY <3>1 DEF Popped
    <3>. QED
      BY <2>1, <3>2, <3>3, <3>4 DEF Settled, Whole, Over
  <2>. QED
    BY <2>2, <2>3
<1>8. ASSUME NEW x \in Req
      PROVE  Settled(x, req'[x]) /\ Spared(req[x], req'[x], lost', lost)
  <2>1. Fate(x, f[x], req'[x], lost')
    BY <1>3 DEF Fated
  <2>2. Settled(x, req'[x])
    BY <1>7, <2>1, SettledFate
  <2>3. PICK S : S = QueuedIn(clients') \cup Members(lists) \cup B
    BY ZenonT(30)
  <2>4. Fated(f, req', S, lost')
    BY <1>3, <2>3
  <2>5. \A m : Treated(f, req', S, lost', m)
    BY <2>4, FatedTreated
  <2>6. \A m : Spared(f[x], req'[x], lost', m)
    BY <2>5 DEF Treated
  <2>7. f[x].lease = "held" /\ req'[x].lease = "returned" => lost' # "probe"
    BY <2>1 DEF Fate, Ending
  <2>. QED
    BY <1>7, <2>2, <2>7 DEF Spared
<1>9. Phases(req', work')
  <2>1. AllSettled(req')
    BY <1>8 DEF AllSettled
  <2>. QED
    BY <1>5, <2>1, AllSettledIs
<1>. QED
  BY <1>8, <1>9, AdmitNextPlaced DEF Kept, Leases

\* ChooseDecode keeps the invariant.
LEMMA ChooseDecodeKept ==
  ASSUME Placed, Phases(req, work), ChooseDecode
  PROVE  Kept
<1>0. PICK P : P = PoppedBatch
  OBVIOUS
<1>1. /\ work'.pc = "prepare" /\ work'.batch = P /\ work'.todo = P /\ work'.ready = <<>>
      /\ work' \in Works /\ (work'.multi <=> UsesMultiToken(P)) /\ P \in Seq(Req) /\ P # <<>>
      /\ \A r \in Req : Level(req[r], req'[r]) /\ req'[r].lease = req[r].lease
  BY <1>0, ChooseDecodeIs
<1>2. work.pc = "admit"
  BY DEF ChooseDecode
<1>3. AllSettled(req)
  <2>1. work.pc \notin Batched
    BY <1>2 DEF Batched
  <2>. QED
    BY <2>1, AllSettledIs
<1>4. ASSUME NEW r \in Req
      PROVE  Phase(r, req'[r], work') /\ Spared(req[r], req'[r], lost', lost)
  <2>1. Settled(r, req[r]) /\ Level(req[r], req'[r]) /\ req'[r].lease = req[r].lease
    BY <1>1, <1>3 DEF AllSettled
  <2>2. Fate(r, req[r], req'[r], lost')
    BY <2>1, FateLevel
  <2>3. Settled(r, req'[r])
    BY <2>1, <2>2, SettledFate
  <2>4. ~Stepped(work', r) /\ ~Readied(work', r)
    BY <1>1, ShortMembers DEF Stepped, Readied
  <2>5. ASSUME Joined(work', r), req'[r].out = "none"
        PROVE  ~req'[r].selected
    <3>1. UsesMultiToken(P) /\ r \in ToSet(P)
      BY <1>1, <2>5 DEF Joined
    <3>2. Calm(r, req'[r]) /\ req'[r].advancing = req[r].advancing
      BY <2>1, <2>3, <2>5 DEF Settled, Level
    <3>3. CASE mode.batched
      BY <3>2, <3>3 DEF Calm
    <3>4. CASE Len(P) = 1 /\ ~req[Head(P)].advancing
      <4>1. Tail(P) = <<>> /\ ToSet(P) = {Head(P)} \cup ToSet(Tail(P))
        BY <1>1, <3>4, HeadTailMembers
      <4>2. r = Head(P)
        BY <3>1, <4>1, ShortMembers, ZenonT(30)
      <4>. QED
        BY <3>2, <3>4, <4>2 DEF Calm
    <3>. QED
      BY <3>1, <3>3, <3>4 DEF UsesMultiToken
  <2>. QED
    BY <2>1, <2>3, <2>4, <2>5 DEF Phase, Settled, Spared
<1>5. ~work'.multi => ~mode.batched
  BY <1>1 DEF UsesMultiToken
<1>6. Phases(req', work')
  BY <1>4, <1>5 DEF Phases
<1>7. Leases
  BY <1>4 DEF Leases
<1>. QED
  BY <1>6, <1>7, ChooseDecodePlaced DEF Kept

\* A request that is only disturbed stays in its phase.
LEMMA TouchedPhase ==
  ASSUME NEW r, NEW q, NEW p, NEW b, Phase(r, q, b), Touched(q, p), Stream(r, q) => Stream(r, p)
  PROVE  Phase(r, p, b)
<1>1. /\ Calm(r, q) => Calm(r, p)
      /\ Chosen(r, q) => Chosen(r, p)
      /\ Lane(r, q, b.step[r]) => Lane(r, p, b.step[r])
      /\ Over(q) => Over(p)
  BY TouchedFacts
<1>2. p.out = q.out /\ p.selected = q.selected
  BY DEF Touched
<1>. QED
  BY <1>1, <1>2 DEF Phase, Whole

\* The clients, the clock and the device keep the invariant.
LEMMA DisturbanceKept ==
  ASSUME Placed, Phases(req, work), Disturbance
  PROVE  Kept
<1>1. /\ work' = work
      /\ \A x \in Req : req'[x] = req[x] \/ Disturbed(x, req[x], req'[x])
  BY DisturbanceIs DEF Outside
<1>2. ASSUME NEW r \in Req
      PROVE  Phase(r, req'[r], work) /\ req'[r].lease = req[r].lease
  <2>1. Phase(r, req[r], work)
    BY DEF Phases
  <2>2. CASE req'[r] = req[r]
    BY <2>1, <2>2
  <2>3. CASE Disturbed(r, req[r], req'[r])
    <3>1. Touched(req[r], req'[r]) /\ (Stream(r, req[r]) => Stream(r, req'[r]))
      BY <2>3 DEF Disturbed
    <3>2. Phase(r, req'[r], work)
      BY <2>1, <3>1, TouchedPhase
    <3>. QED
      BY <3>1, <3>2 DEF Touched
  <2>. QED
    BY <1>1, <2>2, <2>3
<1>3. Phases(req', work')
  BY <1>1, <1>2 DEF Phases
<1>4. Leases
  BY <1>2 DEF Leases, Spared
<1>. QED
  BY <1>3, <1>4, DisturbancePlaced DEF Kept

\* A request that was never worked on, or is gone, is settled.
LEMMA BlankPhase ==
  ASSUME Placed, NEW r \in Req, r \notin ToSet(work.batch), NEW q, Blank(q),
         q.out = "none" \/ q.out = "ended"
  PROVE  Phase(r, q, work)
<1>1. q.out \in {"none", "ended"}
  OBVIOUS
<1>2. Stream(r, q) /\ Calm(r, q) /\ Over(q)
  BY <1>1, BlankFacts
<1>3. Settled(r, q)
  BY <1>1, <1>2 DEF Settled, Whole
<1>4. ~Stepped(work, r) /\ ~Readied(work, r) /\ ~Joined(work, r)
  BY PlacedFacts, OutsideBatch
<1>. QED
  BY <1>3, <1>4, SettledPhase

\* A step outside the unit that changes one request.
LEMMA LonePhase ==
  ASSUME Phases(req, work), work' = work, NEW r, Beside(req, req', r),
         r \in Req => Phase(r, req'[r], work)
  PROVE  Phases(req', work')
<1>1. ASSUME NEW x \in Req PROVE Phase(x, req'[x], work)
  <2>1. CASE x = r
    BY <2>1
  <2>2. CASE x # r
    <3>1. req'[x] = req[x]
      BY <2>2 DEF Beside
    <3>. QED
      BY <3>1 DEF Phases
  <2>. QED
    BY <2>1, <2>2
<1>. QED
  BY <1>1 DEF Phases

\* Submit keeps the invariant.
LEMMA SubmitKept ==
  ASSUME Placed, Phases(req, work), NEW r \in Req, Submit(r)
  PROVE  Kept
<1>1. /\ Beside(req, req', r) /\ Blank(req'[r]) /\ req'[r].out = "none"
      /\ req[r].handle = "none" /\ Blank(req[r])
  BY SubmitIs
<1>2. r \notin ToSet(work.batch)
  BY <1>1, PlacedFacts DEF Placement
<1>3. work' = work
  BY DEF Submit, Outside
<1>4. Phase(r, req'[r], work)
  BY <1>1, <1>2, BlankPhase
<1>5. Phases(req', work')
  BY <1>1, <1>3, <1>4, LonePhase
<1>6. Leases
  BY <1>1 DEF Leases, Spared, Beside, Blank
<1>. QED
  BY <1>5, <1>6, SubmitPlaced DEF Kept

\* Destroy keeps the invariant.
LEMMA DestroyKept ==
  ASSUME Placed, Phases(req, work), NEW r \in Req, Destroy(r)
  PROVE  Kept
<1>1. /\ Beside(req, req', r) /\ Blank(req'[r]) /\ req'[r].out = "ended"
      /\ r \notin QueuedIn(clients) \cup Members(lists) \cup ToSet(work.batch)
  BY DestroyIs
<1>2. r \notin ToSet(work.batch)
  BY <1>1
<1>3. work' = work
  BY DEF Destroy, Outside
<1>4. Phase(r, req'[r], work)
  BY <1>1, <1>2, BlankPhase
<1>5. Phases(req', work')
  BY <1>1, <1>3, <1>4, LonePhase
<1>6. Leases
  BY <1>1 DEF Leases, Spared, Beside, Blank
<1>. QED
  BY <1>5, <1>6, DestroyPlaced DEF Kept

\* A stuttering step keeps the invariant.
LEMMA StutterKept ==
  ASSUME Placed, Phases(req, work), UNCHANGED vars
  PROVE  Kept
<1>1. Placed'
  BY DEF vars, Placed, World, Seating
<1>2. Phases(req', work') /\ Leases
  BY DEF vars, Leases, Spared
<1>. QED
  BY <1>1, <1>2 DEF Kept

\* Every step of the scheduler, of its clients and of the monitor.
LEMMA NextKept ==
  ASSUME Placed, Phases(req, work), [Next]_vars
  PROVE  Kept
<1>1. CASE BeginLoop
  BY <1>1, BeginLoopKept
<1>2. CASE AdmitNext
  BY <1>2, AdmitNextKept
<1>3. CASE Acquire
  BY <1>3, AcquireKept
<1>4. CASE Idling
  BY <1>4, IdlingKept
<1>5. CASE ChoosePrefill
  BY <1>5, ChoosePrefillKept
<1>6. CASE ChooseDecode
  BY <1>6, ChooseDecodeKept
<1>7. CASE StepPrefill
  BY <1>7, StepPrefillKept
<1>8. CASE PrepareRequest
  BY <1>8, PrepareRequestSafe, SafeKept
<1>9. CASE ExecuteBatch
  BY <1>9, ExecuteBatchSafe, SafeKept
<1>10. CASE PublishLane
  BY <1>10, PublishLaneSafe, SafeKept
<1>11. CASE CancelRemaining
  BY <1>11, CancelRemainingKept
<1>12. CASE Disturbance
  BY <1>12, DisturbanceKept
<1>13. CASE \E r \in Req : Submit(r)
  BY <1>13, SubmitKept
<1>14. CASE \E r \in Req : Destroy(r)
  BY <1>14, DestroyKept
<1>15. CASE UNCHANGED vars
  BY <1>15, StutterKept
<1>16. Worker => \/ BeginLoop \/ AdmitNext \/ Acquire \/ Idling \/ ChoosePrefill \/ ChooseDecode
                 \/ StepPrefill \/ PrepareRequest \/ ExecuteBatch \/ PublishLane
                 \/ CancelRemaining
  BY DEF Worker, Idling
<1>17. Next => \/ Worker \/ Disturbance \/ (\E r \in Req : Submit(r))
               \/ (\E r \in Req : Destroy(r))
  BY DEF Next, Disturbance
<1>. QED
  BY <1>1, <1>2, <1>3, <1>4, <1>5, <1>6, <1>7, <1>8, <1>9, <1>10, <1>11, <1>12,
     <1>13, <1>14, <1>15, <1>16, <1>17

\* What the runner pool offers is fixed.
LEMMA ModeFixed ==
  ASSUME [Next]_vars
  PROVE  mode' = mode
<1>1. Outside => mode' = mode
  BY DEF Outside
<1>2. ASSUME NEW r \in Req, \/ Submit(r) \/ TakePiece(r) \/ DropHandle(r) \/ Destroy(r)
                            \/ Expire(r) \/ CaptureDone(r)
      PROVE  Outside
  BY <1>2 DEF Submit, TakePiece, DropHandle, Destroy, Expire, CaptureDone
<1>3. Stop \/ MonitorStalls => Outside
  BY DEF Stop, MonitorStalls
<1>4. ListFrame => mode' = mode
  BY DEF ListFrame
<1>5. BeginLoop \/ AdmitNext \/ Acquire \/ LeaveLoop \/ BeginCapture => ListFrame
  BY DEF BeginLoop, AdmitNext, Acquire, LeaveLoop, BeginCapture
<1>6. NothingToRun \/ IdleReturns \/ PollDevice \/ ChoosePrefill \/ ChooseDecode => ListFrame
  BY ZenonT(30) DEF NothingToRun, IdleReturns, PollDevice, ChoosePrefill, ChooseDecode
<1>7. StepPrefill \/ PrepareRequest \/ ExecuteBatch \/ PublishLane \/ CancelRemaining => ListFrame
  BY ZenonT(30) DEF StepPrefill, PrepareRequest, ExecuteBatch, PublishLane, CancelRemaining
<1>. QED
  BY <1>1, <1>2, <1>3, <1>4, <1>5, <1>6, <1>7 DEF Next, Worker, vars

\* Requests are where they belong, and in the phase of their work unit.
Scheduled == Placed /\ Phases(req, work)

\* Every request is in one place, and its published, withheld and undelivered output is
\* what the model produced, in every state of TextGenerationScheduler's worker and its
\* clients.
THEOREM SchedulerInvariant == Spec => []Scheduled
<1>1. ASSUME Init PROVE Scheduled
  <2>1. Placed
    BY <1>1, PlacedInit
  <2>2. work.pc \notin Batched
    BY <1>1, IdleIs DEF Init, Batched
  <2>3. ASSUME NEW r \in Req PROVE Settled(r, req[r])
    <3>1. req[r] = FreshRequest
      BY <1>1 DEF Init
    <3>2. Blank(req[r]) /\ req[r].out = "none"
      BY <3>1, FreshIs
    <3>3. req[r].out \in {"none", "ended"}
      BY <3>2
    <3>4. Stream(r, req[r]) /\ Calm(r, req[r])
      BY <3>2, <3>3, BlankFacts
    <3>. QED
      BY <3>2, <3>4 DEF Settled, Whole
  <2>4. AllSettled(req)
    BY <2>3 DEF AllSettled
  <2>5. Phases(req, work)
    BY <2>2, <2>4, AllSettledIs
  <2>. QED
    BY <2>1, <2>5 DEF Scheduled
<1>2. ASSUME Scheduled, [Next]_vars PROVE Scheduled'
  <2>1. Placed' /\ Phases(req', work')
    BY <1>2, NextKept DEF Scheduled, Kept
  <2>2. mode' = mode
    BY <1>2, ModeFixed
  <2>3. Phases(req, work)'
    BY <2>1, <2>2, PhasesPrimed
  <2>. QED
    BY <2>1, <2>3 DEF Scheduled
<1>. QED
  BY <1>1, <1>2, PTL DEF Spec

(***************************************************************************)
(* What follows from the invariant                                         *)
(***************************************************************************)

\* What the buffered pieces of a request cost, as the property says it.
LEMMA PiecesCost ==
  ASSUME NEW r \in Req
  PROVE  FoldLeft(LAMBDA n, t : n + Cost(t), 0, req[r].pieces) = CostOf(req[r].pieces)
BY ZenonT(30) DEF CostOf

\* The placement has the budget.
LEMMA BudgetIs ==
  ASSUME Placed
  PROVE  BudgetExact
<1>1. /\ World \in Worlds /\ World.req = req /\ World.budget = budget
      /\ req \in [Req -> Requests]
  BY PlacedFacts
<1>2. budget = SumOf(Buffers(req), Req) /\ budget <= MaxTotal
  BY <1>1, WorldFacts
<1>3. MapThenSumSet(LAMBDA r : req[r].buffered, Req) = SumOf(Buffers(req), Req)
  BY <1>1, BufferedSum, ZenonT(30)
<1>4. budget = MapThenSumSet(LAMBDA r : req[r].buffered, Req)
  BY <1>2, <1>3
<1>5. ASSUME NEW r \in Req
      PROVE  req[r].buffered = FoldLeft(LAMBDA n, t : n + Cost(t), 0, req[r].pieces)
  <2>1. req[r].buffered = CostOf(req[r].pieces)
    BY <1>1, RequestFacts
  <2>. QED
    BY <2>1, PiecesCost, ZenonT(30)
<1>. QED
  BY <1>2, <1>4, <1>5, ZenonT(30) DEF BudgetExact

\* The placement has the sessions.
LEMMA SessionsAre ==
  ASSUME Placed
  PROVE  SessionsExact
BY PlacedFacts DEF Seating, SessionsExact

\* The placement loses no request.
LEMMA NoneLost ==
  ASSUME Placed
  PROVE  NoRequestLost
<1>1. SUFFICES ASSUME work.pc = "done", NEW r \in Req, req[r].handle # "none"
               PROVE  req[r].out # "none"
  BY DEF NoRequestLost
<1>2. QueuedIn(clients) \cup Members(lists) = {}
  BY <1>1 DEF Placed, Draining
<1>3. work.batch = <<>>
  BY <1>1 DEF Placed, Batching, Between
<1>4. ToSet(work.batch) = {}
  BY <1>3, ShortMembers
<1>5. req \in [Req -> Requests]
  BY PlacedFacts
<1>6. req[r].handle \in {"none", "held", "dropped", "gone"}
  BY <1>5 DEF Requests, Records
<1>. QED
  BY <1>1, <1>2, <1>4, <1>6 DEF Placed, Placement

\* The beginning of a text.
LEMMA TextPrefix ==
  ASSUME NEW s \in Seq(Nat), NEW t \in Seq(Nat)
  PROVE  IsPrefix(s, s \o t) /\ s \o <<>> = s
<1>1. s \o t \in Seq(Nat) /\ Len(s) \in Nat /\ Len(t) \in Nat /\ Len(s \o t) = Len(s) + Len(t)
  OBVIOUS
<1>2. Len(s) <= Len(s \o t)
  BY <1>1
<1>3. SubSeq(s, 1, Len(s)) = SubSeq(s \o t, 1, Len(s))
  OBVIOUS
<1>4. s \o <<>> = s
  OBVIOUS
<1>. QED
  BY <1>2, <1>3, <1>4 DEF IsPrefix

\* What a consumer has or can take is the beginning of the model's output, all
\* of it once its request has completed.
LEMMA SentIs ==
  ASSUME NEW r \in Req, NEW q \in Requests, Whole(r, q), q.listening
  PROVE  /\ IsPrefix(Sent(q), q.tokens)
         /\ (q.out \in {"stop", "length"} /\ r \in Streamed) => Sent(q) = q.tokens
<1>1. /\ q.tokens \in Seq(Nat) /\ q.delivered \in Seq(Nat) /\ q.held \in Seq(Nat)
      /\ Flat(q.pieces) \in Seq(Nat) /\ Sent(q) \in Seq(Nat)
  BY TextFacts
<1>2. CASE r \notin Streamed
  <2>1. q.delivered = <<>> /\ q.pieces = <<>>
    BY <1>2 DEF Whole, Stream
  <2>2. Flat(q.pieces) = <<>>
    BY <2>1, PiecesEmpty
  <2>3. Sent(q) = <<>>
    BY <2>1, <2>2 DEF Sent
  <2>4. <<>> \in Seq(Nat) /\ <<>> \o q.tokens = q.tokens
    BY <1>1
  <2>5. IsPrefix(<<>>, <<>> \o q.tokens)
    BY <1>1, <2>4, TextPrefix, ZenonT(30)
  <2>. QED
    BY <1>2, <2>3, <2>4, <2>5
<1>3. CASE r \in Streamed
  <2>1. PICK gap \in Seq(Nat) :
          /\ (Sent(q) \o q.held) \o gap = q.tokens
          /\ (q.out \in {"none", "stop", "length"} /\ ~q.matched) => gap = <<>>
    BY <1>3, ZenonT(30) DEF Whole, Stream
  <2>2. q.held \o gap \in Seq(Nat) /\ Sent(q) \o (q.held \o gap) = q.tokens
    <3>1. (Sent(q) \o q.held) \o gap = Sent(q) \o (q.held \o gap)
      BY <1>1, TextAssociative, ZenonT(30)
    <3>2. q.held \o gap \in Seq(Nat)
      BY <1>1, ConcatMembers
    <3>3. (Sent(q) \o q.held) \o gap = q.tokens
      BY <2>1
    <3>. QED
      BY <3>1, <3>2, <3>3, ZenonT(30)
  <2>3. IsPrefix(Sent(q), q.tokens)
    BY <1>1, <2>2, TextPrefix, ZenonT(30)
  <2>4. ASSUME q.out \in {"stop", "length"} PROVE Sent(q) = q.tokens
    <3>1. q.held = <<>> /\ ~q.matched
      BY <2>4 DEF Whole, Over
    <3>2. gap = <<>>
      BY <2>1, <2>4, <3>1
    <3>3. Sent(q) \o <<>> = Sent(q) /\ <<>> \o <<>> = <<>>
      BY <1>1, TextPrefix
    <3>. QED
      BY <2>2, <3>1, <3>2, <3>3
  <2>. QED
    BY <2>3, <2>4
<1>. QED
  BY <1>2, <1>3

\* The phases have the stream and the runner's contract.
LEMMA StreamIs ==
  ASSUME Scheduled
  PROVE  StreamExact /\ RunnerContract
<1>1. req \in [Req -> Requests]
  BY PlacedFacts DEF Scheduled
<1>2. ASSUME NEW r \in Req PROVE Whole(r, req[r])
  BY DEF Scheduled, Phases, Phase
<1>3. RunnerContract
  BY <1>2 DEF RunnerContract, Whole
<1>4. ASSUME NEW r \in Req
      PROVE  /\ req[r].tokens = [i \in 1 .. Len(req[r].tokens) |-> i]
             /\ Len(req[r].tokens) <= TokenLimit[r]
             /\ req[r].listening => IsPrefix(Sent(req[r]), req[r].tokens)
             /\ (req[r].out \in {"stop", "length"} /\ req[r].listening /\ r \in Streamed) =>
                  Sent(req[r]) = req[r].tokens
  <2>1. req[r] \in Requests
    BY <1>1
  <2>2. Whole(r, req[r])
    BY <1>2
  <2>3. /\ req[r].tokens = [i \in 1 .. Len(req[r].tokens) |-> i]
        /\ Len(req[r].tokens) <= TokenLimit[r]
    BY <2>2 DEF Whole, Stream
  <2>4. ASSUME req[r].listening
        PROVE  /\ IsPrefix(Sent(req[r]), req[r].tokens)
               /\ (req[r].out \in {"stop", "length"} /\ r \in Streamed) =>
                    Sent(req[r]) = req[r].tokens
    BY <2>1, <2>2, <2>4, SentIs
  <2>. QED
    BY <2>3, <2>4
<1>5. StreamExact
  BY <1>4, ZenonT(30) DEF StreamExact, Sent
<1>. QED
  BY <1>3, <1>5

(***************************************************************************)
(* The properties                                                          *)
(***************************************************************************)

\* The output budget equals what the requests' queues hold, and never exceeds its limit:
\* PushOutput's account of pieces is returned exactly once, by the client, by a terminal
\* transition or with the request.
THEOREM BudgetIsExact == Spec => []BudgetExact
<1>1. Scheduled => BudgetExact
  BY BudgetIs DEF Scheduled
<1>. QED
  BY <1>1, SchedulerInvariant, PTL

\* Every request counted as processing, also while it is parked or captured, has a
\* session of its own, as PopQueued relies on (NextUnusedSession).
THEOREM SessionsAreExact == Spec => []SessionsExact
<1>1. Scheduled => SessionsExact
  BY SessionsAre DEF Scheduled
<1>. QED
  BY <1>1, SchedulerInvariant, PTL

\* Once the worker of TextGenerationScheduler has left its loop, every accepted request
\* has ended: none is dropped on the way between the queue, the four lists and a batch.
THEOREM NoRequestIsLost == Spec => []NoRequestLost
<1>1. Scheduled => NoRequestLost
  BY NoneLost DEF Scheduled
<1>. QED
  BY <1>1, SchedulerInvariant, PTL

\* A stream is the model's output, every token once and in order, within token_limit and
\* complete at the end, through previews, captures and changes between single and multi-
\* token steps.
THEOREM StreamIsExact == Spec => []StreamExact
<1>1. Scheduled => StreamExact
  BY StreamIs
<1>. QED
  BY <1>1, SchedulerInvariant, PTL

\* The scheduler never asks the runner to decode past a token it selected and has not
\* advanced, nor to advance a token it did not select (the runner's logic errors are
\* unreachable).
THEOREM RunnerContractHolds == Spec => []RunnerContract
<1>1. Scheduled => RunnerContract
  BY StreamIs
<1>. QED
  BY <1>1, SchedulerInvariant, PTL

\* Once a failure or the idle probe showed the device dead, no lease is returned to it,
\* but that of a request that was already cancelled or past its deadline when the call
\* failed.
THEOREM LeasesAreKept == Spec => LossKeepsLeases
<1>1. Scheduled /\ [Next]_vars =>
        [\A r \in Req :
           (/\ lost' = "probe"
            /\ req[r].lease = "held" /\ req'[r].lease = "returned") =>
             lost = "no" /\ (req[r].cancel \/ req[r].expired)]_vars
  BY NextKept DEF Scheduled, Kept, Leases, Spared
<1>. QED
  BY <1>1, SchedulerInvariant, PTL DEF Spec, LossKeepsLeases

(***************************************************************************)
(* The turns of the decoders                                               *)
(***************************************************************************)

\* The requests being f, the decoders d and the runner pool m, n counts the
\* chunks that were run since each decoder had a turn, s those in a row.

\* Only a decoder that has not run yet is passed over twice.
Late(f, n, m) ==
  \A r \in Req : n[r] > 1 =>
    f[r].tokens = <<>> /\ m.multi /\ m.width \in 2 .. m.capacity - 1

\* One that was passed over is due.
PassedOver(f, n, d) == \A r \in Req : n[r] > 0 => r \in ToSet(d) /\ f[r].due

\* None is between two batches if a batch takes all of them.
Even(n, s, m) == m.capacity <= m.width /\ s = 0 => \A r \in Req : n[r] = 0

\* A chunk may pass them over.
Allowed(f, d, s, m) ==
  \/ \A r \in ToSet(d) : ~f[r].due
  \/ /\ s = 0 /\ m.multi /\ m.width > 1
     /\ \A r \in ToSet(d) : f[r].tokens = <<>>

\* The turns at each place of the worker b.
InTurn(f, b, d, s, n, m) ==
  /\ Late(f, n, m)
  /\ b.pc # "done" => PassedOver(f, n, d) /\ Even(n, s, m)
  /\ b.pc = "prefill" => Allowed(f, d, s, m) /\ (b.decoding <=> d # <<>>)

\* The decoders d go on as they are, the requests becoming g.
Stays(f, g, d) ==
  \A r \in ToSet(d) : g[r].tokens = f[r].tokens /\ (f[r].due => g[r].due)

\* It stays so while the decoders keep their due flags.
LEMMA LateStays ==
  ASSUME NEW f, NEW g, NEW d, NEW e, NEW n \in [Req -> Nat], NEW m,
         Stays(f, g, d), Late(f, n, m), PassedOver(f, n, d)
  PROVE  /\ Late(g, n, m)
         /\ ToSet(d) \subseteq ToSet(e) => PassedOver(g, n, e)
<1>1. ASSUME NEW r \in Req, n[r] > 1
      PROVE  g[r].tokens = <<>> /\ m.multi /\ m.width \in 2 .. m.capacity - 1
  <2>1. n[r] > 0
    BY <1>1
  <2>2. g[r].tokens = f[r].tokens
    BY <2>1 DEF PassedOver, Stays
  <2>. QED
    BY <1>1, <2>2 DEF Late
<1>2. ASSUME ToSet(d) \subseteq ToSet(e), NEW r \in Req, n[r] > 0
      PROVE  r \in ToSet(e) /\ g[r].due
  BY <1>2 DEF PassedOver, Stays
<1>. QED
  BY <1>1, <1>2 DEF Late, PassedOver

\* A step after which no chunk is begun and the decoders are still there.
LEMMA TurnsGoOn ==
  ASSUME NEW f, NEW g, NEW d, NEW e, NEW n \in [Req -> Nat], NEW s, NEW m, NEW b, NEW c,
         Stays(f, g, d), ToSet(d) \subseteq ToSet(e), InTurn(f, b, d, s, n, m),
         b.pc # "done", c.pc # "prefill"
  PROVE  InTurn(g, c, e, s, n, m)
<1>1. Late(f, n, m) /\ PassedOver(f, n, d) /\ Even(n, s, m)
  BY DEF InTurn
<1>2. Late(g, n, m) /\ PassedOver(g, n, e)
  BY <1>1, LateStays, ZenonT(30)
<1>. QED
  BY <1>1, <1>2 DEF InTurn

\* A step of a client, a capture thread, the clock or the monitor.
LEMMA TurnsOutside ==
  ASSUME NEW f, NEW g, NEW d, NEW n \in [Req -> Nat], NEW s, NEW m, NEW b,
         \A r \in Req : \/ g[r].tokens = f[r].tokens /\ (g[r].due <=> f[r].due)
                        \/ r \notin ToSet(d) /\ g[r].tokens = <<>>,
         ToSet(d) \subseteq Req, InTurn(f, b, d, s, n, m)
  PROVE  InTurn(g, b, d, s, n, m)
<1>1. Late(g, n, m)
  <2>1. ASSUME NEW r \in Req, n[r] > 1
        PROVE  g[r].tokens = <<>> /\ m.multi /\ m.width \in 2 .. m.capacity - 1
    BY <2>1 DEF InTurn, Late
  <2>. QED
    BY <2>1 DEF Late
<1>2. ASSUME b.pc # "done" PROVE PassedOver(g, n, d) /\ Even(n, s, m)
  BY <1>2 DEF InTurn, PassedOver
<1>3. ASSUME b.pc = "prefill" PROVE Allowed(g, d, s, m) /\ (b.decoding <=> d # <<>>)
  <2>1. Allowed(f, d, s, m) /\ (b.decoding <=> d # <<>>)
    BY <1>3 DEF InTurn
  <2>2. \A r \in ToSet(d) : g[r].tokens = f[r].tokens /\ (g[r].due <=> f[r].due)
    OBVIOUS
  <2>. QED
    BY <2>1, <2>2 DEF Allowed
<1>. QED
  BY <1>1, <1>2, <1>3 DEF InTurn

\* The decoders' turns in a state.
Turning == InTurn(req, work, lists.decoding, streak, skipped, mode)

\* The same, after a step.
TurningNext == InTurn(req', work', lists'.decoding, streak', skipped', mode)

\* The decoders are live requests of the worker's, each with a session.
LEMMA DecodersFew ==
  ASSUME Placed, NEW s \in Seq(Req), Distinct(s), ToSet(s) \subseteq ToSet(lists.decoding)
  PROVE  Len(s) <= mode.capacity /\ Len(s) \in Nat /\ mode.capacity \in Nat
<1>1. mode.capacity \in Nat
  BY PlacedFacts, SchedulerAssumption
<1>2. PICK f : f = [r \in ToSet(s) |-> req[r].session]
  BY ZenonT(30)
<1>3. ASSUME NEW r \in ToSet(s)
      PROVE  r \in Req /\ req[r].counted /\ req[r].session \in 1 .. mode.capacity
  <2>1. r \in Req /\ r \in Members(lists) /\ req[r].out = "none"
    BY PlacedFacts DEF Members, Placement
  <2>2. req[r].counted
    BY <2>1, PlacedFacts DEF Placement
  <2>3. req[r].session # 0 /\ req[r].session <= mode.capacity
    BY <2>1, <2>2, PlacedFacts DEF Seating
  <2>4. req[r].session \in Nat
    BY <2>1, PlacedFacts, RequestFacts
  <2>. QED
    BY <1>1, <2>1, <2>2, <2>3, <2>4
<1>4. ASSUME NEW r \in ToSet(s), NEW x \in ToSet(s), f[r] = f[x] PROVE r = x
  BY <1>2, <1>3, <1>4, PlacedFacts DEF Seating
<1>5. f \in Injection(ToSet(s), 1 .. mode.capacity)
  <2>1. f \in [ToSet(s) -> 1 .. mode.capacity]
    BY <1>2, <1>3
  <2>. QED
    BY <1>4, <2>1 DEF Injection, IsInjective
<1>6. PICK N \in Nat : N = mode.capacity
  BY <1>1
<1>7. IsFiniteSet(1 .. N) /\ Cardinality(1 .. N) = IF 1 > N THEN 0 ELSE N - 1 + 1
  BY FS_Interval
<1>8. Cardinality(1 .. N) = N
  BY <1>6, <1>7
<1>9. Cardinality(ToSet(s)) <= Cardinality(1 .. N)
  BY <1>5, <1>6, <1>7, FS_Injection
<1>10. Cardinality(ToSet(s)) = Len(s) /\ Len(s) \in Nat
  BY MembersCount
<1>. QED
  BY <1>1, <1>6, <1>8, <1>9, <1>10

\* What every step of the worker's needs.
LEMMA TurningFacts ==
  ASSUME Placed, Turning
  PROVE  /\ skipped \in [Req -> Nat] /\ ToSet(lists.decoding) \subseteq Req
         /\ ToSet(lists.decoding) \subseteq Members(lists)
         /\ InTurn(req, work, lists.decoding, streak, skipped, mode)
BY PlacedFacts, ListFacts DEF Placed, Turning, Members

\* The worker goes on to something else than a chunk; no decoder leaves.
LEMMA GoesOn ==
  ASSUME Placed, Turning, UNCHANGED <<mode, streak, skipped>>,
         Stays(req, req', lists.decoding),
         ToSet(lists.decoding) \subseteq ToSet(lists'.decoding),
         work.pc # "done", work'.pc # "prefill"
  PROVE  TurningNext
<1>1. InTurn(req', work', lists'.decoding, streak, skipped, mode)
  BY TurningFacts, TurnsGoOn
<1>. QED
  BY <1>1 DEF TurningNext

\* Decoders that are left alone stay so.
LEMMA StaysSame ==
  ASSUME NEW f, NEW g, NEW d, \A r \in ToSet(d) : g[r] = f[r]
  PROVE  Stays(f, g, d)
BY DEF Stays

\* BeginLoop keeps the turns.
LEMMA BeginLoopTurns ==
  ASSUME Placed, Turning, BeginLoop
  PROVE  TurningNext
<1>1. \A r \in ToSet(lists.decoding) : req'[r] = req[r] /\ r \in ToSet(lists'.decoding)
  BY BeginLoopIs
<1>2. Stays(req, req', lists.decoding) /\ ToSet(lists.decoding) \subseteq ToSet(lists'.decoding)
  BY <1>1, StaysSame
<1>3. UNCHANGED <<mode, streak, skipped>> /\ work.pc = "top" /\ work' = Advance(work, "admit")
  BY DEF BeginLoop, ListFrame, Advance
<1>4. "admit" \in Counters /\ work \in Works
  BY PlacedFacts DEF Counters
<1>5. work'.pc = "admit"
  BY <1>3, <1>4, AdvanceIs
<1>. QED
  BY <1>2, <1>3, <1>5, GoesOn

\* AdmitNext keeps the turns.
LEMMA AdmitNextTurns ==
  ASSUME Placed, Turning, AdmitNext
  PROVE  TurningNext
<1>1. /\ lists'.decoding = lists.decoding /\ work.pc = "admit"
      /\ \E f, r, B : Admits(f, r, B)
  BY AdmitNextIs
<1>2. PICK f, r, B : Admits(f, r, B)
  BY <1>1
<1>3. ASSUME NEW x \in ToSet(lists.decoding) PROVE req'[x] = req[x]
  <2>1. x \in Req /\ x # r
    BY <1>2, TurningFacts DEF Admits
  <2>2. f[x] = req[x]
    BY <1>2, <2>1 DEF Admits, Beside
  <2>3. req'[x] = f[x]
    BY <1>2, <2>1 DEF Admits, Beside
  <2>. QED
    BY <2>2, <2>3
<1>4. Stays(req, req', lists.decoding)
  BY <1>3, StaysSame
<1>5. work'.pc \in {"admit", "acquire"}
  BY <1>1, <1>2 DEF Admits
<1>6. UNCHANGED <<mode, streak, skipped>>
  BY DEF AdmitNext, ListFrame
<1>. QED
  BY <1>1, <1>4, <1>5, <1>6, GoesOn

\* Acquire keeps the turns.
LEMMA AcquireTurns ==
  ASSUME Placed, Turning, Acquire
  PROVE  TurningNext
<1>1. Onward(req, req', lists.decoding, lists'.decoding)
  BY AcquireIs
<1>2. \A r \in ToSet(lists.decoding) : req'[r] = req[r] /\ r \in ToSet(lists'.decoding)
  BY <1>1 DEF Onward
<1>3. Stays(req, req', lists.decoding) /\ ToSet(lists.decoding) \subseteq ToSet(lists'.decoding)
  BY <1>2, StaysSame
<1>4. UNCHANGED <<mode, streak, skipped>> /\ work.pc = "acquire" /\ work' = Clearing(work, "admit")
  BY DEF Acquire, ListFrame, Clearing
<1>5. "admit" \in Counters /\ work \in Works
  BY PlacedFacts DEF Counters
<1>6. work'.pc = "admit"
  BY <1>4, <1>5, ClearingIs
<1>. QED
  BY <1>3, <1>4, <1>6, GoesOn

\* The worker's steps that touch no request keep the turns.
LEMMA IdlingTurns ==
  ASSUME Placed, Turning, Idling
  PROVE  TurningNext
<1>1. /\ work.pc \in Between /\ UNCHANGED <<mode, eos, stopping, req, budget>>
      /\ UNCHANGED <<clients, lists, streak, skipped>>
  BY IdlingIs
<1>2. PICK p \in Between \ {"done"} : work' = Advance(work, p)
  BY IdlingIs
<1>3. p \in Counters /\ p # "prefill" /\ work \in Works
  BY PlacedFacts DEF Between, Counters
<1>4. work'.pc = p
  BY <1>2, <1>3, AdvanceIs
<1>5. work.pc # "done"
  BY ZenonT(30) DEF Idling, LeaveLoop, NothingToRun, IdleReturns, PollDevice
<1>6. Stays(req, req', lists.decoding)
  BY <1>1, StaysSame
<1>. QED
  BY <1>1, <1>3, <1>4, <1>5, <1>6, GoesOn

\* A step of the worker for its batch.
LEMMA SafeTurns ==
  ASSUME Placed, Turning, Safe, UNCHANGED <<mode, streak, skipped>>, work.pc # "done"
  PROVE  TurningNext
<1>1. /\ Treated(req, req', ToSet(work.batch), lost', lost)
      /\ ToSet(lists.decoding) \subseteq ToSet(lists'.decoding)
      /\ work'.pc # "prefill"
  BY DEF Safe
<1>2. ASSUME NEW r \in ToSet(lists.decoding) PROVE req'[r] = req[r]
  <2>1. r \in Req /\ r \notin ToSet(work.batch)
    BY TurningFacts, PlacedFacts DEF Placement
  <2>. QED
    BY <1>1, <2>1 DEF Treated
<1>3. Stays(req, req', lists.decoding)
  BY <1>2, StaysSame
<1>. QED
  BY <1>1, <1>3, GoesOn

\* CancelRemaining keeps the turns.
LEMMA CancelRemainingTurns ==
  ASSUME Placed, Turning, CancelRemaining
  PROVE  TurningNext
<1>1. \A r \in QueuedIn(clients) \cup Members(lists) : req'[r].tokens = req[r].tokens
  BY CancelRemainingIs
<1>2. /\ mode' = mode /\ streak' = streak /\ skipped' = skipped
      /\ work' = Advance(work, "done") /\ work.pc = "drain"
  BY DEF CancelRemaining, ListFrame, Advance
<1>3. work'.pc = "done"
  BY <1>2, PlacedFacts, AdvanceIs DEF Counters
<1>4. Late(req, skipped, mode) /\ PassedOver(req, skipped, lists.decoding)
  BY <1>2, TurningFacts DEF InTurn
<1>5. Late(req', skipped, mode)
  <2>1. ASSUME NEW r \in Req, skipped[r] > 1
        PROVE  req'[r].tokens = <<>> /\ mode.multi /\ mode.width \in 2 .. mode.capacity - 1
    <3>1. skipped[r] > 0
      BY <2>1, TurningFacts
    <3>2. r \in Members(lists)
      BY <1>4, <3>1, TurningFacts DEF PassedOver
    <3>. QED
      BY <1>1, <1>4, <2>1, <3>2 DEF Late
  <2>. QED
    BY <2>1 DEF Late
<1>. QED
  BY <1>2, <1>3, <1>5 DEF InTurn, TurningNext

\* A step of the clients keeps the turns.
LEMMA OutsideTurns ==
  ASSUME Placed, Turning, Outside,
         \A r \in Req : \/ req'[r].tokens = req[r].tokens /\ (req'[r].due <=> req[r].due)
                        \/ r \notin ToSet(lists.decoding) /\ req'[r].tokens = <<>>
  PROVE  TurningNext
<1>1. InTurn(req', work, lists.decoding, streak, skipped, mode)
  BY TurningFacts, TurnsOutside
<1>2. UNCHANGED <<mode, lists, work, streak, skipped>>
  BY DEF Outside
<1>. QED
  BY <1>1, <1>2 DEF TurningNext

\* The clients, the clock and the device keep the turns.
LEMMA DisturbanceTurns ==
  ASSUME Placed, Turning, Disturbance
  PROVE  TurningNext
<1>1. Outside /\ \A x \in Req : req'[x] = req[x] \/ Disturbed(x, req[x], req'[x])
  BY DisturbanceIs
<1>2. ASSUME NEW r \in Req
      PROVE  req'[r].tokens = req[r].tokens /\ (req'[r].due <=> req[r].due)
  BY <1>1 DEF Disturbed, Touched
<1>. QED
  BY <1>1, <1>2, OutsideTurns

\* Submit keeps the turns.
LEMMA SubmitTurns ==
  ASSUME Placed, Turning, NEW r \in Req, Submit(r)
  PROVE  TurningNext
<1>1. Beside(req, req', r) /\ Blank(req'[r]) /\ Blank(req[r]) /\ req[r].handle = "none"
  BY SubmitIs
<1>2. ASSUME NEW x \in Req
      PROVE  req'[x].tokens = req[x].tokens /\ (req'[x].due <=> req[x].due)
  BY <1>1 DEF Beside, Blank
<1>3. Outside
  BY DEF Submit
<1>. QED
  BY <1>2, <1>3, OutsideTurns

\* Destroy keeps the turns.
LEMMA DestroyTurns ==
  ASSUME Placed, Turning, NEW r \in Req, Destroy(r)
  PROVE  TurningNext
<1>1. /\ Beside(req, req', r) /\ Blank(req'[r])
      /\ r \notin QueuedIn(clients) \cup Members(lists) \cup ToSet(work.batch)
  BY DestroyIs
<1>2. r \notin ToSet(lists.decoding) /\ req'[r].tokens = <<>>
  BY <1>1, TurningFacts DEF Blank
<1>3. ASSUME NEW x \in Req
      PROVE  \/ req'[x].tokens = req[x].tokens /\ (req'[x].due <=> req[x].due)
             \/ x \notin ToSet(lists.decoding) /\ req'[x].tokens = <<>>
  BY <1>1, <1>2 DEF Beside
<1>4. Outside
  BY DEF Destroy
<1>. QED
  BY <1>3, <1>4, OutsideTurns

\* The sum of two numbers.
LEMMA NatSum ==
  ASSUME NEW a \in Nat, NEW b \in Nat
  PROVE  a + b \in Nat
OBVIOUS

\* A chunk is chosen.
LEMMA ChoosePrefillTurns ==
  ASSUME Placed, Turning, ChoosePrefill
  PROVE  TurningNext
<1>1. /\ work'.pc = "prefill" /\ lists'.decoding = lists.decoding
      /\ (work'.decoding <=> lists.decoding # <<>>)
  BY ChoosePrefillIs
<1>2. /\ work.pc = "admit"
      /\ lists.decoding = <<>> \/ PrefillBesideDecoders
      /\ UNCHANGED <<mode, req, streak, skipped>>
  BY DEF ChoosePrefill, ListFrame
<1>3. Allowed(req, lists.decoding, streak, mode)
  <2>1. CASE lists.decoding = <<>>
    <3>1. ToSet(lists.decoding) = {}
      BY <2>1, ShortMembers
    <3>. QED
      BY <3>1 DEF Allowed
  <2>2. CASE ~HasDueDecoder
    BY <2>2 DEF Allowed, HasDueDecoder
  <2>3. CASE AssembleInitialBatch
    <3>0. lists.prefilling \in Seq(Req) /\ lists.decoding \in Seq(Req) /\ mode.width \in Nat
      BY PlacedFacts, ListFacts, SchedulerAssumption
    <3>1. PICK n \in Nat : n = Len(lists.prefilling) + Len(lists.decoding)
      <4>1. Len(lists.prefilling) \in Nat
        BY <3>0, SeqFacts
      <4>2. Len(lists.decoding) \in Nat
        BY <3>0, SeqFacts
      <4>3. Len(lists.prefilling) + Len(lists.decoding) \in Nat
        BY <4>1, <4>2, NatSum, ZenonT(30)
      <4>. QED
        BY <4>3, ZenonT(30)
    <3>2. n > 1 /\ SelectDecodePlan(n) > 1
      BY <2>3, <3>1, ZenonT(30) DEF AssembleInitialBatch
    <3>3. mode.width > 1
      BY <3>0, <3>2 DEF SelectDecodePlan
    <3>. QED
      BY <2>3, <3>3 DEF AssembleInitialBatch, Allowed
  <2>. QED
    BY <1>2, <2>1, <2>2, <2>3 DEF PrefillBesideDecoders
<1>4. /\ Late(req, skipped, mode)
      /\ PassedOver(req, skipped, lists.decoding) /\ Even(skipped, streak, mode)
  BY <1>2, TurningFacts DEF InTurn
<1>. QED
  BY <1>1, <1>2, <1>3, <1>4 DEF InTurn, TurningNext

\* A batch has its turn, and all decoders if they fit in it.
LEMMA ChooseDecodeTurns ==
  ASSUME Placed, Turning, ChooseDecode
  PROVE  TurningNext
<1>1. PICK P : P = PoppedBatch
  OBVIOUS
<1>2. /\ work'.pc = "prepare" /\ P \in Seq(Req)
      /\ Len(Candidates) <= mode.width => ToSet(P) = ToSet(Candidates)
      /\ ToSet(lists'.decoding) = ToSet(lists.decoding) \ ToSet(P)
      /\ \A r \in Req : r \notin ToSet(P) => req'[r] = req[r]
  BY <1>1, ChooseDecodeIs
<1>3. /\ mode' = mode /\ work.pc = "admit" /\ lists.decoding # <<>>
      /\ skipped' = [r \in Req |-> IF r \in ToSet(P) THEN 0 ELSE skipped[r]]
  BY <1>1 DEF ChooseDecode, ListFrame
<1>4. /\ Late(req, skipped, mode)
      /\ PassedOver(req, skipped, lists.decoding) /\ Even(skipped, streak, mode)
  BY <1>3, TurningFacts DEF InTurn
<1>5. ASSUME NEW r \in Req, skipped'[r] > 0
      PROVE  r \notin ToSet(P) /\ skipped[r] = skipped'[r] /\ req'[r] = req[r]
  BY <1>2, <1>3, <1>5
<1>6. Late(req', skipped', mode)
  <2>1. ASSUME NEW r \in Req, skipped'[r] > 1
        PROVE  req'[r].tokens = <<>> /\ mode.multi /\ mode.width \in 2 .. mode.capacity - 1
    <3>1. skipped'[r] > 0
      BY <1>3, <2>1, TurningFacts
    <3>2. skipped[r] > 1 /\ req'[r] = req[r]
      BY <1>5, <2>1, <3>1
    <3>. QED
      BY <1>4, <3>2 DEF Late
  <2>. QED
    BY <2>1 DEF Late
<1>7. PassedOver(req', skipped', lists'.decoding)
  <2>1. ASSUME NEW r \in Req, skipped'[r] > 0
        PROVE  r \in ToSet(lists'.decoding) /\ req'[r].due
    <3>1. r \notin ToSet(P) /\ skipped[r] > 0 /\ req'[r] = req[r]
      BY <1>5, <2>1
    <3>. QED
      BY <1>2, <1>4, <3>1 DEF PassedOver
  <2>. QED
    BY <2>1 DEF PassedOver
<1>8. ASSUME mode.capacity <= mode.width, NEW r \in Req PROVE skipped'[r] = 0
  <2>1. PICK c : c = Candidates
    OBVIOUS
  <2>2. lists \in ListType /\ mode \in Modes /\ Apart(lists)
    BY PlacedFacts
  <2>3. /\ c \in Seq(Req)
        /\ ToSet(c) = {x \in ToSet(lists.decoding) : HasDueDecoder => req[x].due}
    BY <1>3, <2>1, <2>2, CandidatesAre
  <2>4. Distinct(c)
    <3>1. lists.decoding \in Seq(Req) /\ Distinct(lists.decoding)
      BY <2>2, ListFacts DEF Apart
    <3>. QED
      BY <2>1, <3>1, OnlyMembers DEF Candidates
  <2>5. Len(c) <= mode.capacity /\ Len(c) \in Nat /\ mode.capacity \in Nat
    BY <2>3, <2>4, DecodersFew
  <2>6. mode.width \in Nat
    BY <2>2, SchedulerAssumption
  <2>7. Len(c) <= mode.width
    BY <1>8, <2>5, <2>6
  <2>8. ToSet(P) = ToSet(c)
    BY <1>2, <2>1, <2>7
  <2>9. CASE r \in ToSet(P)
    BY <1>3, <2>9
  <2>10. CASE r \notin ToSet(P)
    <3>1. skipped[r] > 0 => r \in ToSet(lists.decoding) /\ req[r].due
      BY <1>4 DEF PassedOver
    <3>2. ~(skipped[r] > 0)
      BY <2>3, <2>8, <2>10, <3>1
    <3>3. skipped[r] = 0
      BY <3>2, TurningFacts
    <3>. QED
      BY <1>3, <2>10, <3>3
  <2>. QED
    BY <2>9, <2>10
<1>9. Even(skipped', streak', mode)
  BY <1>8 DEF Even
<1>. QED
  BY <1>2, <1>3, <1>6, <1>7, <1>9 DEF InTurn, TurningNext

\* The counters after a chunk.
Longer(d, n) ==
  [x \in Req |-> IF x \in ToSet(d) THEN Min({n[x] + 1, 3}) ELSE n[x]]

\* A chunk passes over the decoders of its list, once more.
LEMMA LongerIs ==
  ASSUME NEW d, NEW n \in [Req -> Nat], NEW r \in Req, NEW l, l = Longer(d, n)
  PROVE  /\ l[r] > 0 => r \in ToSet(d) \/ n[r] > 0
         /\ l[r] > 1 => n[r] > 0
         /\ r \notin ToSet(d) => l[r] = n[r]
<1>1. CASE r \in ToSet(d)
  <2>1. PICK a \in Int, b \in Int : a = n[r] + 1 /\ b = 3 /\ n[r] \in Nat
    OBVIOUS
  <2>2. l[r] = Min({a, b})
    BY <1>1, <2>1 DEF Longer
  <2>3. Min({a, b}) \in {a, b} /\ Min({a, b}) <= a
    BY MinTwo, ZenonT(30)
  <2>. QED
    BY <1>1, <2>1, <2>2, <2>3
<1>2. CASE r \notin ToSet(d)
  BY <1>2 DEF Longer
<1>. QED
  BY <1>1, <1>2

\* What a chunk counts, if one was run.
LEMMA StepPrefillCounted ==
  ASSUME StepPrefill
  PROVE  /\ work.pc = "prefill" /\ mode' = mode
         /\ work' = Emptied(work)
         /\ \/ UNCHANGED <<streak, skipped>>
            \/ /\ streak' = (IF work.decoding THEN Min({streak + 1, 2}) ELSE 0)
               /\ skipped' = Longer(lists.decoding, skipped)
BY DEF StepPrefill, ListFrame, Emptied, Longer

\* StepPrefill keeps the turns.
LEMMA StepPrefillTurns ==
  ASSUME Placed, Turning, StepPrefill
  PROVE  TurningNext
<1>1. /\ work.pc = "prefill" /\ mode' = mode /\ work' = Emptied(work)
  BY StepPrefillCounted
<1>2. work'.pc = "top"
  BY <1>1, PlacedFacts, EmptiedIs
<1>3. /\ \A r \in ToSet(lists.decoding) : r \in ToSet(lists'.decoding) /\ Level(req[r], req'[r])
      /\ \A r \in ToSet(lists'.decoding) : req'[r].due
  BY StepPrefillIs
<1>4. /\ Late(req, skipped, mode)
      /\ PassedOver(req, skipped, lists.decoding) /\ Even(skipped, streak, mode)
      /\ Allowed(req, lists.decoding, streak, mode)
      /\ (work.decoding <=> lists.decoding # <<>>)
  BY <1>1, TurningFacts DEF InTurn
<1>5. \A r \in ToSet(lists.decoding) : req'[r].tokens = req[r].tokens /\ req'[r].due
  BY <1>3 DEF Level
<1>6. CASE UNCHANGED <<streak, skipped>>
  <2>1. Stays(req, req', lists.decoding) /\ ToSet(lists.decoding) \subseteq ToSet(lists'.decoding)
    BY <1>3, <1>5 DEF Stays
  <2>. QED
    BY <1>1, <1>2, <1>6, <2>1, GoesOn
<1>7. CASE /\ streak' = (IF work.decoding THEN Min({streak + 1, 2}) ELSE 0)
           /\ skipped' = Longer(lists.decoding, skipped)
  <2>1. \A r \in Req : skipped[r] > 0 => r \in ToSet(lists.decoding) /\ req[r].due
    BY <1>4 DEF PassedOver
  <2>2. \A r \in Req : /\ skipped'[r] > 0 => r \in ToSet(lists.decoding)
                       /\ skipped'[r] > 1 => skipped[r] > 0
    BY <1>7, <2>1, LongerIs, TurningFacts
  <2>3. PassedOver(req', skipped', lists'.decoding)
    BY <1>3, <2>2 DEF PassedOver
  <2>4. Late(req', skipped', mode)
    <3>1. SUFFICES ASSUME NEW r \in Req, skipped'[r] > 1
                   PROVE  req'[r].tokens = <<>> /\ mode.multi /\ mode.width \in 2 .. mode.capacity - 1
      BY DEF Late
    <3>2. skipped[r] > 0 /\ r \in ToSet(lists.decoding) /\ req[r].due
      BY <2>1, <2>2, <3>1
    <3>3. streak = 0 /\ mode.multi /\ mode.width > 1 /\ req[r].tokens = <<>>
      BY <1>4, <3>2 DEF Allowed
    <3>4. ~(mode.capacity <= mode.width)
      BY <1>4, <3>2, <3>3 DEF Even
    <3>5. mode.capacity \in Nat /\ mode.width \in Nat
      BY PlacedFacts, SchedulerAssumption
    <3>6. mode.width \in 2 .. mode.capacity - 1
      BY <3>3, <3>4, <3>5
    <3>. QED
      BY <1>5, <3>2, <3>3, <3>6
  <2>5. Even(skipped', streak', mode)
    <3>1. SUFFICES ASSUME streak' = 0, NEW r \in Req PROVE skipped'[r] = 0
      BY DEF Even
    <3>2. ~work.decoding
      <4>1. ASSUME work.decoding PROVE FALSE
        <5>1. PICK a \in Int, b \in Int : a = streak + 1 /\ b = 2 /\ a >= 1
          BY DEF Placed
        <5>2. Min({a, b}) \in {a, b}
          BY MinTwo, ZenonT(30)
        <5>3. streak' = Min({a, b})
          BY <1>7, <4>1, <5>1
        <5>. QED
          BY <3>1, <5>1, <5>2, <5>3
      <4>. QED
        BY <4>1
    <3>3. lists.decoding = <<>>
      BY <1>4, <3>2
    <3>4. ToSet(lists.decoding) = {}
      BY <3>3, ShortMembers
    <3>5. ~(skipped[r] > 0)
      BY <2>1, <3>4
    <3>6. skipped'[r] = skipped[r]
      BY <1>7, <3>4, LongerIs, TurningFacts
    <3>. QED
      BY <3>5, <3>6, TurningFacts
  <2>. QED
    BY <1>1, <1>2, <2>3, <2>4, <2>5 DEF InTurn, TurningNext
<1>. QED
  BY <1>6, <1>7, StepPrefillCounted

\* Every step keeps the turns.
LEMMA NextTurns ==
  ASSUME Placed, Phases(req, work), Turning, [Next]_vars
  PROVE  TurningNext
<1>1. CASE BeginLoop
  BY <1>1, BeginLoopTurns
<1>2. CASE AdmitNext
  BY <1>2, AdmitNextTurns
<1>3. CASE Acquire
  BY <1>3, AcquireTurns
<1>4. CASE Idling
  BY <1>4, IdlingTurns
<1>5. CASE ChoosePrefill
  BY <1>5, ChoosePrefillTurns
<1>6. CASE ChooseDecode
  BY <1>6, ChooseDecodeTurns
<1>7. CASE StepPrefill
  BY <1>7, StepPrefillTurns
<1>8. CASE PrepareRequest
  <2>1. Safe
    BY <1>8, PrepareRequestSafe
  <2>2. UNCHANGED <<mode, streak, skipped>> /\ work.pc # "done"
    BY <1>8 DEF PrepareRequest, ListFrame
  <2>. QED
    BY <2>1, <2>2, SafeTurns
<1>9. CASE ExecuteBatch
  <2>1. Safe
    BY <1>9, ExecuteBatchSafe
  <2>2. UNCHANGED <<mode, streak, skipped>> /\ work.pc # "done"
    BY <1>9, ZenonT(30) DEF ExecuteBatch, ListFrame
  <2>. QED
    BY <2>1, <2>2, SafeTurns
<1>10. CASE PublishLane
  <2>1. Safe
    BY <1>10, PublishLaneSafe
  <2>2. UNCHANGED <<mode, streak, skipped>> /\ work.pc # "done"
    BY <1>10 DEF PublishLane, ListFrame
  <2>. QED
    BY <2>1, <2>2, SafeTurns
<1>11. CASE CancelRemaining
  BY <1>11, CancelRemainingTurns
<1>12. CASE Disturbance
  BY <1>12, DisturbanceTurns
<1>13. CASE \E r \in Req : Submit(r)
  BY <1>13, SubmitTurns
<1>14. CASE \E r \in Req : Destroy(r)
  BY <1>14, DestroyTurns
<1>15. CASE UNCHANGED vars
  BY <1>15 DEF vars, Turning, TurningNext
<1>16. Worker => \/ BeginLoop \/ AdmitNext \/ Acquire \/ Idling \/ ChoosePrefill \/ ChooseDecode
                 \/ StepPrefill \/ PrepareRequest \/ ExecuteBatch \/ PublishLane
                 \/ CancelRemaining
  BY DEF Worker, Idling
<1>17. Next => \/ Worker \/ Disturbance \/ (\E r \in Req : Submit(r))
               \/ (\E r \in Req : Destroy(r))
  BY DEF Next, Disturbance
<1>. QED
  BY <1>1, <1>2, <1>3, <1>4, <1>5, <1>6, <1>7, <1>8, <1>9, <1>10, <1>11, <1>12,
     <1>13, <1>14, <1>15, <1>16, <1>17

\* A decoder that has run is passed over by at most one prefill chunk before it runs
\* again, and so is one that has not run yet, unless the pool has more sessions than a
\* multi-token batch is wide.
THEOREM DecodersGetTheirTurns == Spec => []DecodersGetTurns
<1>1. Init => Turning
  <2>1. ASSUME Init, NEW r \in Req PROVE skipped[r] = 0
    BY <2>1 DEF Init
  <2>2. ASSUME Init PROVE work.pc = "top"
    BY <2>2, IdleIs DEF Init
  <2>3. ASSUME Init PROVE Late(req, skipped, mode)
    BY <2>1, <2>3 DEF Late
  <2>4. ASSUME Init PROVE PassedOver(req, skipped, lists.decoding) /\ Even(skipped, streak, mode)
    BY <2>1, <2>4 DEF PassedOver, Even
  <2>. QED
    BY <2>2, <2>3, <2>4 DEF Turning, InTurn
<1>2. Scheduled /\ Turning /\ [Next]_vars => Turning'
  <2>1. SUFFICES ASSUME Scheduled, Turning, [Next]_vars PROVE Turning'
    OBVIOUS
  <2>2. TurningNext
    BY <2>1, NextTurns DEF Scheduled
  <2>3. mode' = mode
    BY <2>1, ModeFixed
  <2>. QED
    BY <2>2, <2>3 DEF Turning, TurningNext, InTurn, Late, PassedOver, Even, Allowed
<1>3. Turning => DecodersGetTurns
  BY DEF Turning, InTurn, Late, DecodersGetTurns
<1>. QED
  BY <1>1, <1>2, <1>3, SchedulerInvariant, PTL DEF Spec
=============================================================================
