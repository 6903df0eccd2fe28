-------------------------- MODULE SchedulerLemmas --------------------------
(***************************************************************************)
(* The text generation scheduler: what its operators do to the requests,   *)
(* the queue and the worker's lists, for any number of requests, any       *)
(* prompts, limits and runner pools.  SchedulerProofs has the invariant    *)
(* and the theorems.                                                       *)
(*                                                                         *)
(* The model folds over sequences and sets (Flat, Asked, UpdatedAll,       *)
(* RequeuedAll, ThrownAll and the budget): each fold is shown to be what   *)
(* its steps make of it, once, and lemmas on single requests then hold of  *)
(* all.                                                                    *)
(***************************************************************************)
EXTENDS Scheduler, SumLemmas, SequenceTheorems, FiniteSetTheorems, TLAPS

-----------------------------------------------------------------------------
(* Types *)

\* How a request may end.
Outcome == {"none", "lost", "deadline", "failed", "misuse", "cancelled", "length",
            "stop", "stop_sequence", "ended"}

\* A request, field by field.
Records ==
  [handle : {"none", "held", "dropped", "gone"}, out : Outcome,
   cancel : BOOLEAN, expired : BOOLEAN, counted : BOOLEAN, session : Nat,
   lease : {"none", "held", "returned", "kept"}, pos : Nat,
   capture : {"idle", "running"}, tried : BOOLEAN, adv : Nat,
   selected : BOOLEAN, tokens : Seq(Nat), due : BOOLEAN, preview : BOOLEAN,
   previewStops : BOOLEAN, advancing : BOOLEAN, pieces : Seq(Seq(Nat)),
   buffered : Nat, held : Seq(Nat), matched : BOOLEAN, delivered : Seq(Nat),
   listening : BOOLEAN, leader : Req \cup {NoReq}, leadPos : Nat,
   considered : BOOLEAN, pub : {"no", "waiting", "over"}, age : Nat]

\* What the buffered pieces cost.
CostOf(p) == FoldLeft(LAMBDA n, t : n + Cost(t), 0, p)

\* The requests whose buffer costs what it is said to cost.
Requests == {q \in Records : q.buffered = CostOf(q.pieces)}

\* The weights of the output budget.
Buffers(f) == [r \in Req |-> f[r].buffered]

\* A world in which the output budget is exact and within its limit.
Worlds ==
  {w \in [req : [Req -> Requests], budget : Nat, lost : {"no", "probe", "stall"}] :
     w.budget = SumOf(Buffers(w.req), Req) /\ w.budget <= MaxTotal}

\* A sequence without repetition.
Distinct(s) == \A i, j \in DOMAIN s : s[i] = s[j] => i = j

-----------------------------------------------------------------------------
(* A request by itself *)

\* The text the consumer has or can take.
Sent(q) == q.delivered \o Flat(q.pieces)

\* At any time: the tokens count up to the limit, what is buffered costs what
\* it is said to cost, and sent and withheld text are the tokens, but for what
\* a stop sequence or an early end cut off.
Stream(r, q) ==
  /\ q.tokens = [i \in 1 .. Len(q.tokens) |-> i]
  /\ Len(q.tokens) <= TokenLimit[r]
  /\ r \notin Streamed => q.delivered = <<>> /\ q.pieces = <<>>
  /\ q.matched => q.held = <<>>
  /\ r \in Streamed /\ q.listening =>
       \E gap \in Seq(Nat) :
         /\ (Sent(q) \o q.held) \o gap = q.tokens
         /\ q.out \in {"none", "stop", "length"} /\ ~q.matched => gap = <<>>

\* A token is published before the runner's state holds it, when it is
\* selected or previewed.
Ahead(q) == IF q.selected \/ q.preview THEN 1 ELSE 0

\* Between two work units.
Calm(r, q) ==
  /\ ~q.matched
  /\ q.selected <=> q.advancing
  /\ ~(q.selected /\ q.preview)
  /\ Len(q.tokens) = q.adv + Ahead(q)
  /\ q.adv < TokenLimit[r]
  /\ mode.batched => ~q.selected

\* Prepared for a single-token step.
Chosen(r, q) ==
  /\ ~q.matched /\ q.selected /\ ~q.advancing /\ ~q.preview
  /\ Len(q.tokens) = q.adv + 1
  /\ q.adv < TokenLimit[r]

\* Stepped with the result d, of which d.toks is still to publish.
Lane(r, q, d) ==
  /\ d.kind = "advanced" =>
       /\ ~q.matched /\ ~q.selected /\ ~q.advancing /\ ~q.preview
       /\ Len(q.tokens) = q.adv
  /\ d.kind = "tokens" =>
       /\ ~q.selected /\ ~q.advancing
       /\ d.toks \in Seq(Nat) /\ d.stop \in BOOLEAN
       /\ Len(q.tokens) + Len(d.toks) = q.adv + Ahead(q)
       /\ q.adv <= TokenLimit[r]
       /\ \A i \in DOMAIN d.toks : d.toks[i] = Len(q.tokens) - Ahead(q) + i
       /\ q.preview => d.toks # <<>> \/ d.stop

\* After its end.
Over(q) == ~q.counted /\ q.session = 0 /\ q.held = <<>> /\ ~q.matched

\* The worker's lists.
ListType ==
  [prefilling : Seq(Req), decoding : Seq(Req), capturing : Seq(Req), waiting : Seq(Req)]

\* The clients there are.
ClientIds == {Clients[r] : r \in Req}

-----------------------------------------------------------------------------
(* Folds over a sequence take its last index first. *)

\* A set of indices that is not empty has a greatest one.
LEMMA MaxIn ==
  ASSUME NEW n \in Nat, NEW d \in SUBSET (1 .. n), d # {}
  PROVE  Max(d) \in d /\ \A i \in d : i <= Max(d)
<1>. DEFINE Up == {k \in Nat : \A i \in d : i <= k}
<1>1. n \in Up
  OBVIOUS
<1>2. PICK m \in Up : \A k \in Up : m <= k
  <2>1. Up \in SUBSET Nat /\ Up # {}
    BY <1>1
  <2>. HIDE DEF Up
  <2>. QED
    BY <2>1, LeastNat
<1>3. m \in d
  <2>. SUFFICES ASSUME m \notin d PROVE FALSE
    OBVIOUS
  <2>1. PICK i : i \in d
    OBVIOUS
  <2>3. i \in Nat /\ i >= 1 /\ i <= m
    BY <2>1
  <2>2. m - 1 \in Nat /\ \A k \in d : k <= m - 1
    BY <2>3
  <2>. QED
    BY <1>2, <2>2
<1>. QED
  BY <1>2, <1>3, ZenonT(30) DEF Max

\* The picker of such a fold.
Greatest(n) == [d \in SUBSET (1 .. n) |-> Max(d)]

\* It picks a member of every set of indices that is not empty.
LEMMA GreatestPicks ==
  ASSUME NEW n \in Nat
  PROVE  Picks(Greatest(n), 1 .. n) /\ IsFiniteSet(1 .. n)
<1>1. IsFiniteSet(1 .. n)
  <2>1. 1 \in Int /\ n \in Int
    OBVIOUS
  <2>. QED
    BY <2>1, FS_Interval
<1>. QED
  BY <1>1, MaxIn, ZenonT(30) DEF Picks, Greatest

\* In a prefix it is the last index.
LEMMA PrefixStep ==
  ASSUME NEW n \in Nat, NEW k \in 1 .. n
  PROVE  /\ Greatest(n)[1 .. k] = k
         /\ (1 .. k) \ {k} = 1 .. (k - 1)
         /\ 1 .. k \in SUBSET (1 .. n) /\ 1 .. k # {}
<1>1. 1 .. k \in SUBSET (1 .. n) /\ k \in 1 .. k
  OBVIOUS
<1>2. Max(1 .. k) \in 1 .. k /\ \A i \in 1 .. k : i <= Max(1 .. k)
  BY <1>1, MaxIn, ZenonT(30)
<1>3. Max(1 .. k) = k
  BY <1>1, <1>2
<1>4. Greatest(n)[1 .. k] = k
  BY <1>1, <1>3 DEF Greatest
<1>. QED
  BY <1>1, <1>4

\* A sequence as a function.
LEMMA SeqFacts ==
  ASSUME NEW T, NEW s \in Seq(T)
  PROVE  /\ Len(s) \in Nat /\ DOMAIN s = 1 .. Len(s)
         /\ \A i \in 1 .. Len(s) : s[i] \in T
         /\ ToSet(s) = {s[i] : i \in 1 .. Len(s)} /\ ToSet(s) \subseteq T
BY LenProperties DEF ToSet

\* One element more at the end.
LEMMA AppendMembers ==
  ASSUME NEW T, NEW s \in Seq(T), NEW x \in T
  PROVE  /\ Append(s, x) \in Seq(T)
         /\ ToSet(Append(s, x)) = ToSet(s) \cup {x}
         /\ Distinct(s) /\ x \notin ToSet(s) => Distinct(Append(s, x))
<1>1. PICK n \in Nat : n = Len(s)
  BY SeqFacts
<1>2. DOMAIN s = 1 .. n /\ ToSet(s) = {s[i] : i \in 1 .. n}
  BY <1>1, SeqFacts
<1>3. PICK u : u = Append(s, x)
  BY ZenonT(30)
<1>4. u \in Seq(T) /\ Len(u) = n + 1 /\ (\A i \in 1 .. n : u[i] = s[i]) /\ u[n + 1] = x
  BY <1>1, <1>3, AppendProperties
<1>5. PICK m \in Nat : m = Len(u) /\ m = n + 1
  BY <1>4
<1>6. DOMAIN u = 1 .. m /\ ToSet(u) = {u[i] : i \in 1 .. m}
  BY <1>4, <1>5, SeqFacts, ZenonT(30)
<1>7. 1 .. m = (1 .. n) \cup {m}
  BY <1>5
<1>8. ToSet(u) = ToSet(s) \cup {x}
  BY <1>2, <1>4, <1>5, <1>6, <1>7
<1>9. ASSUME Distinct(s), x \notin ToSet(s) PROVE Distinct(u)
  <2>1. \A i \in 1 .. n : u[i] # x
    BY <1>2, <1>4, <1>9
  <2>. QED
    BY <1>2, <1>4, <1>5, <1>6, <1>7, <1>9, <2>1 DEF Distinct
<1>. QED
  BY <1>3, <1>4, <1>8, <1>9

\* Two sequences in a row.
LEMMA ConcatMembers ==
  ASSUME NEW T, NEW s \in Seq(T), NEW t \in Seq(T)
  PROVE  /\ s \o t \in Seq(T)
         /\ ToSet(s \o t) = ToSet(s) \cup ToSet(t)
         /\ Distinct(s) /\ Distinct(t) /\ ToSet(s) \cap ToSet(t) = {} => Distinct(s \o t)
<1>1. PICK n \in Nat : n = Len(s)
  BY SeqFacts
<1>2. DOMAIN s = 1 .. n /\ ToSet(s) = {s[i] : i \in 1 .. n}
  BY <1>1, SeqFacts
<1>3. PICK k \in Nat : k = Len(t)
  BY SeqFacts
<1>4. DOMAIN t = 1 .. k /\ ToSet(t) = {t[i] : i \in 1 .. k}
  BY <1>3, SeqFacts
<1>5. PICK u : u = s \o t
  BY ZenonT(30)
<1>6. u \in Seq(T) /\ Len(u) = n + k
      /\ \A i \in 1 .. n + k : u[i] = IF i <= n THEN s[i] ELSE t[i - n]
  BY <1>1, <1>3, <1>5, ConcatProperties
<1>7. PICK m \in Nat : m = Len(u) /\ m = n + k
  BY <1>6
<1>8. DOMAIN u = 1 .. m /\ ToSet(u) = {u[i] : i \in 1 .. m}
  BY <1>6, <1>7, SeqFacts, ZenonT(30)
<1>9. \A i \in 1 .. n : i \in 1 .. m /\ u[i] = s[i]
  BY <1>6, <1>7
<1>10. \A i \in 1 .. k : n + i \in 1 .. m /\ u[n + i] = t[i]
  BY <1>6, <1>7
<1>11. \A i \in 1 .. m : i \in 1 .. n \/ \E j \in 1 .. k : i = n + j
  <2>1. \A i \in 1 .. m : i \notin 1 .. n => i - n \in 1 .. k /\ i = n + (i - n)
    BY <1>7
  <2>. QED
    BY <2>1
<1>12. ToSet(u) = ToSet(s) \cup ToSet(t)
  <2>1. ToSet(u) \subseteq ToSet(s) \cup ToSet(t)
    <3>1. \A i \in 1 .. n : u[i] \in ToSet(s)
      BY <1>2, <1>9
    <3>2. \A j \in 1 .. k : u[n + j] \in ToSet(t)
      BY <1>4, <1>10, ZenonT(30)
    <3>3. \A i \in 1 .. m : u[i] \in ToSet(s) \cup ToSet(t)
      BY <1>11, <3>1, <3>2, ZenonT(30)
    <3>. QED
      BY <1>8, <3>3
  <2>2. ToSet(s) \cup ToSet(t) \subseteq ToSet(u)
    BY <1>2, <1>4, <1>8, <1>9, <1>10, ZenonT(30)
  <2>. QED
    BY <2>1, <2>2
<1>13. ASSUME Distinct(s), Distinct(t), ToSet(s) \cap ToSet(t) = {} PROVE Distinct(u)
  <2>. SUFFICES ASSUME NEW i \in 1 .. m, NEW j \in 1 .. m, u[i] = u[j] PROVE i = j
    BY <1>8 DEF Distinct
  <2>1. \A a \in 1 .. n : \A b \in 1 .. k : s[a] # t[b]
    BY <1>2, <1>4, <1>13, ZenonT(30)
  <2>6. \A a, b \in 1 .. n : s[a] = s[b] => a = b
    BY <1>2, <1>13, ZenonT(30) DEF Distinct
  <2>7. \A a, b \in 1 .. k : t[a] = t[b] => a = b
    BY <1>4, <1>13 DEF Distinct
  <2>2. CASE i \in 1 .. n /\ j \in 1 .. n
    BY <1>9, <2>2, <2>6
  <2>3. CASE i \in 1 .. n /\ \E b \in 1 .. k : j = n + b
    <3>1. PICK b \in 1 .. k : j = n + b
      BY <2>3
    <3>2. u[j] = t[b] /\ u[i] = s[i]
      BY <1>9, <1>10, <2>3, <3>1, ZenonT(30)
    <3>. QED
      BY <2>1, <2>3, <3>2
  <2>4. CASE j \in 1 .. n /\ \E b \in 1 .. k : i = n + b
    <3>1. PICK b \in 1 .. k : i = n + b
      BY <2>4
    <3>2. u[i] = t[b] /\ u[j] = s[j]
      BY <1>9, <1>10, <2>4, <3>1, ZenonT(30)
    <3>. QED
      BY <2>1, <2>4, <3>2
  <2>5. CASE (\E a \in 1 .. k : i = n + a) /\ \E b \in 1 .. k : j = n + b
    BY <1>10, <2>5, <2>7
  <2>. QED
    BY <1>11, <2>2, <2>3, <2>4, <2>5, ZenonT(30)
<1>. QED
  BY <1>5, <1>6, <1>12, <1>13

\* The first element and the rest.
LEMMA HeadTailMembers ==
  ASSUME NEW T, NEW s \in Seq(T), s # <<>>
  PROVE  /\ Head(s) \in T /\ Tail(s) \in Seq(T) /\ Head(s) = s[1]
         /\ Len(s) \in Nat /\ Len(s) >= 1 /\ Len(Tail(s)) = Len(s) - 1
         /\ Tail(s) = <<>> <=> Len(s) = 1
         /\ ToSet(s) = {Head(s)} \cup ToSet(Tail(s))
         /\ Distinct(s) => Distinct(Tail(s)) /\ Head(s) \notin ToSet(Tail(s))
<1>1. PICK n \in Nat : n = Len(s) /\ n >= 1
  BY EmptySeq
<1>2. DOMAIN s = 1 .. n /\ ToSet(s) = {s[i] : i \in 1 .. n}
  BY <1>1, SeqFacts
<1>3. PICK t : t = Tail(s)
  BY ZenonT(30)
<1>4. PICK k \in Nat : k = n - 1
  BY <1>1
<1>5. t \in Seq(T) /\ Len(t) = k /\ Head(s) \in T
  BY <1>1, <1>3, <1>4, HeadTailProperties
<1>6. \A i \in 1 .. k : t[i] = s[i + 1]
  BY <1>3, <1>5, HeadTailProperties
<1>7. DOMAIN t = 1 .. k /\ ToSet(t) = {t[i] : i \in 1 .. k}
  BY <1>5, SeqFacts
<1>8. Head(s) = s[1]
  OBVIOUS
<1>9. t = <<>> <=> n = 1
  BY <1>4, <1>5, EmptySeq
<1>10. \A i \in 1 .. n : i = 1 \/ \E j \in 1 .. k : i = j + 1
  <2>1. \A i \in 1 .. n : i # 1 => i - 1 \in 1 .. k /\ i = (i - 1) + 1
    BY <1>4
  <2>. QED
    BY <2>1
<1>11. \A j \in 1 .. k : j + 1 \in 1 .. n /\ j + 1 # 1
  BY <1>4
<1>12. ToSet(s) = {Head(s)} \cup ToSet(t)
  <2>1. ToSet(s) \subseteq {Head(s)} \cup ToSet(t)
    BY <1>2, <1>6, <1>7, <1>8, <1>10
  <2>2. {Head(s)} \cup ToSet(t) \subseteq ToSet(s)
    BY <1>1, <1>2, <1>6, <1>7, <1>8, <1>11
  <2>. QED
    BY <2>1, <2>2
<1>13. ASSUME Distinct(s) PROVE Distinct(t) /\ Head(s) \notin ToSet(t)
  <2>3. \A a, b \in 1 .. n : s[a] = s[b] => a = b
    BY <1>2, <1>13 DEF Distinct
  <2>4. \A a, b \in 1 .. k : t[a] = t[b] => a = b
    <3>. SUFFICES ASSUME NEW a \in 1 .. k, NEW b \in 1 .. k, t[a] = t[b] PROVE a = b
      OBVIOUS
    <3>1. a + 1 \in 1 .. n /\ b + 1 \in 1 .. n /\ s[a + 1] = s[b + 1]
      BY <1>6, <1>11, ZenonT(30)
    <3>. QED
      BY <2>3, <3>1
  <2>1. Distinct(t)
    BY <1>7, <2>4 DEF Distinct
  <2>2. Head(s) \notin ToSet(t)
    BY <1>1, <1>2, <1>6, <1>7, <1>8, <1>11, <1>13 DEF Distinct
  <2>. QED
    BY <2>1, <2>2
<1>. QED
  BY <1>1, <1>3, <1>4, <1>5, <1>8, <1>9, <1>12, <1>13

\* Short sequences.
LEMMA ShortMembers ==
  /\ ToSet(<<>>) = {} /\ Distinct(<<>>)
  /\ \A T : \A x \in T : <<x>> \in Seq(T) /\ ToSet(<<x>>) = {x} /\ Distinct(<<x>>)
                         /\ Head(<<x>>) = x /\ Len(<<x>>) = 1 /\ <<x>> # <<>>
BY DEF ToSet, Distinct

-----------------------------------------------------------------------------
(* Only *)

\* The fold behind Only, over each set of indices.
OnlyStep(g, s, S) ==
  g = [d \in SUBSET (DOMAIN s) |->
         IF d = {} THEN <<>>
         ELSE IF s[Max(d)] \in S THEN Append(g[d \ {Max(d)}], s[Max(d)])
              ELSE g[d \ {Max(d)}]]

\* Only is that fold.
LEMMA OnlyIs ==
  ASSUME NEW s, NEW S
  PROVE  Only(s, S) = (CHOOSE g : OnlyStep(g, s, S))[DOMAIN s]
BY DEF Only, FoldLeft, MapThenFoldSet, OnlyStep

\* There is such a fold.
LEMMA OnlyExists ==
  ASSUME NEW T, NEW s \in Seq(T), NEW S
  PROVE  \E g : OnlyStep(g, s, S)
<1>1. PICK n \in Nat : n = Len(s) /\ DOMAIN s = 1 .. n /\ \A i \in 1 .. n : s[i] \in T
  BY SeqFacts
<1>2. PICK c : c = Greatest(n)
  OBVIOUS
<1>3. Picks(c, 1 .. n) /\ IsFiniteSet(1 .. n)
  BY <1>2, GreatestPicks
<1>4. \A d \in SUBSET (1 .. n) : d # {} => c[d] = Max(d) /\ c[d] \in d /\ s[c[d]] \in T
  BY <1>1, <1>2, MaxIn, ZenonT(30) DEF Greatest
<1>5. PICK H : H = [d \in SUBSET (1 .. n) |-> [t \in Seq(T) |->
                      IF d # {} /\ s[c[d]] \in S THEN Append(t, s[c[d]]) ELSE t]]
  BY ZenonT(30)
<1>6. H \in [SUBSET (1 .. n) -> [Seq(T) -> Seq(T)]]
  BY <1>4, <1>5, AppendProperties
<1>7. PICK e : e = <<>> /\ e \in Seq(T)
  BY EmptySeq, ZenonT(30)
<1>8. PICK g \in [SUBSET (1 .. n) -> Seq(T)] : IsFold(g, 1 .. n, c, e, H)
  BY <1>3, <1>6, <1>7, FoldExists, ZenonT(30)
<1>9. \A d \in SUBSET (1 .. n) : g[d] = IF d = {} THEN <<>>
                   ELSE IF s[Max(d)] \in S THEN Append(g[d \ {Max(d)}], s[Max(d)])
                   ELSE g[d \ {Max(d)}]
  <2>. SUFFICES ASSUME NEW d \in SUBSET (1 .. n), d # {}
                PROVE  g[d] = IF s[Max(d)] \in S THEN Append(g[d \ {Max(d)}], s[Max(d)])
                              ELSE g[d \ {Max(d)}]
    BY <1>7, <1>8, ZenonT(30) DEF IsFold
  <2>1. PICK t \in Seq(T) : t = g[d \ {c[d]}]
    BY <1>8, ZenonT(30)
  <2>2. g[d] = H[d][t]
    BY <1>8, <2>1, ZenonT(30) DEF IsFold
  <2>3. H[d][t] = IF s[c[d]] \in S THEN Append(t, s[c[d]]) ELSE t
    BY <1>5
  <2>. QED
    BY <1>4, <2>1, <2>2, <2>3, ZenonT(30)
<1>10. OnlyStep(g, s, S)
  BY <1>1, <1>8, <1>9, ZenonT(30) DEF OnlyStep
<1>. QED
  BY <1>10

\* The members of a sequence that are in a set, none of them twice.
LEMMA OnlyMembers ==
  ASSUME NEW T, NEW s \in Seq(T), NEW S
  PROVE  /\ Only(s, S) \in Seq(T)
         /\ ToSet(Only(s, S)) = ToSet(s) \cap S
         /\ Distinct(s) => Distinct(Only(s, S))
<1>1. PICK n \in Nat : n = Len(s) /\ DOMAIN s = 1 .. n /\ \A i \in 1 .. n : s[i] \in T
  BY SeqFacts
<1>2. PICK c : c = Greatest(n)
  OBVIOUS
<1>3. Picks(c, 1 .. n) /\ IsFiniteSet(1 .. n)
  BY <1>2, GreatestPicks
<1>4. \A d \in SUBSET (1 .. n) : d # {} => c[d] = Max(d) /\ c[d] \in d /\ s[c[d]] \in T
  BY <1>1, <1>2, MaxIn, ZenonT(30) DEF Greatest
<1>5. PICK g : g = CHOOSE h : OnlyStep(h, s, S)
  OBVIOUS
<1>6. OnlyStep(g, s, S)
  BY <1>5, OnlyExists
<1>7. Only(s, S) = g[1 .. n]
  BY <1>1, <1>5, OnlyIs, ZenonT(30)
<1>. DEFINE Good(d, t) == /\ t \in Seq(T)
                          /\ ToSet(t) = {s[i] : i \in d} \cap S
                          /\ Distinct(s) => Distinct(t)
<1>8. PICK J : J = [d \in SUBSET (1 .. n) |-> {t \in Seq(T) : Good(d, t)}]
  BY ZenonT(30)
<1>9. g[{}] \in J[{}]
  <2>1. g[{}] = <<>>
    BY <1>6 DEF OnlyStep
  <2>2. <<>> \in Seq(T) /\ ToSet(<<>>) = {} /\ Distinct(<<>>)
    BY DEF ToSet, Distinct
  <2>. QED
    BY <1>8, <2>1, <2>2
<1>10. ASSUME NEW d \in SUBSET (1 .. n), d # {}, g[d \ {c[d]}] \in J[d \ {c[d]}]
       PROVE  g[d] \in J[d]
  <2>1. PICK t \in Seq(T) : t = g[d \ {c[d]}]
    BY <1>8, <1>10
  <2>2. Good(d \ {c[d]}, t)
    BY <1>8, <1>10, <2>1, ZenonT(30)
  <2>3. PICK x \in T : x = s[c[d]]
    BY <1>4, <1>10
  <2>4. g[d] = IF x \in S THEN Append(t, x) ELSE t
    BY <1>1, <1>4, <1>6, <1>10, <2>1, <2>3, ZenonT(30) DEF OnlyStep
  <2>5. {s[i] : i \in d} = {s[i] : i \in d \ {c[d]}} \cup {x}
    BY <1>4, <1>10, <2>3, ZenonT(30)
  <2>6. CASE x \notin S
    BY <1>8, <2>2, <2>4, <2>5, <2>6, ZenonT(30)
  <2>7. CASE x \in S
    <3>1. PICK u : u = Append(t, x)
      BY ZenonT(30)
    <3>2. u \in Seq(T) /\ ToSet(u) = ToSet(t) \cup {x}
      BY <3>1, AppendMembers
    <3>3. ASSUME Distinct(s) PROVE Distinct(u)
      <4>1. x \notin ToSet(t)
        BY <1>1, <1>4, <1>10, <2>2, <2>3, <3>3, ZenonT(30) DEF Distinct
      <4>. QED
        BY <2>2, <3>1, <3>3, <4>1, AppendMembers
    <3>6. Good(d, u)
      BY <2>2, <2>5, <2>7, <3>2, <3>3, ZenonT(30)
    <3>. QED
      BY <1>8, <2>4, <2>7, <3>1, <3>2, <3>6
  <2>. QED
    BY <2>6, <2>7
<1>11. g[1 .. n] \in J[1 .. n]
  <2>. HIDE DEF Good
  <2>. QED
    BY <1>3, <1>9, <1>10, FoldInduction, ZenonT(30)
<1>12. Good(1 .. n, g[1 .. n])
  BY <1>8, <1>11
<1>13. ToSet(s) = {s[i] : i \in 1 .. n}
  BY <1>1, SeqFacts
<1>. QED
  BY <1>7, <1>12, <1>13

-----------------------------------------------------------------------------
(* Cost and text of the buffered pieces *)

\* What holds of zero and passes from each number to the next holds up to n.
LEMMA CountUp ==
  ASSUME NEW n \in Nat, NEW G \in SUBSET Nat, 0 \in G,
         \A k \in 1 .. n : k - 1 \in G => k \in G
  PROVE  0 .. n \subseteq G
<1>. DEFINE Bad == {k \in 0 .. n : k \notin G}
<1>1. SUFFICES ASSUME Bad # {} PROVE FALSE
  OBVIOUS
<1>2. PICK m \in Bad : \A k \in Bad : m <= k
  <2>1. Bad \in SUBSET Nat
    OBVIOUS
  <2>. HIDE DEF Bad
  <2>. QED
    BY <1>1, <2>1, LeastNat
<1>3. m \in 1 .. n /\ m \notin G /\ m - 1 \in 0 .. n
  OBVIOUS
<1>4. m - 1 \notin Bad
  <2>1. m - 1 < m /\ m - 1 \in Nat /\ m \in Nat
    BY <1>3
  <2>. HIDE DEF Bad
  <2>. QED
    BY <1>2, <2>1
<1>. QED
  BY <1>3, <1>4

\* The fold behind the cost of the pieces.
CostStep(g, p) ==
  g = [d \in SUBSET (DOMAIN p) |->
         IF d = {} THEN 0 ELSE g[d \ {Max(d)}] + Cost(p[Max(d)])]

\* CostOf is that fold.
LEMMA CostIs ==
  ASSUME NEW p
  PROVE  CostOf(p) = (CHOOSE g : CostStep(g, p))[DOMAIN p]
BY DEF CostOf, FoldLeft, MapThenFoldSet, CostStep

\* A text costs at least one.
LEMMA CostNat ==
  ASSUME NEW t \in Seq(Nat)
  PROVE  Cost(t) \in Nat /\ Cost(t) >= 1
<1>1. PICK n \in Nat : n = Len(t) /\ (t # <<>> => n # 0)
  BY EmptySeq, SeqFacts
<1>. QED
  BY <1>1 DEF Cost

\* The cost of the first k pieces, for every k.
CostSteps(h, p) ==
  /\ h \in [0 .. Len(p) -> Nat] /\ h[0] = 0
  /\ \A k \in 1 .. Len(p) : h[k] = h[k - 1] + Cost(p[k])

\* The cost of all pieces is reached from zero piece by piece.
LEMMA CostByStep ==
  ASSUME NEW p \in Seq(Seq(Nat))
  PROVE  \E h : CostSteps(h, p) /\ CostOf(p) = h[Len(p)]
<1>1. PICK n \in Nat : n = Len(p) /\ DOMAIN p = 1 .. n /\ \A i \in 1 .. n : p[i] \in Seq(Nat)
  BY SeqFacts
<1>2. PICK c : c = Greatest(n)
  OBVIOUS
<1>3. Picks(c, 1 .. n) /\ IsFiniteSet(1 .. n)
  BY <1>2, GreatestPicks
<1>4. \A d \in SUBSET (1 .. n) : d # {} => c[d] = Max(d) /\ c[d] \in 1 .. n
  BY <1>2, MaxIn, ZenonT(30) DEF Greatest
<1>5. PICK w : w = [i \in 1 .. n |-> Cost(p[i])]
  BY ZenonT(30)
<1>6. w \in [1 .. n -> Nat] /\ \A i \in 1 .. n : w[i] = Cost(p[i])
  BY <1>1, <1>5, CostNat
<1>7. PICK H : H = [d \in SUBSET (1 .. n) |-> [x \in Nat |-> IF d = {} THEN x ELSE x + w[c[d]]]]
  BY ZenonT(30)
<1>8. H \in [SUBSET (1 .. n) -> [Nat -> Nat]]
  <2>1. \A d \in SUBSET (1 .. n) : d # {} => w[c[d]] \in Nat
    BY <1>4, <1>6
  <2>2. \A x \in Nat : \A y \in Nat : x + y \in Nat
    OBVIOUS
  <2>3. \A d \in SUBSET (1 .. n) : \A x \in Nat : (IF d = {} THEN x ELSE x + w[c[d]]) \in Nat
    BY <2>1, <2>2, ZenonT(30)
  <2>. QED
    BY <1>7, <2>3, ZenonT(30)
<1>9. PICK e \in Nat : e = 0
  OBVIOUS
<1>10. PICK f \in [SUBSET (1 .. n) -> Nat] : IsFold(f, 1 .. n, c, e, H)
  BY <1>3, <1>8, <1>9, FoldExists, ZenonT(30)
<1>11. \A d \in SUBSET (1 .. n) : d # {} => f[d] = f[d \ {c[d]}] + Cost(p[c[d]])
  <2>. SUFFICES ASSUME NEW d \in SUBSET (1 .. n), d # {}
                PROVE  f[d] = f[d \ {c[d]}] + Cost(p[c[d]])
    BY ZenonT(30)
  <2>1. PICK x \in Nat : x = f[d \ {c[d]}]
    BY <1>10, ZenonT(30)
  <2>2. f[d] = H[d][x]
    BY <1>10, <2>1, ZenonT(30) DEF IsFold
  <2>3. H[d][x] = x + w[c[d]]
    BY <1>7, ZenonT(30)
  <2>4. w[c[d]] = Cost(p[c[d]])
    BY <1>4, <1>6, ZenonT(30)
  <2>. QED
    BY <2>1, <2>2, <2>3, <2>4
<1>12. CostStep(f, p)
  <2>1. \A d \in SUBSET (1 .. n) : f[d] = IF d = {} THEN 0 ELSE f[d \ {Max(d)}] + Cost(p[Max(d)])
    BY <1>4, <1>9, <1>10, <1>11, ZenonT(30) DEF IsFold
  <2>. QED
    BY <1>1, <1>10, <2>1, ZenonT(30) DEF CostStep
<1>13. PICK g : g = CHOOSE h : CostStep(h, p)
  BY ZenonT(30)
<1>14. CostStep(g, p)
  BY <1>12, <1>13
<1>15. CostOf(p) = g[1 .. n]
  BY <1>1, <1>13, CostIs
<1>16. g[1 .. 0] = 0 /\ \A k \in 1 .. n : g[1 .. k] = g[1 .. (k - 1)] + Cost(p[k])
  <2>1. \A d \in SUBSET (1 .. n) : g[d] = IF d = {} THEN 0 ELSE g[d \ {Max(d)}] + Cost(p[Max(d)])
    BY <1>1, <1>14, ZenonT(30) DEF CostStep
  <2>2. 1 .. 0 = {}
    OBVIOUS
  <2>3. ASSUME NEW k \in 1 .. n PROVE g[1 .. k] = g[1 .. (k - 1)] + Cost(p[k])
    <3>1. PICK d \in SUBSET (1 .. n) : d = 1 .. k /\ d # {} /\ Max(d) = k /\ d \ {k} = 1 .. (k - 1)
      BY PrefixStep, ZenonT(30) DEF Greatest
    <3>. QED
      BY <2>1, <3>1, ZenonT(30)
  <2>. QED
    BY <2>1, <2>2, <2>3, ZenonT(30)
<1>17. PICK h : h = [k \in 0 .. n |-> g[1 .. k]]
  BY ZenonT(30)
<1>18. h[0] = 0 /\ \A k \in 1 .. n : h[k] = h[k - 1] + Cost(p[k])
  <2>1. \A k \in 1 .. n : k \in 0 .. n /\ k - 1 \in 0 .. n
    OBVIOUS
  <2>2. h[0] = g[1 .. 0] /\ \A k \in 1 .. n : h[k] = g[1 .. k] /\ h[k - 1] = g[1 .. (k - 1)]
    BY <1>17, <2>1
  <2>. QED
    BY <1>16, <2>2
<1>19. h \in [0 .. n -> Nat]
  <2>1. PICK G : G = {k \in Nat : k <= n => h[k] \in Nat}
    BY ZenonT(30)
  <2>2. \A k \in 1 .. n : k - 1 \in G => k \in G
    <3>. SUFFICES ASSUME NEW k \in 1 .. n, k - 1 \in G PROVE k \in G
      OBVIOUS
    <3>1. h[k - 1] \in Nat
      BY <2>1
    <3>2. Cost(p[k]) \in Nat
      BY <1>1, CostNat
    <3>3. h[k] \in Nat
      BY <1>18, <3>1, <3>2
    <3>. QED
      BY <2>1, <3>3
  <2>3. G \in SUBSET Nat /\ 0 \in G
    BY <1>18, <2>1
  <2>4. 0 .. n \subseteq G
    BY <2>2, <2>3, CountUp, ZenonT(30)
  <2>5. \A k \in 0 .. n : h[k] \in Nat
    BY <2>1, <2>4
  <2>6. \A k \in 0 .. n : g[1 .. k] \in Nat
    BY <1>17, <2>5
  <2>. QED
    BY <1>17, <2>6, ZenonT(30)
<1>20. h[n] = g[1 .. n]
  <2>1. n \in 0 .. n
    OBVIOUS
  <2>. QED
    BY <1>17, <2>1
<1>21. CostSteps(h, p)
  BY <1>1, <1>18, <1>19 DEF CostSteps
<1>. QED
  BY <1>1, <1>15, <1>20, <1>21

\* The fold behind the text of the pieces.
FlatStep(g, p) ==
  g = [d \in SUBSET (DOMAIN p) |->
         IF d = {} THEN <<>> ELSE g[d \ {Max(d)}] \o p[Max(d)]]

\* Flat is that fold.
LEMMA FlatIs ==
  ASSUME NEW p
  PROVE  Flat(p) = (CHOOSE g : FlatStep(g, p))[DOMAIN p]
BY DEF Flat, FoldLeft, MapThenFoldSet, FlatStep

\* The text of the first k pieces, for every k.
FlatSteps(h, p) ==
  /\ h \in [0 .. Len(p) -> Seq(Nat)] /\ h[0] = <<>>
  /\ \A k \in 1 .. Len(p) : h[k] = h[k - 1] \o p[k]

\* The text of all pieces is reached from the empty one piece by piece.
LEMMA FlatByStep ==
  ASSUME NEW p \in Seq(Seq(Nat))
  PROVE  \E h : FlatSteps(h, p) /\ Flat(p) = h[Len(p)]
<1>1. PICK n \in Nat : n = Len(p) /\ DOMAIN p = 1 .. n /\ \A i \in 1 .. n : p[i] \in Seq(Nat)
  BY SeqFacts
<1>2. PICK c : c = Greatest(n)
  OBVIOUS
<1>3. Picks(c, 1 .. n) /\ IsFiniteSet(1 .. n)
  BY <1>2, GreatestPicks
<1>4. \A d \in SUBSET (1 .. n) : d # {} => c[d] = Max(d) /\ c[d] \in 1 .. n
  BY <1>2, MaxIn, ZenonT(30) DEF Greatest
<1>5. PICK w : w = [i \in 1 .. n |-> p[i]]
  BY ZenonT(30)
<1>6. w \in [1 .. n -> Seq(Nat)] /\ \A i \in 1 .. n : w[i] = p[i]
  BY <1>1, <1>5
<1>7. PICK H : H = [d \in SUBSET (1 .. n) |-> [x \in Seq(Nat) |-> IF d = {} THEN x ELSE x \o w[c[d]]]]
  BY ZenonT(30)
<1>8. H \in [SUBSET (1 .. n) -> [Seq(Nat) -> Seq(Nat)]]
  <2>1. \A d \in SUBSET (1 .. n) : d # {} => w[c[d]] \in Seq(Nat)
    BY <1>4, <1>6
  <2>2. \A x \in Seq(Nat) : \A y \in Seq(Nat) : x \o y \in Seq(Nat)
    BY ConcatProperties
  <2>3. \A d \in SUBSET (1 .. n) : \A x \in Seq(Nat) : (IF d = {} THEN x ELSE x \o w[c[d]]) \in Seq(Nat)
    BY <2>1, <2>2, ZenonT(30)
  <2>. QED
    BY <1>7, <2>3, ZenonT(30)
<1>9. PICK e \in Seq(Nat) : e = <<>>
  BY EmptySeq, ZenonT(30)
<1>10. PICK f \in [SUBSET (1 .. n) -> Seq(Nat)] : IsFold(f, 1 .. n, c, e, H)
  BY <1>3, <1>8, <1>9, FoldExists, ZenonT(30)
<1>11. \A d \in SUBSET (1 .. n) : d # {} => f[d] = f[d \ {c[d]}] \o p[c[d]]
  <2>. SUFFICES ASSUME NEW d \in SUBSET (1 .. n), d # {}
                PROVE  f[d] = f[d \ {c[d]}] \o p[c[d]]
    BY ZenonT(30)
  <2>1. PICK x \in Seq(Nat) : x = f[d \ {c[d]}]
    BY <1>10, ZenonT(30)
  <2>2. f[d] = H[d][x]
    BY <1>10, <2>1, ZenonT(30) DEF IsFold
  <2>3. H[d][x] = x \o w[c[d]]
    BY <1>7, ZenonT(30)
  <2>4. w[c[d]] = p[c[d]]
    BY <1>4, <1>6, ZenonT(30)
  <2>. QED
    BY <2>1, <2>2, <2>3, <2>4
<1>12. FlatStep(f, p)
  <2>1. \A d \in SUBSET (1 .. n) : f[d] = IF d = {} THEN <<>> ELSE f[d \ {Max(d)}] \o p[Max(d)]
    BY <1>4, <1>9, <1>10, <1>11, ZenonT(30) DEF IsFold
  <2>. QED
    BY <1>1, <1>10, <2>1, ZenonT(30) DEF FlatStep
<1>13. PICK g : g = CHOOSE h : FlatStep(h, p)
  BY ZenonT(30)
<1>14. FlatStep(g, p)
  BY <1>12, <1>13
<1>15. Flat(p) = g[1 .. n]
  BY <1>1, <1>13, FlatIs
<1>16. g[1 .. 0] = <<>> /\ \A k \in 1 .. n : g[1 .. k] = g[1 .. (k - 1)] \o p[k]
  <2>1. \A d \in SUBSET (1 .. n) : g[d] = IF d = {} THEN <<>> ELSE g[d \ {Max(d)}] \o p[Max(d)]
    BY <1>1, <1>14, ZenonT(30) DEF FlatStep
  <2>2. 1 .. 0 = {}
    OBVIOUS
  <2>3. ASSUME NEW k \in 1 .. n PROVE g[1 .. k] = g[1 .. (k - 1)] \o p[k]
    <3>1. PICK d \in SUBSET (1 .. n) : d = 1 .. k /\ d # {} /\ Max(d) = k /\ d \ {k} = 1 .. (k - 1)
      BY PrefixStep, ZenonT(30) DEF Greatest
    <3>. QED
      BY <2>1, <3>1, ZenonT(30)
  <2>. QED
    BY <2>1, <2>2, <2>3, ZenonT(30)
<1>17. PICK h : h = [k \in 0 .. n |-> g[1 .. k]]
  BY ZenonT(30)
<1>18. h[0] = <<>> /\ \A k \in 1 .. n : h[k] = h[k - 1] \o p[k]
  <2>1. \A k \in 1 .. n : k \in 0 .. n /\ k - 1 \in 0 .. n
    OBVIOUS
  <2>2. h[0] = g[1 .. 0] /\ \A k \in 1 .. n : h[k] = g[1 .. k] /\ h[k - 1] = g[1 .. (k - 1)]
    BY <1>17, <2>1
  <2>. QED
    BY <1>16, <2>2, ZenonT(30)
<1>19. h \in [0 .. n -> Seq(Nat)]
  <2>1. PICK G : G = {k \in Nat : k <= n => h[k] \in Seq(Nat)}
    BY ZenonT(30)
  <2>2. \A k \in 1 .. n : k - 1 \in G => k \in G
    <3>. SUFFICES ASSUME NEW k \in 1 .. n, k - 1 \in G PROVE k \in G
      OBVIOUS
    <3>1. h[k - 1] \in Seq(Nat)
      BY <2>1
    <3>2. p[k] \in Seq(Nat)
      BY <1>1
    <3>3. h[k] \in Seq(Nat)
      BY <1>18, <3>1, <3>2, ConcatProperties, ZenonT(30)
    <3>. QED
      BY <2>1, <3>3
  <2>3. G \in SUBSET Nat /\ 0 \in G
    BY <1>18, <2>1, EmptySeq, ZenonT(30)
  <2>4. 0 .. n \subseteq G
    BY <2>2, <2>3, CountUp, ZenonT(30)
  <2>5. \A k \in 0 .. n : h[k] \in Seq(Nat)
    BY <2>1, <2>4
  <2>6. \A k \in 0 .. n : g[1 .. k] \in Seq(Nat)
    BY <1>17, <2>5
  <2>. QED
    BY <1>17, <2>6, ZenonT(30)
<1>20. h[n] = g[1 .. n]
  <2>1. n \in 0 .. n
    OBVIOUS
  <2>. QED
    BY <1>17, <2>1
<1>21. FlatSteps(h, p)
  BY <1>1, <1>18, <1>19, ZenonT(30) DEF FlatSteps
<1>. QED
  BY <1>1, <1>15, <1>20, <1>21

\* Texts can be put together in any order.
LEMMA TextAssociative ==
  ASSUME NEW a \in Seq(Nat), NEW b \in Seq(Nat), NEW c \in Seq(Nat)
  PROVE  (a \o b) \o c = a \o (b \o c)
BY ConcatAssociative, SMT

\* Nothing costs nothing; a piece more at the end adds its cost and its text.
LEMMA PiecesEmpty ==
  CostOf(<<>>) = 0 /\ Flat(<<>>) = <<>>
<1>1. <<>> \in Seq(Seq(Nat)) /\ Len(<<>>) = 0
  OBVIOUS
<1>2. PICK p \in Seq(Seq(Nat)) : p = <<>> /\ Len(p) = 0
  BY <1>1, ZenonT(30)
<1>3. PICK h : CostSteps(h, p) /\ CostOf(p) = h[Len(p)]
  BY CostByStep
<1>4. PICK g : FlatSteps(g, p) /\ Flat(p) = g[Len(p)]
  BY FlatByStep
<1>. QED
  BY <1>2, <1>3, <1>4 DEF CostSteps, FlatSteps

\* One piece more: its cost is added, its text comes last.
LEMMA PiecesAppend ==
  ASSUME NEW p \in Seq(Seq(Nat)), NEW t \in Seq(Nat)
  PROVE  /\ CostOf(Append(p, t)) = CostOf(p) + Cost(t)
         /\ Flat(Append(p, t)) = Flat(p) \o t
         /\ CostOf(p) \in Nat /\ Flat(p) \in Seq(Nat)
<1>1. PICK n \in Nat : n = Len(p)
  BY SeqFacts
<1>2. PICK u : u = Append(p, t)
  BY ZenonT(30)
<1>3. u \in Seq(Seq(Nat)) /\ Len(u) = n + 1 /\ (\A i \in 1 .. n : u[i] = p[i]) /\ u[n + 1] = t
  BY <1>1, <1>2, AppendProperties
<1>4. PICK m \in Nat : m = n + 1 /\ Len(u) = m
  BY <1>3
<1>5. PICK h : CostSteps(h, p) /\ CostOf(p) = h[n]
  BY <1>1, CostByStep
<1>6. PICK k : CostSteps(k, u) /\ CostOf(u) = k[m]
  BY <1>3, <1>4, CostByStep, ZenonT(30)
<1>7. k[n] = h[n]
  <2>1. PICK G : G = {i \in Nat : i <= n => k[i] = h[i]}
    BY ZenonT(30)
  <2>2. \A i \in 1 .. n : k[i] = k[i - 1] + Cost(p[i]) /\ h[i] = h[i - 1] + Cost(p[i])
    <3>1. \A i \in 1 .. n : i \in 1 .. m
      BY <1>4
    <3>. QED
      BY <1>1, <1>3, <1>4, <1>5, <1>6, <3>1 DEF CostSteps
  <2>3. \A i \in 1 .. n : i - 1 \in G => i \in G
    <3>. SUFFICES ASSUME NEW i \in 1 .. n, i - 1 \in G PROVE i \in G
      OBVIOUS
    <3>1. k[i - 1] = h[i - 1]
      BY <2>1
    <3>. QED
      BY <2>1, <2>2, <3>1
  <2>4. G \in SUBSET Nat /\ 0 \in G
    BY <1>5, <1>6, <2>1 DEF CostSteps
  <2>5. 0 .. n \subseteq G
    BY <2>3, <2>4, CountUp, ZenonT(30)
  <2>. QED
    BY <2>1, <2>5
<1>8. k[m] = k[n] + Cost(t)
  <2>1. m \in 1 .. m /\ m - 1 = n
    BY <1>4
  <2>. QED
    BY <1>3, <1>4, <1>6, <2>1 DEF CostSteps
<1>9. PICK f : FlatSteps(f, p) /\ Flat(p) = f[n]
  BY <1>1, FlatByStep
<1>10. PICK g : FlatSteps(g, u) /\ Flat(u) = g[m]
  BY <1>3, <1>4, FlatByStep, ZenonT(30)
<1>11. g[n] = f[n]
  <2>1. PICK G : G = {i \in Nat : i <= n => g[i] = f[i]}
    BY ZenonT(30)
  <2>2. \A i \in 1 .. n : g[i] = g[i - 1] \o p[i] /\ f[i] = f[i - 1] \o p[i]
    <3>1. \A i \in 1 .. n : i \in 1 .. m
      BY <1>4
    <3>. QED
      BY <1>1, <1>3, <1>4, <1>9, <1>10, <3>1, ZenonT(30) DEF FlatSteps
  <2>3. \A i \in 1 .. n : i - 1 \in G => i \in G
    <3>. SUFFICES ASSUME NEW i \in 1 .. n, i - 1 \in G PROVE i \in G
      OBVIOUS
    <3>1. g[i - 1] = f[i - 1]
      BY <2>1
    <3>2. g[i] = g[i - 1] \o p[i] /\ f[i] = f[i - 1] \o p[i]
      BY <2>2, ZenonT(30)
    <3>3. g[i] = f[i]
      BY <3>1, <3>2, ZenonT(30)
    <3>. QED
      BY <2>1, <3>3
  <2>4. G \in SUBSET Nat /\ 0 \in G
    BY <1>9, <1>10, <2>1 DEF FlatSteps
  <2>5. 0 .. n \subseteq G
    BY <2>3, <2>4, CountUp, ZenonT(30)
  <2>. QED
    BY <2>1, <2>5
<1>12. g[m] = g[n] \o t
  <2>1. m \in 1 .. m /\ m - 1 = n
    BY <1>4
  <2>. QED
    BY <1>3, <1>4, <1>10, <2>1, ZenonT(30) DEF FlatSteps
<1>13. h[n] \in Nat /\ f[n] \in Seq(Nat)
  <2>1. n \in 0 .. n
    OBVIOUS
  <2>. QED
    BY <1>1, <1>5, <1>9, <2>1, ZenonT(30) DEF CostSteps, FlatSteps
<1>. QED
  BY <1>2, <1>5, <1>6, <1>7, <1>8, <1>9, <1>10, <1>11, <1>12, <1>13

\* The first piece and the rest.
LEMMA PiecesTail ==
  ASSUME NEW p \in Seq(Seq(Nat)), p # <<>>
  PROVE  /\ Head(p) \in Seq(Nat) /\ Tail(p) \in Seq(Seq(Nat))
         /\ CostOf(p) = Cost(Head(p)) + CostOf(Tail(p))
         /\ Flat(p) = Head(p) \o Flat(Tail(p))
<1>1. PICK u : u = Tail(p)
  BY ZenonT(30)
<1>2. PICK t : t = Head(p)
  OBVIOUS
<1>3. PICK m \in Nat : m = Len(p) /\ m >= 1
  <2>1. PICK T : T = Seq(Nat)
    OBVIOUS
  <2>2. p \in Seq(T)
    BY <2>1
  <2>. QED
    BY <2>2, HeadTailMembers
<1>4. PICK n \in Nat : n = m - 1
  <2>1. \A i \in Nat : i >= 1 => i - 1 \in Nat
    OBVIOUS
  <2>. QED
    BY <1>3, <2>1, ZenonT(30)
<1>5. t \in Seq(Nat) /\ u \in Seq(Seq(Nat)) /\ Len(u) = n /\ t = p[1]
  BY <1>1, <1>2, <1>3, <1>4, HeadTailMembers
<1>6. \A i \in 1 .. n : u[i] = p[i + 1] /\ u[i] \in Seq(Nat)
  BY <1>1, <1>5, HeadTailProperties, ElementOfSeq
<1>7. \A i \in 1 .. n : i + 1 \in 1 .. m /\ (i + 1) - 1 = i /\ i - 1 \in 0 .. n /\ i \in 0 .. n
  BY <1>4
<1>8. 1 \in 1 .. m /\ 1 - 1 = 0 /\ n \in 0 .. n /\ 0 \in 0 .. n /\ m = n + 1
  BY <1>3, <1>4
<1>9. Cost(t) \in Nat
  BY <1>5, CostNat
<1>10. CostOf(p) = Cost(t) + CostOf(u)
  <2>1. PICK h : CostSteps(h, u) /\ CostOf(u) = h[n]
    BY <1>5, CostByStep
  <2>2. PICK k : CostSteps(k, p) /\ CostOf(p) = k[m]
    BY <1>3, CostByStep
  <2>3. PICK G : G = {i \in Nat : i <= n => k[i + 1] = Cost(t) + h[i]}
    BY ZenonT(30)
  <2>4. \A i \in 1 .. n : k[i + 1] = k[i] + Cost(u[i]) /\ h[i] = h[i - 1] + Cost(u[i])
    BY <1>3, <1>5, <1>6, <1>7, <2>1, <2>2, ZenonT(30) DEF CostSteps
  <2>5. h \in [0 .. n -> Nat] /\ h[0] = 0 /\ k[0] = 0 /\ k[1] = k[1 - 1] + Cost(p[1])
    BY <1>3, <1>5, <1>8, <2>1, <2>2, ZenonT(30) DEF CostSteps
  <2>6. \A i \in 1 .. n : i - 1 \in G => i \in G
    <3>. SUFFICES ASSUME NEW i \in 1 .. n, i - 1 \in G PROVE i \in G
      OBVIOUS
    <3>1. k[(i - 1) + 1] = Cost(t) + h[i - 1]
      BY <2>3
    <3>2. (i - 1) + 1 = i
      OBVIOUS
    <3>3. k[i] = Cost(t) + h[i - 1]
      BY <3>1, <3>2
    <3>4. h[i - 1] \in Nat /\ Cost(u[i]) \in Nat
      BY <1>6, <1>7, <2>5, CostNat, ZenonT(30)
    <3>5. k[i + 1] = Cost(t) + h[i]
      BY <1>9, <2>4, <3>3, <3>4
    <3>. QED
      BY <2>3, <3>5
  <2>7. G \in SUBSET Nat /\ 0 \in G
    <3>1. k[1] = Cost(t) + h[0]
      BY <1>5, <1>8, <1>9, <2>5
    <3>2. 0 + 1 = 1
      OBVIOUS
    <3>. QED
      BY <2>3, <3>1, <3>2
  <2>8. 0 .. n \subseteq G
    BY <2>6, <2>7, CountUp, ZenonT(30)
  <2>9. k[n + 1] = Cost(t) + h[n]
    BY <2>3, <2>8
  <2>. QED
    BY <1>8, <2>1, <2>2, <2>9
<1>11. Flat(p) = t \o Flat(u)
  <2>1. PICK h : FlatSteps(h, u) /\ Flat(u) = h[n]
    BY <1>5, FlatByStep
  <2>2. PICK k : FlatSteps(k, p) /\ Flat(p) = k[m]
    BY <1>3, FlatByStep
  <2>3. PICK G : G = {i \in Nat : i <= n => k[i + 1] = t \o h[i]}
    BY ZenonT(30)
  <2>4. \A i \in 1 .. n : k[i + 1] = k[i] \o u[i] /\ h[i] = h[i - 1] \o u[i]
    BY <1>3, <1>5, <1>6, <1>7, <2>1, <2>2, ZenonT(30) DEF FlatSteps
  <2>5. h \in [0 .. n -> Seq(Nat)] /\ h[0] = <<>> /\ k[0] = <<>> /\ k[1] = k[1 - 1] \o p[1]
    BY <1>3, <1>5, <1>8, <2>1, <2>2, ZenonT(30) DEF FlatSteps
  <2>6. \A i \in 1 .. n : i - 1 \in G => i \in G
    <3>. SUFFICES ASSUME NEW i \in 1 .. n, i - 1 \in G PROVE i \in G
      OBVIOUS
    <3>1. k[(i - 1) + 1] = t \o h[i - 1]
      BY <2>3
    <3>2. (i - 1) + 1 = i
      OBVIOUS
    <3>3. k[i] = t \o h[i - 1]
      BY <3>1, <3>2
    <3>4. h[i - 1] \in Seq(Nat) /\ u[i] \in Seq(Nat)
      BY <1>6, <1>7, <2>5
    <3>5. (t \o h[i - 1]) \o u[i] = t \o (h[i - 1] \o u[i])
      <4>1. PICK a \in Seq(Nat) : a = h[i - 1]
        BY <3>4
      <4>2. PICK b \in Seq(Nat) : b = u[i]
        BY <3>4
      <4>3. (t \o a) \o b = t \o (a \o b)
        BY <1>5, TextAssociative, ZenonT(30)
      <4>. QED
        BY <4>1, <4>2, <4>3, ZenonT(30)
    <3>6. k[i + 1] = k[i] \o u[i] /\ h[i] = h[i - 1] \o u[i]
      BY <2>4, ZenonT(30)
    <3>7. k[i + 1] = t \o h[i]
      BY <3>3, <3>5, <3>6, ZenonT(30)
    <3>. QED
      BY <2>3, <3>7
  <2>7. G \in SUBSET Nat /\ 0 \in G
    <3>1. k[1] = t \o h[0]
      BY <1>5, <1>8, <2>5, ConcatEmptySeq, ZenonT(30)
    <3>2. 0 + 1 = 1
      OBVIOUS
    <3>. QED
      BY <2>3, <3>1, <3>2
  <2>8. 0 .. n \subseteq G
    BY <2>6, <2>7, CountUp, ZenonT(30)
  <2>9. k[n + 1] = t \o h[n]
    BY <2>3, <2>8
  <2>. QED
    BY <1>8, <2>1, <2>2, <2>9
<1>. QED
  BY <1>1, <1>2, <1>5, <1>10, <1>11

-----------------------------------------------------------------------------
(* The output budget *)

\* The fold behind what all requests have buffered.
BufferStep(g, f) ==
  g = [s \in SUBSET Req |-> IF s = {} THEN 0
         ELSE f[CHOOSE x \in s : TRUE].buffered + g[s \ {CHOOSE x \in s : TRUE}]]

\* The sum in BudgetExact is that fold.
LEMMA BufferedIs ==
  MapThenSumSet(LAMBDA r : req[r].buffered, Req) = (CHOOSE g : BufferStep(g, req))[Req]
BY DEF MapThenSumSet, MapThenFoldSet, BufferStep

\* The weights are natural numbers.
LEMMA BuffersType ==
  ASSUME NEW f \in [Req -> Requests]
  PROVE  Buffers(f) \in [Req -> Nat] /\ \A r \in Req : Buffers(f)[r] = f[r].buffered
BY DEF Buffers, Requests, Records

\* What the model sums up is a sum in the sense of SumLemmas.
LEMMA BufferedSum ==
  ASSUME NEW f \in [Req -> Requests], f = req
  PROVE  MapThenSumSet(LAMBDA r : req[r].buffered, Req) = SumOf(Buffers(f), Req)
<1>1. PICK w : w = Buffers(f)
  OBVIOUS
<1>2. w \in [Req -> Nat] /\ \A r \in Req : w[r] = f[r].buffered
  BY <1>1, BuffersType
<1>3. ASSUME NEW g PROVE BufferStep(g, f) <=> IsSum(g, w, Req)
  <2>1. ASSUME NEW s \in SUBSET Req, s # {}
        PROVE  f[CHOOSE x \in s : TRUE].buffered = w[CHOOSE x \in s : TRUE]
    BY <1>2, <2>1
  <2>2. [s \in SUBSET Req |-> IF s = {} THEN 0
                            ELSE f[CHOOSE x \in s : TRUE].buffered
                                 + g[s \ {CHOOSE x \in s : TRUE}]]
      = [s \in SUBSET Req |-> IF s = {} THEN 0
                            ELSE w[CHOOSE x \in s : TRUE]
                                 + g[s \ {CHOOSE x \in s : TRUE}]]
    BY <2>1
  <2>. QED
    BY <2>2 DEF IsSum, Pick, BufferStep
<1>4. PICK h : IsSum(h, w, Req)
  BY <1>2, SchedulerAssumption, SumExists, ZenonT(30)
<1>5. PICK c : c = CHOOSE g : BufferStep(g, f)
  OBVIOUS
<1>6. BufferStep(c, f)
  <2>1. BufferStep(h, f)
    BY <1>3, <1>4
  <2>. QED
    BY <1>5, <2>1
<1>7. IsSum(c, w, Req)
  BY <1>3, <1>6
<1>8. SumOf(w, Req) = c[Req]
  <2>1. IsFiniteSet(Req) /\ Req \in SUBSET Req
    BY SchedulerAssumption
  <2>. QED
    BY <1>2, <1>7, <2>1, SumIs
<1>. QED
  BY <1>1, <1>5, <1>8, BufferedIs

\* One request's buffer changes the sum by its difference.
LEMMA BuffersChange ==
  ASSUME NEW f \in [Req -> Requests], NEW r \in Req, NEW q \in Requests
  PROVE  /\ SumOf(Buffers(f), Req) \in Nat
         /\ f[r].buffered <= SumOf(Buffers(f), Req)
         /\ SumOf(Buffers([f EXCEPT ![r] = q]), Req)
              = SumOf(Buffers(f), Req) - f[r].buffered + q.buffered
<1>1. PICK g \in [Req -> Requests] : g = [f EXCEPT ![r] = q] /\ g[r] = q
                                     /\ \A x \in Req \ {r} : g[x] = f[x]
  <2>1. PICK T : T = Requests
    OBVIOUS
  <2>2. f \in [Req -> T] /\ q \in T
    BY <2>1
  <2>3. PICK g : g = [f EXCEPT ![r] = q]
    BY ZenonT(30)
  <2>4. g \in [Req -> T] /\ g[r] = q /\ \A x \in Req \ {r} : g[x] = f[x]
    BY <2>2, <2>3
  <2>. QED
    BY <2>1, <2>3, <2>4, ZenonT(30)
<1>2. PICK a \in [Req -> Nat] : a = Buffers(f) /\ \A x \in Req : a[x] = f[x].buffered
  BY BuffersType
<1>3. PICK b \in [Req -> Nat] : b = Buffers(g) /\ \A x \in Req : b[x] = g[x].buffered
  BY BuffersType
<1>4. PICK R \in SUBSET Req : R = Req \ {r}
  BY ZenonT(30)
<1>5. IsFiniteSet(Req) /\ IsFiniteSet(R)
  BY <1>4, SchedulerAssumption, FS_Subset
<1>6. SumOf(a, Req) = a[r] + SumOf(a, R) /\ SumOf(b, Req) = b[r] + SumOf(b, R)
  BY <1>4, <1>5, SumRemove
<1>7. SumOf(a, R) = SumOf(b, R)
  <2>1. \A x \in R : a[x] = b[x]
    BY <1>1, <1>2, <1>3, <1>4, ZenonT(30)
  <2>. QED
    BY <1>5, <2>1, SumSame
<1>8. PICK k \in Nat : k = SumOf(a, R)
  BY <1>5, SumNat
<1>9. a[r] = f[r].buffered /\ b[r] = q.buffered /\ a[r] \in Nat /\ b[r] \in Nat
  BY <1>1, <1>2, <1>3, ZenonT(30)
<1>10. /\ a[r] + k \in Nat /\ a[r] <= a[r] + k
       /\ b[r] + k = (a[r] + k) - a[r] + b[r]
  BY <1>9
<1>. QED
  BY <1>1, <1>2, <1>3, <1>6, <1>7, <1>8, <1>9, <1>10

\* Nothing is buffered at the start.
LEMMA BuffersFresh ==
  ASSUME NEW f \in [Req -> Requests], \A r \in Req : f[r].buffered = 0
  PROVE  SumOf(Buffers(f), Req) = 0
<1>1. PICK a \in [Req -> Nat] : a = Buffers(f) /\ \A x \in Req : a[x] = 0
  BY BuffersType
<1>2. SumOf(a, Req) = 0
  <2>1. PICK g : g = [s \in SUBSET Req |-> 0]
    BY ZenonT(30)
  <2>2. \A s \in SUBSET Req : s # {} => a[Pick(s)] + g[s \ {Pick(s)}] = 0
    <3>. SUFFICES ASSUME NEW s \in SUBSET Req, s # {} PROVE a[Pick(s)] + g[s \ {Pick(s)}] = 0
      BY ZenonT(30)
    <3>1. Pick(s) \in Req
      BY PickIn
    <3>. QED
      BY <1>1, <2>1, <3>1
  <2>3. g = [s \in SUBSET Req |-> IF s = {} THEN 0 ELSE a[Pick(s)] + g[s \ {Pick(s)}]]
    BY <2>1, <2>2, ZenonT(30)
  <2>4. IsSum(g, a, Req)
    BY <2>3, ZenonT(30) DEF IsSum
  <2>5. IsFiniteSet(Req) /\ Req \in SUBSET Req
    BY SchedulerAssumption
  <2>6. SumOf(a, Req) = g[Req]
    BY <2>4, <2>5, SumIs
  <2>. QED
    BY <2>1, <2>5, <2>6
<1>. QED
  BY <1>1, <1>2

-----------------------------------------------------------------------------
(* Worlds *)

\* What a world consists of.
LEMMA WorldFacts ==
  ASSUME NEW w \in Worlds
  PROVE  /\ w = [req |-> w.req, budget |-> w.budget, lost |-> w.lost]
         /\ w.req \in [Req -> Requests] /\ w.budget \in Nat
         /\ w.lost \in {"no", "probe", "stall"}
         /\ w.budget = SumOf(Buffers(w.req), Req) /\ w.budget <= MaxTotal
BY DEF Worlds

\* A world after a change to one request.
Put(w, r, p, l) ==
  [req |-> [w.req EXCEPT ![r] = p],
   budget |-> w.budget - w.req[r].buffered + p.buffered, lost |-> l]

\* A change that stays within the budget's limit gives a world again.
LEMMA PutIs ==
  ASSUME NEW w \in Worlds, NEW r \in Req, NEW p \in Requests,
         NEW l \in {"no", "probe", "stall"},
         w.budget - w.req[r].buffered + p.buffered <= MaxTotal
  PROVE  /\ Put(w, r, p, l) \in Worlds
         /\ Put(w, r, p, l).req[r] = p
         /\ \A x \in Req \ {r} : Put(w, r, p, l).req[x] = w.req[x]
         /\ Put(w, r, p, l).lost = l
<1>1. PICK T : T = Requests
  OBVIOUS
<1>2. PICK f : f = w.req /\ f \in [Req -> T]
  BY <1>1, WorldFacts
<1>3. PICK g : g = [f EXCEPT ![r] = p] /\ g \in [Req -> T]
               /\ g[r] = p /\ \A x \in Req \ {r} : g[x] = f[x]
  <2>1. PICK g : g = [f EXCEPT ![r] = p]
    BY ZenonT(30)
  <2>. QED
    BY <1>1, <1>2, <2>1
<1>4. PICK b : b = SumOf(Buffers(g), Req) /\ b = w.budget - f[r].buffered + p.buffered
  BY <1>1, <1>2, <1>3, BuffersChange, WorldFacts
<1>5. b \in Nat
  BY <1>1, <1>3, <1>4, BuffersChange, ZenonT(30)
<1>6. PICK v : v = Put(w, r, p, l) /\ v = [req |-> g, budget |-> b, lost |-> l]
  BY <1>2, <1>3, <1>4, ZenonT(30) DEF Put
<1>7. v \in Worlds
  <2>1. b <= MaxTotal
    BY <1>2, <1>4
  <2>2. v.req = g /\ v.budget = b /\ v.lost = l
    BY <1>6
  <2>3. v \in [req : [Req -> T], budget : Nat, lost : {"no", "probe", "stall"}]
    BY <1>3, <1>5, <1>6
  <2>. QED
    BY <1>1, <1>4, <2>1, <2>2, <2>3, ZenonT(30) DEF Worlds
<1>. QED
  BY <1>2, <1>3, <1>4, <1>6, <1>7

\* What a terminal transition leaves of a request's own fields.
LEMMA EndedIs ==
  ASSUME NEW q \in Records
  PROVE  /\ Ended(q) \in Records
         /\ Ended(q).handle = q.handle /\ Ended(q).out = q.out /\ Ended(q).lease = q.lease
         /\ Ended(q).tokens = q.tokens /\ Ended(q).pieces = q.pieces
         /\ Ended(q).buffered = q.buffered /\ Ended(q).delivered = q.delivered
         /\ Ended(q).listening = q.listening
         /\ Ended(q).counted = FALSE /\ Ended(q).session = 0
         /\ Ended(q).held = <<>> /\ Ended(q).matched = FALSE
         /\ Ended(q).pub = "no" /\ Ended(q).capture = "idle"
<1>1. PICK e : e = Ended(q)
  OBVIOUS
<1>2. e = [ handle |-> q.handle, out |-> q.out, cancel |-> FALSE, expired |-> FALSE,
    counted |-> FALSE, session |-> 0, lease |-> q.lease, pos |-> 0, capture |-> "idle",
    tried |-> FALSE, adv |-> 0, selected |-> FALSE, tokens |-> q.tokens,
    due |-> FALSE, preview |-> FALSE, previewStops |-> FALSE, advancing |-> FALSE,
    pieces |-> q.pieces, buffered |-> q.buffered, held |-> <<>>, matched |-> FALSE,
    delivered |-> q.delivered, listening |-> q.listening,
    leader |-> NoReq, leadPos |-> 0, considered |-> FALSE, pub |-> "no", age |-> 0 ]
  BY <1>1, ZenonT(30) DEF Ended, FreshRequest
<1>3. /\ e.handle = q.handle /\ e.out = q.out /\ e.lease = q.lease
      /\ e.tokens = q.tokens /\ e.pieces = q.pieces
      /\ e.buffered = q.buffered /\ e.delivered = q.delivered
      /\ e.listening = q.listening
      /\ e.counted = FALSE /\ e.session = 0 /\ e.held = <<>> /\ e.matched = FALSE
      /\ e.pub = "no" /\ e.capture = "idle"
  BY <1>2
<1>4. e \in Records
  BY <1>2 DEF Records
<1>. QED
  BY <1>1, <1>3, <1>4

-----------------------------------------------------------------------------
(* The end of a request *)

\* p is the request q after its end: its client's view is kept, the worker's
\* fields are cleared.
Closed(q, p) ==
  /\ p.handle = q.handle /\ p.listening = q.listening
  /\ p.tokens = q.tokens /\ p.delivered = q.delivered
  /\ ~p.counted /\ p.session = 0 /\ p.held = <<>> /\ ~p.matched
  /\ p.pub = "no" /\ p.capture = "idle"

\* A lease that is given up while the device is in the state l.
Leased(lease, l) ==
  IF lease # "held" THEN lease ELSE IF l = "no" THEN "returned" ELSE "kept"

\* v is the world w after r ended early with the outcome o, the device being l.
Broken(w, v, r, l, o) ==
  \E p \in Requests :
    /\ v = Put(w, r, p, l)
    /\ Closed(w.req[r], p)
    /\ p.out = o /\ p.pieces = <<>> /\ p.buffered = 0
    /\ p.lease = Leased(w.req[r].lease, l)

\* A change of other fields leaves a request a request.
LEMMA RequestWith ==
  ASSUME NEW q \in Requests, NEW p \in Records,
         p.pieces = q.pieces, p.buffered = q.buffered
  PROVE  p \in Requests
BY DEF Requests

\* The types of a request's fields.
LEMMA RequestFacts ==
  ASSUME NEW q \in Requests
  PROVE  /\ q \in Records /\ q.buffered \in Nat /\ q.buffered = CostOf(q.pieces)
         /\ q.pieces \in Seq(Seq(Nat)) /\ q.tokens \in Seq(Nat) /\ q.held \in Seq(Nat)
         /\ q.delivered \in Seq(Nat) /\ q.adv \in Nat /\ q.session \in Nat
         /\ q.out \in Outcome
BY DEF Requests, Records

\* Both fields of a world replaced.
Take(w, r, p, n) == [w EXCEPT !.budget = @ - n, !.req[r] = p]

\* The same, the budget given outright.
Paid(w, r, p, b) == [req |-> [w.req EXCEPT ![r] = p], budget |-> b, lost |-> w.lost]

\* Both ways of writing it agree.
LEMMA WorldExcept ==
  ASSUME NEW w, w = [req |-> w.req, budget |-> w.budget, lost |-> w.lost],
         NEW r, NEW p, NEW n
  PROVE  Take(w, r, p, n) = Paid(w, r, p, w.budget - n)
<1>1. PICK f, b, l : w = [req |-> f, budget |-> b, lost |-> l] /\ f = w.req
                     /\ b = w.budget /\ l = w.lost
  OBVIOUS
<1>2. PICK c : c = b - n
  OBVIOUS
<1>3. PICK v : v = [w EXCEPT !.budget = @ - n]
  BY ZenonT(30)
<1>4. v = [req |-> f, budget |-> c, lost |-> l]
  <2>1. [[req |-> f, budget |-> b, lost |-> l] EXCEPT !.budget = @ - n]
          = [req |-> f, budget |-> b - n, lost |-> l]
    OBVIOUS
  <2>. QED
    BY <1>1, <1>2, <1>3, <2>1
<1>5. [v EXCEPT !.req[r] = p] = [req |-> [f EXCEPT ![r] = p], budget |-> c, lost |-> l]
  <2>1. [[req |-> f, budget |-> c, lost |-> l] EXCEPT !.req[r] = p]
          = [req |-> [f EXCEPT ![r] = p], budget |-> c, lost |-> l]
    OBVIOUS
  <2>. QED
    BY <1>4, <2>1
<1>6. [w EXCEPT !.budget = @ - n, !.req[r] = p] = [v EXCEPT !.req[r] = p]
  BY <1>3
<1>. QED
  BY <1>1, <1>2, <1>5, <1>6 DEF Take, Paid

\* Ending a request: what its queue still holds is discarded or kept.
LEMMA PublishTerminalIs ==
  ASSUME NEW w \in Worlds, NEW r \in Req, NEW o \in Outcome, NEW d \in BOOLEAN
  PROVE  \E p \in Requests :
           /\ PublishTerminal(w, r, o, d) = Put(w, r, p, w.lost)
           /\ Closed(w.req[r], p)
           /\ p.out = o /\ p.lease = w.req[r].lease
           /\ p.pieces = (IF d THEN <<>> ELSE w.req[r].pieces)
           /\ p.buffered = (IF d THEN 0 ELSE w.req[r].buffered)
<1>1. PICK q \in Requests : q = w.req[r]
  BY WorldFacts
<1>2. PICK freed \in Nat : freed = IF d THEN q.buffered ELSE 0
  BY RequestFacts
<1>3. PICK e : e = [q EXCEPT !.out = o, !.pieces = IF d THEN <<>> ELSE q.pieces,
                             !.buffered = q.buffered - freed]
  OBVIOUS
<1>4. q.buffered - freed \in Nat /\ q.buffered - freed = IF d THEN 0 ELSE q.buffered
  BY <1>2, RequestFacts
<1>5. e \in Records
  <2>1. PICK ps \in Seq(Seq(Nat)) : ps = IF d THEN <<>> ELSE q.pieces
    BY RequestFacts, EmptySeq, ZenonT(30)
  <2>2. PICK n \in Nat : n = q.buffered - freed
    BY <1>4
  <2>3. e = [q EXCEPT !.out = o, !.pieces = ps, !.buffered = n]
    BY <1>3, <2>1, <2>2
  <2>4. q \in Records
    BY RequestFacts
  <2>. QED
    BY <2>3, <2>4, ZenonT(60) DEF Records
<1>6. /\ e.out = o /\ e.buffered = q.buffered - freed
      /\ e.pieces = (IF d THEN <<>> ELSE q.pieces)
      /\ e.handle = q.handle /\ e.lease = q.lease /\ e.tokens = q.tokens
      /\ e.delivered = q.delivered /\ e.listening = q.listening
  BY <1>3, RequestFacts DEF Records
<1>7. PICK p : p = Ended(e)
  OBVIOUS
<1>8. /\ p \in Records /\ Closed(q, p) /\ p.out = o /\ p.lease = q.lease
      /\ p.pieces = (IF d THEN <<>> ELSE q.pieces)
      /\ p.buffered = q.buffered - freed
  BY <1>5, <1>6, <1>7, EndedIs, ZenonT(30) DEF Closed
<1>9. p \in Requests
  BY <1>4, <1>8, PiecesEmpty, RequestFacts DEF Requests
<1>10. PublishTerminal(w, r, o, d) = Put(w, r, p, w.lost)
  <2>1. w.budget \in Nat /\ q.buffered \in Nat /\ p.buffered \in Nat
    BY <1>9, WorldFacts, RequestFacts
  <2>2. w.budget - freed = w.budget - q.buffered + p.buffered
    BY <1>8, <2>1
  <2>3. w = [req |-> w.req, budget |-> w.budget, lost |-> w.lost]
    BY WorldFacts
  <2>4. PublishTerminal(w, r, o, d) = Take(w, r, p, freed)
    BY <1>1, <1>2, <1>3, <1>7 DEF PublishTerminal, Take
  <2>5. Take(w, r, p, freed) = Paid(w, r, p, w.budget - freed)
    BY <2>3, WorldExcept
  <2>6. Put(w, r, p, w.lost) = Paid(w, r, p, w.budget - freed)
    BY <1>1, <2>2 DEF Put, Paid
  <2>. QED
    BY <2>4, <2>5, <2>6
<1>. QED
  BY <1>1, <1>4, <1>8, <1>9, <1>10

\* One request replaced.
With(w, r, p) == [w EXCEPT !.req[r] = p]

\* A change of one request that leaves its queue alone.
LEMMA PutField ==
  ASSUME NEW w \in Worlds, NEW r \in Req, NEW p \in Requests,
         p.buffered = w.req[r].buffered
  PROVE  /\ Put(w, r, p, w.lost) = With(w, r, p)
         /\ Put(w, r, p, w.lost) \in Worlds
         /\ Put(w, r, p, w.lost).req[r] = p
         /\ \A x \in Req \ {r} : Put(w, r, p, w.lost).req[x] = w.req[x]
         /\ Put(w, r, p, w.lost).lost = w.lost
<1>1. PICK b \in Nat : b = w.budget /\ b <= MaxTotal
  BY WorldFacts
<1>2. PICK c \in Nat : c = p.buffered /\ c = w.req[r].buffered
  BY RequestFacts
<1>3. b - c + c = b
  OBVIOUS
<1>4. Put(w, r, p, w.lost) = [req |-> [w.req EXCEPT ![r] = p], budget |-> w.budget, lost |-> w.lost]
  BY <1>1, <1>2, <1>3 DEF Put
<1>5. Put(w, r, p, w.lost) = With(w, r, p)
  <2>1. w = [req |-> w.req, budget |-> w.budget, lost |-> w.lost]
    BY WorldFacts
  <2>. QED
    BY <1>4, <2>1 DEF With
<1>6. w.lost \in {"no", "probe", "stall"} /\ w.budget - w.req[r].buffered + p.buffered <= MaxTotal
  <2>1. w.budget - w.req[r].buffered + p.buffered = b
    BY <1>1, <1>2, <1>3
  <2>. QED
    BY <1>1, <2>1, WorldFacts
<1>7. PICK l \in {"no", "probe", "stall"} : l = w.lost
  BY <1>6
<1>8. /\ Put(w, r, p, l) \in Worlds /\ Put(w, r, p, l).req[r] = p
      /\ \A x \in Req \ {r} : Put(w, r, p, l).req[x] = w.req[x]
      /\ Put(w, r, p, l).lost = l
  BY <1>6, PutIs
<1>. QED
  BY <1>5, <1>7, <1>8

\* Twice at the same request is once.
LEMMA PutPut ==
  ASSUME NEW w \in Worlds, NEW r \in Req, NEW p \in Requests, NEW q \in Requests,
         p.buffered = w.req[r].buffered, NEW k, NEW l
  PROVE  Put(Put(w, r, p, k), r, q, l) = Put(w, r, q, l)
<1>1. PICK b \in Nat : b = w.budget
  BY WorldFacts
<1>2. PICK c \in Nat : c = p.buffered /\ c = w.req[r].buffered
  BY RequestFacts
<1>3. b - c + c = b
  OBVIOUS
<1>4. PICK f : f = w.req /\ f \in [Req -> Requests]
  BY WorldFacts
<1>5. PICK g : g = [f EXCEPT ![r] = p]
  BY ZenonT(30)
<1>6. PICK v : v = Put(w, r, p, k) /\ v = [req |-> g, budget |-> w.budget, lost |-> k]
  BY <1>1, <1>2, <1>3, <1>4, <1>5, ZenonT(30) DEF Put
<1>7. v.req = g /\ v.budget = w.budget /\ g[r] = p /\ [g EXCEPT ![r] = q] = [f EXCEPT ![r] = q]
  BY <1>4, <1>5, <1>6
<1>. QED
  BY <1>2, <1>4, <1>6, <1>7 DEF Put

\* EndPublicationWait changes one field of one request.
LEMMA EndPublicationWaitIs ==
  ASSUME NEW w \in Worlds, NEW r \in Req
  PROVE  \E p \in Requests :
           /\ EndPublicationWait(w, r) = Put(w, r, p, w.lost)
           /\ p.buffered = w.req[r].buffered
           /\ p = [w.req[r] EXCEPT !.pub = IF @ = "waiting" THEN "over" ELSE @]
<1>1. PICK q \in Requests : q = w.req[r]
  BY WorldFacts
<1>2. PICK p : p = [q EXCEPT !.pub = IF @ = "waiting" THEN "over" ELSE @]
  BY ZenonT(30)
<1>3. p \in Records /\ p.pieces = q.pieces /\ p.buffered = q.buffered
  <2>1. q \in Records
    BY RequestFacts
  <2>. QED
    BY <1>2, <2>1, ZenonT(60) DEF Records
<1>4. p \in Requests
  BY <1>3, RequestWith
<1>5. EndPublicationWait(w, r) = With(w, r, p)
  BY <1>1, <1>2, ZenonT(30) DEF EndPublicationWait, With
<1>6. Put(w, r, p, w.lost) = With(w, r, p)
  <2>1. p.buffered = w.req[r].buffered
    BY <1>1, <1>3
  <2>. QED
    BY <1>4, <2>1, PutField
<1>. QED
  BY <1>1, <1>2, <1>3, <1>4, <1>5, <1>6, ZenonT(30)

\* ReturnLease returns a held lease, or keeps it if the device is lost.
LEMMA ReturnLeaseIs ==
  ASSUME NEW w \in Worlds, NEW r \in Req
  PROVE  \E p \in Requests :
           /\ ReturnLease(w, r) = Put(w, r, p, w.lost)
           /\ p.buffered = w.req[r].buffered
           /\ p = [w.req[r] EXCEPT !.lease = Leased(@, w.lost)]
<1>1. PICK q \in Requests : q = w.req[r]
  BY WorldFacts
<1>2. PICK z : z = Leased(q.lease, w.lost)
  OBVIOUS
<1>3. z \in {"none", "held", "returned", "kept"}
  BY <1>2, RequestFacts DEF Leased, Records
<1>4. PICK p : p = [q EXCEPT !.lease = z]
  BY ZenonT(30)
<1>5. p \in Records /\ p.pieces = q.pieces /\ p.buffered = q.buffered
  <2>1. q \in Records
    BY RequestFacts
  <2>. QED
    BY <1>3, <1>4, <2>1, ZenonT(60) DEF Records
<1>6. p \in Requests
  BY <1>5, RequestWith
<1>7. z = CASE q.lease # "held" -> q.lease
            [] q.lease = "held" /\ w.lost # "no" -> "kept" [] OTHER -> "returned"
  <2>1. CASE q.lease # "held"
    BY <1>2, <2>1 DEF Leased
  <2>2. CASE q.lease = "held" /\ w.lost # "no"
    BY <1>2, <2>2 DEF Leased
  <2>3. CASE q.lease = "held" /\ w.lost = "no"
    BY <1>2, <2>3 DEF Leased
  <2>. QED
    BY <2>1, <2>2, <2>3
<1>8. ReturnLease(w, r) = With(w, r, p)
  BY <1>1, <1>4, <1>7, ZenonT(30) DEF ReturnLease, With
<1>9. Put(w, r, p, w.lost) = With(w, r, p)
  <2>1. p.buffered = w.req[r].buffered
    BY <1>1, <1>5
  <2>. QED
    BY <1>6, <2>1, PutField
<1>. QED
  BY <1>1, <1>2, <1>4, <1>5, <1>6, <1>8, <1>9, ZenonT(30)

\* With what is buffered discarded, or kept.
LEMMA Discarded ==
  ASSUME NEW w \in Worlds, NEW r \in Req, NEW o \in Outcome
  PROVE  \E p \in Requests :
           /\ PublishTerminal(w, r, o, TRUE) = Put(w, r, p, w.lost)
           /\ Closed(w.req[r], p)
           /\ p.out = o /\ p.lease = w.req[r].lease /\ p.pieces = <<>> /\ p.buffered = 0
<1>1. PICK d \in BOOLEAN : d = TRUE
  BY ZenonT(30)
<1>2. PICK p \in Requests :
        /\ PublishTerminal(w, r, o, d) = Put(w, r, p, w.lost)
        /\ Closed(w.req[r], p)
        /\ p.out = o /\ p.lease = w.req[r].lease
        /\ p.pieces = (IF d THEN <<>> ELSE w.req[r].pieces)
        /\ p.buffered = (IF d THEN 0 ELSE w.req[r].buffered)
  BY PublishTerminalIs
<1>. QED
  BY <1>1, <1>2, ZenonT(30)

\* A terminal transition that leaves the queue to its consumer.
LEMMA Preserved ==
  ASSUME NEW w \in Worlds, NEW r \in Req, NEW o \in Outcome
  PROVE  \E p \in Requests :
           /\ PublishTerminal(w, r, o, FALSE) = Put(w, r, p, w.lost)
           /\ Closed(w.req[r], p)
           /\ p.out = o /\ p.lease = w.req[r].lease
           /\ p.pieces = w.req[r].pieces /\ p.buffered = w.req[r].buffered
<1>1. PICK d \in BOOLEAN : d = FALSE
  BY ZenonT(30)
<1>2. PICK p \in Requests :
        /\ PublishTerminal(w, r, o, d) = Put(w, r, p, w.lost)
        /\ Closed(w.req[r], p)
        /\ p.out = o /\ p.lease = w.req[r].lease
        /\ p.pieces = (IF d THEN <<>> ELSE w.req[r].pieces)
        /\ p.buffered = (IF d THEN 0 ELSE w.req[r].buffered)
  BY PublishTerminalIs
<1>. QED
  BY <1>1, <1>2, ZenonT(30)

\* What CompleteFailure and CompleteCancelled have in common: the wait ends,
\* the lease is given up, what is buffered is discarded.
LEMMA GivenUp ==
  ASSUME NEW w \in Worlds, NEW r \in Req, NEW o \in Outcome
  PROVE  /\ EndPublicationWait(w, r) \in Worlds
         /\ EndPublicationWait(w, r).req[r].out = w.req[r].out
         /\ EndPublicationWait(w, r).lost = w.lost
         /\ Broken(w, PublishTerminal(ReturnLease(EndPublicationWait(w, r), r), r, o, TRUE),
                   r, w.lost, o)
<1>1. PICK q \in Requests : q = w.req[r]
  BY WorldFacts
<1>2. PICK a \in Requests : /\ EndPublicationWait(w, r) = Put(w, r, a, w.lost)
                            /\ a.buffered = w.req[r].buffered
                            /\ a = [q EXCEPT !.pub = IF @ = "waiting" THEN "over" ELSE @]
  BY <1>1, EndPublicationWaitIs
<1>3. a.out = q.out /\ a.lease = q.lease /\ a.handle = q.handle /\ a.listening = q.listening
      /\ a.tokens = q.tokens /\ a.delivered = q.delivered
  BY <1>2, RequestFacts DEF Records
<1>4. PICK v \in Worlds : v = EndPublicationWait(w, r) /\ v = Put(w, r, a, w.lost)
                          /\ v.req[r] = a /\ v.lost = w.lost
  <2>1. PICK v : v = Put(w, r, a, w.lost)
    OBVIOUS
  <2>2. v \in Worlds /\ v.req[r] = a /\ v.lost = w.lost
    <3>1. a.buffered = w.req[r].buffered
      BY <1>2
    <3>. QED
      BY <2>1, <3>1, PutField
  <2>. QED
    BY <1>2, <2>1, <2>2
<1>5. PICK b \in Requests : /\ ReturnLease(v, r) = Put(v, r, b, v.lost)
                            /\ b.buffered = v.req[r].buffered
                            /\ b = [a EXCEPT !.lease = Leased(@, v.lost)]
  BY <1>4, ReturnLeaseIs
<1>6. b.lease = Leased(a.lease, v.lost) /\ b.handle = a.handle /\ b.listening = a.listening
      /\ b.tokens = a.tokens /\ b.delivered = a.delivered
  BY <1>5, RequestFacts DEF Records
<1>7. PICK u \in Worlds : u = ReturnLease(v, r) /\ u = Put(v, r, b, v.lost)
                          /\ u.req[r] = b /\ u.lost = w.lost
  <2>1. PICK u : u = Put(v, r, b, v.lost)
    OBVIOUS
  <2>2. u \in Worlds /\ u.req[r] = b /\ u.lost = v.lost
    BY <1>5, <2>1, PutField, ZenonT(30)
  <2>. QED
    BY <1>4, <1>5, <2>1, <2>2
<1>8. PICK p \in Requests :
        /\ PublishTerminal(u, r, o, TRUE) = Put(u, r, p, u.lost)
        /\ Closed(b, p) /\ p.out = o /\ p.lease = b.lease /\ p.pieces = <<>> /\ p.buffered = 0
  <2>1. PICK p \in Requests :
          /\ PublishTerminal(u, r, o, TRUE) = Put(u, r, p, u.lost)
          /\ Closed(u.req[r], p)
          /\ p.out = o /\ p.lease = u.req[r].lease /\ p.pieces = <<>> /\ p.buffered = 0
    BY Discarded, ZenonT(30)
  <2>2. u.req[r] = b
    BY <1>7
  <2>. QED
    BY <2>1, <2>2, ZenonT(30)
<1>9. b.buffered = v.req[r].buffered /\ a.buffered = w.req[r].buffered
  BY <1>2, <1>5
<1>10. Put(u, r, p, u.lost) = Put(v, r, p, u.lost)
  BY <1>7, <1>9, PutPut
<1>11. Put(v, r, p, u.lost) = Put(w, r, p, u.lost)
  BY <1>4, <1>9, PutPut
<1>12. Closed(q, p) /\ p.lease = Leased(q.lease, w.lost)
  BY <1>3, <1>4, <1>6, <1>8 DEF Closed
<1>13. Broken(w, PublishTerminal(u, r, o, TRUE), r, w.lost, o)
  BY <1>1, <1>7, <1>8, <1>10, <1>11, <1>12, ZenonT(30) DEF Broken
<1>. QED
  BY <1>1, <1>3, <1>4, <1>7, <1>13, ZenonT(30)

\* CompleteFailure ends a request, as lost if the device is.
LEMMA CompleteFailureIs ==
  ASSUME NEW w \in Worlds, NEW r \in Req, NEW o \in Outcome, w.req[r].out = "none"
  PROVE  Broken(w, CompleteFailure(w, r, o), r, w.lost, IF w.lost = "no" THEN o ELSE "lost")
<1>1. PICK x \in Outcome : x = IF w.lost = "no" THEN o ELSE "lost"
  BY DEF Outcome
<1>2. PICK v : v = EndPublicationWait(w, r)
  OBVIOUS
<1>4. v.req[r].out = "none" /\ v.lost = w.lost
  BY <1>1, <1>2, GivenUp, ZenonT(30)
<1>3. CompleteFailure(w, r, o) = PublishTerminal(ReturnLease(v, r), r, x, TRUE)
  BY <1>1, <1>2, <1>4, ZenonT(30) DEF CompleteFailure, IsTerminal
<1>. QED
  BY <1>1, <1>2, <1>3, GivenUp, ZenonT(30)

\* CompleteCancelled does, as cancelled unless the device is lost.
LEMMA CompleteCancelledIs ==
  ASSUME NEW w \in Worlds, NEW r \in Req, w.req[r].out = "none"
  PROVE  Broken(w, CompleteCancelled(w, r), r, w.lost,
                IF w.lost = "no" THEN "cancelled" ELSE "lost")
<1>1. "cancelled" \in Outcome /\ "lost" \in Outcome
  BY DEF Outcome
<1>2. CASE w.lost = "no"
  BY <1>1, <1>2, GivenUp, ZenonT(30) DEF CompleteCancelled
<1>3. CASE w.lost # "no"
  BY <1>1, <1>3, CompleteFailureIs DEF CompleteCancelled
<1>. QED
  BY <1>2, <1>3

\* CompleteIfStopped ends exactly the requests that were stopped.
LEMMA CompleteIfStoppedIs ==
  ASSUME NEW w \in Worlds, NEW r \in Req
  PROVE  /\ w.req[r].out # "none" => CompleteIfStopped(w, r) = w
         /\ ~Stopped(w, r) => CompleteIfStopped(w, r) = w
         /\ w.req[r].out = "none" /\ Stopped(w, r) =>
              \E o \in {"lost", "deadline", "cancelled"} :
                Broken(w, CompleteIfStopped(w, r), r, w.lost, o)
<1>1. {"lost", "deadline", "cancelled"} \subseteq Outcome
  BY DEF Outcome
<1>2. ASSUME w.req[r].out # "none" PROVE CompleteIfStopped(w, r) = w
  BY <1>2 DEF CompleteIfStopped, IsTerminal
<1>3. ASSUME ~Stopped(w, r) PROVE CompleteIfStopped(w, r) = w
  BY <1>3 DEF CompleteIfStopped, IsTerminal, Stopped
<1>4. ASSUME w.req[r].out = "none", Stopped(w, r)
      PROVE  \E o \in {"lost", "deadline", "cancelled"} :
               Broken(w, CompleteIfStopped(w, r), r, w.lost, o)
  <2>1. CASE w.lost # "no" \/ w.req[r].expired
    <3>1. CompleteIfStopped(w, r) = CompleteFailure(w, r, "deadline")
      BY <1>4, <2>1 DEF CompleteIfStopped, IsTerminal
    <3>2. PICK o : o = IF w.lost = "no" THEN "deadline" ELSE "lost"
      OBVIOUS
    <3>3. Broken(w, CompleteFailure(w, r, "deadline"), r, w.lost, o)
      BY <1>1, <1>4, <3>2, CompleteFailureIs
    <3>4. o \in {"lost", "deadline", "cancelled"}
      BY <3>2
    <3>. QED
      BY <3>1, <3>3, <3>4
  <2>2. CASE w.lost = "no" /\ ~w.req[r].expired
    <3>1. CompleteIfStopped(w, r) = CompleteCancelled(w, r)
      BY <1>4, <2>2 DEF CompleteIfStopped, IsTerminal, Stopped
    <3>2. Broken(w, CompleteCancelled(w, r), r, w.lost, "cancelled")
      BY <1>4, <2>2, CompleteCancelledIs
    <3>. QED
      BY <3>1, <3>2
  <2>. QED
    BY <2>1, <2>2
<1>. QED
  BY <1>2, <1>3, <1>4

\* The device after a failed call.
Probed(l, f) == IF l = "no" /\ f = "lost" THEN "probe" ELSE l

\* ClassifyFailure changes nothing but the state of the device.
LEMMA ClassifyFailureIs ==
  ASSUME NEW w \in Worlds, NEW f
  PROVE  /\ ClassifyFailure(w, f) \in Worlds
         /\ ClassifyFailure(w, f).req = w.req /\ ClassifyFailure(w, f).budget = w.budget
         /\ ClassifyFailure(w, f).lost = Probed(w.lost, f)
<1>1. PICK l \in {"no", "probe", "stall"} : l = Probed(w.lost, f)
  BY WorldFacts DEF Probed
<1>2. PICK v : v = ClassifyFailure(w, f)
  OBVIOUS
<1>3. v.req = w.req /\ v.budget = w.budget /\ v.lost = l
      /\ v \in [req : [Req -> Requests], budget : Nat, lost : {"no", "probe", "stall"}]
  BY <1>1, <1>2 DEF ClassifyFailure, Probed, Worlds
<1>4. v \in Worlds
  BY <1>3, WorldFacts DEF Worlds
<1>. QED
  BY <1>1, <1>2, <1>3, <1>4

\* FailNow ends a request after the device was probed.
LEMMA FailNowIs ==
  ASSUME NEW w \in Worlds, NEW r \in Req, NEW f, w.req[r].out = "none"
  PROVE  \E o \in {"lost", "misuse", "failed"} :
           /\ Broken(w, FailNow(w, r, f), r, Probed(w.lost, f), o)
           /\ o = "misuse" => f = "misuse"
<1>1. PICK u \in Worlds : u = ClassifyFailure(w, f) /\ u.req = w.req /\ u.budget = w.budget
                          /\ u.lost = Probed(w.lost, f)
  BY ClassifyFailureIs
<1>2. PICK x \in Outcome : x = IF f = "misuse" THEN "misuse" ELSE "failed"
  BY DEF Outcome
<1>3. FailNow(w, r, f) = CompleteFailure(u, r, x)
  BY <1>1, <1>2 DEF FailNow
<1>4. PICK o : o = IF u.lost = "no" THEN x ELSE "lost"
  OBVIOUS
<1>5. Broken(u, CompleteFailure(u, r, x), r, u.lost, o)
  BY <1>1, <1>4, CompleteFailureIs
<1>6. Broken(w, CompleteFailure(u, r, x), r, u.lost, o)
  BY <1>1, <1>5, ZenonT(30) DEF Broken, Put
<1>7. o \in {"lost", "misuse", "failed"} /\ (o = "misuse" => f = "misuse")
  BY <1>2, <1>4
<1>. QED
  BY <1>1, <1>3, <1>6, <1>7

\* How a runner call that failed ends a live request.
Ruined(w, v, r, f) ==
  \/ \E o \in {"lost", "misuse", "failed"} :
       Broken(w, v, r, Probed(w.lost, f), o) /\ (o = "misuse" => f = "misuse")
  \/ Stopped(w, r) /\ \E o \in {"lost", "deadline", "cancelled"} : Broken(w, v, r, w.lost, o)

\* A failure ends a live request, as stopped or as failed, and no other.
LEMMA FailUnlessStoppedIs ==
  ASSUME NEW w \in Worlds, NEW r \in Req, NEW f
  PROVE  /\ w.req[r].out # "none" => FailUnlessStopped(w, r, f) = w
         /\ w.req[r].out = "none" => Ruined(w, FailUnlessStopped(w, r, f), r, f)
         /\ w.req[r].out = "none" => Ruined(w, FailStep(w, r, f), r, f)
<1>1. ASSUME w.req[r].out # "none" PROVE FailUnlessStopped(w, r, f) = w
  BY <1>1, CompleteIfStoppedIs DEF FailUnlessStopped, Stopped, IsTerminal
<1>2. ASSUME w.req[r].out = "none" PROVE Ruined(w, FailUnlessStopped(w, r, f), r, f)
  <2>1. CASE Stopped(w, r)
    BY <1>2, <2>1, CompleteIfStoppedIs DEF FailUnlessStopped, Ruined
  <2>2. CASE ~Stopped(w, r)
    BY <1>2, <2>2, FailNowIs DEF FailUnlessStopped, Ruined
  <2>. QED
    BY <2>1, <2>2
<1>3. ASSUME w.req[r].out = "none" PROVE Ruined(w, FailStep(w, r, f), r, f)
  <2>1. CASE OwnUnit
    BY <1>2, <1>3, <2>1 DEF FailStep
  <2>2. CASE ~OwnUnit
    BY <1>3, <2>2, FailNowIs DEF FailStep, Ruined
  <2>. QED
    BY <2>1, <2>2
<1>. QED
  BY <1>1, <1>2, <1>3

-----------------------------------------------------------------------------
(* Publishing *)

\* What the consumer did and what it owns of a request.
SameClient(q, p) ==
  p.handle = q.handle /\ p.listening = q.listening /\ p.delivered = q.delivered

\* p is q but for its tokens, its text and what the stop filter says.
Steady(q, p) ==
  /\ SameClient(q, p)
  /\ p.out = q.out /\ p.cancel = q.cancel /\ p.expired = q.expired
  /\ p.counted = q.counted /\ p.session = q.session /\ p.lease = q.lease /\ p.pos = q.pos
  /\ p.capture = q.capture /\ p.tried = q.tried /\ p.adv = q.adv
  /\ p.selected = q.selected /\ p.due = q.due /\ p.preview = q.preview
  /\ p.previewStops = q.previewStops /\ p.advancing = q.advancing

\* q with other tokens and another text.
Spelled(q, tk, h, m, ps, b) ==
  [q EXCEPT !.tokens = tk, !.held = h, !.matched = m, !.pieces = ps, !.buffered = b]

\* A change of a request's output leaves its other fields alone.
LEMMA SpelledIs ==
  ASSUME NEW q \in Records, NEW tk \in Seq(Nat), NEW h \in Seq(Nat), NEW m \in BOOLEAN,
         NEW ps \in Seq(Seq(Nat)), NEW b \in Nat
  PROVE  /\ Spelled(q, tk, h, m, ps, b) \in Records
         /\ Steady(q, Spelled(q, tk, h, m, ps, b))
         /\ Spelled(q, tk, h, m, ps, b).tokens = tk /\ Spelled(q, tk, h, m, ps, b).held = h
         /\ Spelled(q, tk, h, m, ps, b).matched = m /\ Spelled(q, tk, h, m, ps, b).pieces = ps
         /\ Spelled(q, tk, h, m, ps, b).buffered = b
<1>1. PICK p : p = Spelled(q, tk, h, m, ps, b)
  OBVIOUS
<1>2. p \in Records /\ p.tokens = tk /\ p.held = h /\ p.matched = m /\ p.pieces = ps
      /\ p.buffered = b
  BY <1>1, ZenonT(30) DEF Spelled, Records
<1>3. Steady(q, p)
  BY <1>1 DEF Spelled, Records, Steady, SameClient
<1>. QED
  BY <1>1, <1>2, <1>3

\* A piece that fits is paid for from the budget.
LEMMA PublishPieceIs ==
  ASSUME NEW w \in Worlds, NEW r \in Req, NEW text \in Seq(Nat), CanPublish(w, r, text)
  PROVE  \E p \in Requests :
           /\ PublishPiece(w, r, text) = Put(w, r, p, w.lost)
           /\ w.budget - w.req[r].buffered + p.buffered <= MaxTotal
           /\ Steady(w.req[r], p)
           /\ p.tokens = w.req[r].tokens /\ p.held = w.req[r].held
           /\ p.matched = w.req[r].matched
           /\ p.pieces = IF r \in Streamed THEN Append(w.req[r].pieces, text)
                         ELSE w.req[r].pieces
<1>1. PICK q \in Requests : q = w.req[r]
  BY WorldFacts
<1>2. PICK f, b, l : w = [req |-> f, budget |-> b, lost |-> l] /\ f = w.req
                     /\ b = w.budget /\ l = w.lost
  BY WorldFacts
<1>3. f \in [Req -> Requests] /\ b \in Nat /\ f[r] = q /\ b <= MaxTotal /\ MaxTotal \in Nat
  BY <1>1, <1>2, WorldFacts, SchedulerAssumption
<1>4. CASE r \notin Streamed
  <2>1. PublishPiece(w, r, text) = w
    BY <1>4 DEF PublishPiece
  <2>2. q.buffered \in Nat
    BY RequestFacts
  <2>3. b - q.buffered + q.buffered = b
    BY <1>3, <2>2
  <2>4. [f EXCEPT ![r] = q] = f
    BY <1>3
  <2>5. Put(w, r, q, w.lost) = w
    BY <1>1, <1>2, <2>3, <2>4 DEF Put
  <2>6. Steady(q, q)
    BY DEF Steady, SameClient
  <2>. QED
    BY <1>1, <1>2, <1>3, <1>4, <2>1, <2>3, <2>5, <2>6
<1>5. CASE r \in Streamed
  <2>1. PICK c \in Nat : c = Cost(text) /\ c <= MaxTotal - b
    BY <1>2, <1>5, CostNat DEF CanPublish, Fits
  <2>2. PICK n \in Nat, ps \in Seq(Seq(Nat)) :
          n = q.buffered + c /\ ps = Append(q.pieces, text)
    <3>1. PICK T : T = Seq(Nat)
      OBVIOUS
    <3>2. PICK z \in Seq(T) : z = q.pieces
      BY <3>1, RequestFacts
    <3>3. Append(z, text) \in Seq(T)
      BY <3>1, AppendMembers
    <3>4. q.buffered + c \in Nat
      BY <2>1, RequestFacts
    <3>. QED
      BY <3>1, <3>2, <3>3, <3>4, ZenonT(30)
  <2>3. PICK p : p = Spelled(q, q.tokens, q.held, q.matched, ps, n)
    OBVIOUS
  <2>4. p \in Records /\ Steady(q, p) /\ p.tokens = q.tokens /\ p.held = q.held
        /\ p.matched = q.matched /\ p.pieces = ps /\ p.buffered = n
    <3>1. q \in Records /\ q.tokens \in Seq(Nat) /\ q.held \in Seq(Nat)
      BY RequestFacts
    <3>2. PICK m \in BOOLEAN : m = q.matched
      BY <3>1 DEF Records
    <3>3. PICK tk \in Seq(Nat), h \in Seq(Nat) : tk = q.tokens /\ h = q.held
      BY <3>1
    <3>4. p = Spelled(q, tk, h, m, ps, n)
      BY <2>3, <3>2, <3>3
    <3>5. /\ p \in Records /\ Steady(q, p) /\ p.tokens = tk /\ p.held = h
          /\ p.matched = m /\ p.pieces = ps /\ p.buffered = n
      <4>1. /\ Spelled(q, tk, h, m, ps, n) \in Records
            /\ Steady(q, Spelled(q, tk, h, m, ps, n))
            /\ Spelled(q, tk, h, m, ps, n).tokens = tk /\ Spelled(q, tk, h, m, ps, n).held = h
            /\ Spelled(q, tk, h, m, ps, n).matched = m
            /\ Spelled(q, tk, h, m, ps, n).pieces = ps
            /\ Spelled(q, tk, h, m, ps, n).buffered = n
        BY <3>1, SpelledIs
      <4>. QED
        BY <3>4, <4>1
    <3>. QED
      BY <3>2, <3>3, <3>5
  <2>5. p \in Requests
    <3>1. CostOf(ps) = n
      BY <2>1, <2>2, PiecesAppend, RequestFacts
    <3>. QED
      BY <2>4, <3>1 DEF Requests
  <2>6. PublishPiece(w, r, text) = [req |-> [f EXCEPT ![r] = p], budget |-> b + c, lost |-> l]
    <3>1. PICK v1 : v1 = [req |-> f, budget |-> b + c, lost |-> l]
      BY ZenonT(30)
    <3>2. [w EXCEPT !.budget = @ + c] = v1
      <4>1. [[req |-> f, budget |-> b, lost |-> l] EXCEPT !.budget = @ + c]
              = [req |-> f, budget |-> b + c, lost |-> l]
        OBVIOUS
      <4>. QED
        BY <1>2, <3>1, <4>1
    <3>3. PICK a : a = [q EXCEPT !.buffered = @ + c]
      BY ZenonT(30)
    <3>4. PICK g : g = [f EXCEPT ![r] = a] /\ g[r] = a
      <4>1. PICK T : T = Requests
        OBVIOUS
      <4>2. f \in [Req -> T]
        BY <1>3, <4>1
      <4>3. [f EXCEPT ![r] = a][r] = a
        BY <4>2
      <4>. QED
        BY <4>3, ZenonT(30)
    <3>5. [v1 EXCEPT !.req[r].buffered = @ + c] = [req |-> g, budget |-> b + c, lost |-> l]
      <4>1. v1.req = f
        BY <3>1
      <4>2. [f EXCEPT ![r].buffered = @ + c] = g
        BY <1>3, <3>3, <3>4
      <4>3. [v1 EXCEPT !.req[r].buffered = @ + c]
              = [v1 EXCEPT !.req = [v1.req EXCEPT ![r].buffered = @ + c]]
        OBVIOUS
      <4>4. [v1 EXCEPT !.req[r].buffered = @ + c] = [v1 EXCEPT !.req = g]
        BY <4>1, <4>2, <4>3
      <4>5. [[req |-> f, budget |-> b + c, lost |-> l] EXCEPT !.req = g]
              = [req |-> g, budget |-> b + c, lost |-> l]
        OBVIOUS
      <4>. QED
        BY <3>1, <4>4, <4>5
    <3>6. PICK v2 : v2 = [req |-> g, budget |-> b + c, lost |-> l]
      BY ZenonT(30)
    <3>7. [a EXCEPT !.pieces = Append(@, text)] = p
      <4>1. q \in Records
        BY RequestFacts
      <4>. QED
        BY <2>2, <2>3, <3>3, <4>1, ZenonT(30) DEF Spelled, Records
    <3>8. [g EXCEPT ![r].pieces = Append(@, text)] = [f EXCEPT ![r] = p]
      <4>1. [g EXCEPT ![r].pieces = Append(@, text)] = [g EXCEPT ![r] = p]
        BY <3>4, <3>7, ZenonT(30)
      <4>2. [g EXCEPT ![r] = p] = [f EXCEPT ![r] = p]
        BY <1>3, <3>4, ZenonT(30)
      <4>. QED
        BY <4>1, <4>2
    <3>9. [v2 EXCEPT !.req[r].pieces = Append(@, text)]
            = [req |-> [f EXCEPT ![r] = p], budget |-> b + c, lost |-> l]
      <4>1. v2.req = g
        BY <3>6
      <4>2. [v2 EXCEPT !.req[r].pieces = Append(@, text)]
              = [v2 EXCEPT !.req = [v2.req EXCEPT ![r].pieces = Append(@, text)]]
        OBVIOUS
      <4>3. PICK d : d = [f EXCEPT ![r] = p]
        BY ZenonT(30)
      <4>4. [v2 EXCEPT !.req[r].pieces = Append(@, text)] = [v2 EXCEPT !.req = d]
        BY <3>8, <4>1, <4>2, <4>3, ZenonT(30)
      <4>5. [[req |-> g, budget |-> b + c, lost |-> l] EXCEPT !.req = d]
              = [req |-> d, budget |-> b + c, lost |-> l]
        OBVIOUS
      <4>. QED
        BY <3>6, <4>3, <4>4, <4>5
    <3>10. PublishPiece(w, r, text)
             = [w EXCEPT !.budget = @ + c, !.req[r].buffered = @ + c,
                         !.req[r].pieces = Append(@, text)]
      BY <1>5, <2>1 DEF PublishPiece
    <3>11. [w EXCEPT !.budget = @ + c, !.req[r].buffered = @ + c,
                     !.req[r].pieces = Append(@, text)]
             = [[[w EXCEPT !.budget = @ + c] EXCEPT !.req[r].buffered = @ + c]
                  EXCEPT !.req[r].pieces = Append(@, text)]
      BY ZenonT(30)
    <3>. QED
      BY <3>2, <3>5, <3>6, <3>9, <3>10, <3>11, ZenonT(30)
  <2>7. q.buffered \in Nat
    BY RequestFacts
  <2>8. b - q.buffered + n = b + c /\ b + c <= MaxTotal
    BY <1>3, <2>1, <2>2, <2>7
  <2>9. PublishPiece(w, r, text) = Put(w, r, p, w.lost)
    BY <1>1, <1>2, <2>4, <2>6, <2>8, ZenonT(30) DEF Put
  <2>. QED
    BY <1>1, <1>2, <1>5, <2>2, <2>4, <2>5, <2>8, <2>9
<1>. QED
  BY <1>4, <1>5

-----------------------------------------------------------------------------
(* What a step does to a request *)

\* v is the world w after a step for r.
Serves(w, v, r) ==
  v \in Worlds /\ \A x \in Req \ {r} : v.req[x] = w.req[x]

\* No step takes a request from its client; one that ends gives up its
\* session, one that does not keeps it.
Keeps(q, p) ==
  /\ p.handle = q.handle
  /\ \/ p.out # "none" /\ ~p.counted /\ p.session = 0
     \/ p.out = q.out /\ p.counted = q.counted /\ p.session = q.session

\* p is the end of q, the device being k afterwards.
Ending(q, p, k) ==
  /\ p.out \notin {"none", "misuse"}
  /\ SameClient(q, p) /\ Over(p)
  /\ k = "probe" /\ q.lease = "held" => p.lease # "returned"

\* A request that only gained output keeps its place and its session.
LEMMA SteadyKeeps ==
  ASSUME NEW q, NEW p, Steady(q, p)
  PROVE  Keeps(q, p)
BY DEF Steady, SameClient, Keeps

\* One that ended has given them up.
LEMMA EndingKeeps ==
  ASSUME NEW q, NEW p, NEW k, Ending(q, p, k)
  PROVE  Keeps(q, p)
BY DEF Ending, SameClient, Over, Keeps

\* A request whose queue does not grow can be replaced.
LEMMA PutServes ==
  ASSUME NEW w \in Worlds, NEW r \in Req, NEW p \in Requests,
         NEW l \in {"no", "probe", "stall"},
         \/ w.budget - w.req[r].buffered + p.buffered <= MaxTotal
         \/ p.buffered <= w.req[r].buffered,
         NEW v, v = Put(w, r, p, l)
  PROVE  Serves(w, v, r) /\ v.req[r] = p /\ v.lost = l
<1>1. PICK b \in Nat, c \in Nat, d \in Nat :
        b = w.budget /\ c = w.req[r].buffered /\ d = p.buffered /\ b <= MaxTotal
  BY WorldFacts, RequestFacts
<1>2. MaxTotal \in Nat
  BY SchedulerAssumption
<1>3. b - c + d <= MaxTotal
  BY <1>1, <1>2
<1>4. w.budget - w.req[r].buffered + p.buffered <= MaxTotal
  BY <1>1, <1>3
<1>5. /\ Put(w, r, p, l) \in Worlds /\ Put(w, r, p, l).req[r] = p
      /\ \A x \in Req \ {r} : Put(w, r, p, l).req[x] = w.req[x]
      /\ Put(w, r, p, l).lost = l
  BY <1>4, PutIs
<1>. QED
  BY <1>5 DEF Serves

\* Only fields of the request change that do not touch its queue.
LEMMA WithServes ==
  ASSUME NEW w \in Worlds, NEW r \in Req, NEW p \in Requests,
         p.buffered = w.req[r].buffered, NEW v, v = With(w, r, p)
  PROVE  Serves(w, v, r) /\ v.req[r] = p /\ v.lost = w.lost
BY PutField DEF Serves

\* Two steps for the same request are a step for it.
LEMMA ServesTrans ==
  ASSUME NEW w, NEW u, NEW v, NEW r, Serves(w, u, r), Serves(u, v, r)
  PROVE  Serves(w, v, r)
BY DEF Serves

\* No step at all is one for any request.
LEMMA ServesSelf ==
  ASSUME NEW w \in Worlds, NEW r
  PROVE  Serves(w, w, r)
BY DEF Serves

\* A text and its end.
LEMMA TextEmpty ==
  ASSUME NEW a \in Seq(Nat)
  PROVE  a \o <<>> = a /\ <<>> \o a = a
OBVIOUS

\* A text is its first part and the rest.
LEMMA TextSplit ==
  ASSUME NEW a \in Seq(Nat), NEW k \in 0 .. Len(a)
  PROVE  /\ SubSeq(a, 1, k) \in Seq(Nat) /\ SubSeq(a, k + 1, Len(a)) \in Seq(Nat)
         /\ SubSeq(a, 1, k) \o SubSeq(a, k + 1, Len(a)) = a
<1>1. PICK n \in Nat : n = Len(a)
  OBVIOUS
<1>2. k \in 0 .. n /\ 1 \in 1 .. n + 1 /\ k \in 1 - 1 .. n /\ n \in k .. n
  BY <1>1
<1>3. SubSeq(a, 1, k) \o SubSeq(a, k + 1, n) = SubSeq(a, 1, n)
  <2>1. a \in Seq(Nat) /\ 1 \in 1 .. Len(a) + 1 /\ k \in 1 - 1 .. Len(a) /\ n \in k .. Len(a)
    BY <1>1, <1>2
  <2>. QED
    BY <2>1, ConcatAdjacentSubSeq, ZenonT(30)
<1>4. SubSeq(a, 1, n) = a
  BY <1>1, SubSeqFull
<1>5. SubSeq(a, 1, k) \in Seq(Nat) /\ SubSeq(a, k + 1, n) \in Seq(Nat)
  <2>1. \A i \in 1 .. n : a[i] \in Nat
    BY <1>1
  <2>2. \A i \in 1 .. k : a[i] \in Nat
    BY <1>2, <2>1
  <2>3. \A i \in k + 1 .. n : a[i] \in Nat
    BY <1>2, <2>1
  <2>4. 1 \in Int /\ k \in Int /\ k + 1 \in Int /\ n \in Int
    BY <1>2
  <2>5. SubSeq(a, 1, k) \in Seq(Nat)
    BY <2>2, <2>4, SubSeqProperties
  <2>6. SubSeq(a, k + 1, n) \in Seq(Nat)
    BY <2>3, <2>4, SubSeqProperties
  <2>. QED
    BY <2>5, <2>6
<1>. QED
  BY <1>1, <1>3, <1>4, <1>5, ZenonT(30)

\* A token more at the end of two texts.
LEMMA TextAppend ==
  ASSUME NEW a \in Seq(Nat), NEW b \in Seq(Nat), NEW x \in Nat
  PROVE  /\ Append(b, x) \in Seq(Nat) /\ a \o b \in Seq(Nat)
         /\ a \o Append(b, x) = Append(a \o b, x)
OBVIOUS

\* Four texts can be put together from either side.
LEMMA TextFour ==
  \A a, b, c, d \in Seq(Nat) :
    /\ b \o (c \o d) \in Seq(Nat)
    /\ ((a \o b) \o c) \o d = a \o (b \o (c \o d))
<1>. TAKE a, b, c, d \in Seq(Nat)
<1>1. c \o d \in Seq(Nat)
  OBVIOUS
<1>2. b \o (c \o d) \in Seq(Nat)
  BY <1>1
<1>3. a \o b \in Seq(Nat)
  OBVIOUS
<1>4. ((a \o b) \o c) \o d = (a \o b) \o (c \o d)
  BY <1>3, TextAssociative, ZenonT(30)
<1>5. (a \o b) \o (c \o d) = a \o (b \o (c \o d))
  BY <1>1, TextAssociative, ZenonT(30)
<1>. QED
  BY <1>2, <1>4, <1>5, ZenonT(30)

\* What the consumer has taken is the beginning of the output.
Taken(r, q) ==
  /\ q.tokens = [i \in 1 .. Len(q.tokens) |-> i]
  /\ Len(q.tokens) <= TokenLimit[r]
  /\ r \notin Streamed => q.delivered = <<>>
  /\ r \in Streamed /\ q.listening =>
       \E rest \in Seq(Nat) : q.delivered \o rest = q.tokens

\* The texts of a request are sequences of tokens.
LEMMA TextFacts ==
  ASSUME NEW q \in Requests
  PROVE  /\ q.tokens \in Seq(Nat) /\ q.delivered \in Seq(Nat) /\ q.held \in Seq(Nat)
         /\ Flat(q.pieces) \in Seq(Nat) /\ Sent(q) \in Seq(Nat)
<1>1. q.pieces \in Seq(Seq(Nat)) /\ q.delivered \in Seq(Nat) /\ q.held \in Seq(Nat)
      /\ q.tokens \in Seq(Nat)
  BY RequestFacts
<1>2. <<>> \in Seq(Nat)
  OBVIOUS
<1>3. Flat(q.pieces) \in Seq(Nat)
  BY <1>1, <1>2, PiecesAppend
<1>4. q.delivered \o Flat(q.pieces) \in Seq(Nat)
  BY <1>1, <1>3
<1>. QED
  BY <1>1, <1>3, <1>4 DEF Sent

\* What holds of a stream holds before its next token is taken.
LEMMA StreamTaken ==
  ASSUME NEW r, NEW q \in Requests, Stream(r, q)
  PROVE  Taken(r, q)
<1>1. ASSUME r \in Streamed, q.listening
      PROVE  \E rest \in Seq(Nat) : q.delivered \o rest = q.tokens
  <2>1. PICK gap \in Seq(Nat) : (Sent(q) \o q.held) \o gap = q.tokens
    BY <1>1, ZenonT(30) DEF Stream
  <2>2. /\ q.delivered \in Seq(Nat) /\ Flat(q.pieces) \in Seq(Nat) /\ q.held \in Seq(Nat)
        /\ gap \in Seq(Nat)
    BY <2>1, TextFacts
  <2>3. PICK rest : rest = Flat(q.pieces) \o (q.held \o gap)
    BY ZenonT(30)
  <2>4. /\ rest \in Seq(Nat)
        /\ ((q.delivered \o Flat(q.pieces)) \o q.held) \o gap = q.delivered \o rest
    <3>1. \A b, c, d \in Seq(Nat) :
            /\ b \o (c \o d) \in Seq(Nat)
            /\ ((q.delivered \o b) \o c) \o d = q.delivered \o (b \o (c \o d))
      BY <2>2, TextFour, ZenonT(30)
    <3>2. \A c, d \in Seq(Nat) :
            /\ Flat(q.pieces) \o (c \o d) \in Seq(Nat)
            /\ ((q.delivered \o Flat(q.pieces)) \o c) \o d
                 = q.delivered \o (Flat(q.pieces) \o (c \o d))
      BY <2>2, <3>1, ZenonT(30)
    <3>3. /\ Flat(q.pieces) \o (q.held \o gap) \in Seq(Nat)
          /\ ((q.delivered \o Flat(q.pieces)) \o q.held) \o gap
               = q.delivered \o (Flat(q.pieces) \o (q.held \o gap))
      BY <2>2, <3>2, ZenonT(30)
    <3>. QED
      BY <2>3, <3>3, ZenonT(30)
  <2>5. q.delivered \o rest = q.tokens
    BY <2>1, <2>4 DEF Sent
  <2>. QED
    BY <2>4, <2>5, ZenonT(30)
<1>. QED
  BY <1>1, ZenonT(30) DEF Stream, Taken

\* An early end keeps what the consumer already has.
LEMMA CutStream ==
  ASSUME NEW r, NEW q \in Requests, NEW p \in Requests, Taken(r, q),
         Closed(q, p), p.out \notin {"none", "stop", "length"}, p.pieces = <<>>
  PROVE  Stream(r, p)
<1>1. /\ p.tokens = q.tokens /\ p.delivered = q.delivered /\ p.listening = q.listening
      /\ p.held = <<>> /\ ~p.matched
  BY DEF Closed
<1>2. Sent(p) \o p.held = q.delivered
  <2>1. Flat(p.pieces) = <<>>
    BY PiecesEmpty
  <2>2. q.delivered \in Seq(Nat)
    BY TextFacts
  <2>3. q.delivered \o <<>> = q.delivered
    BY <2>2, TextEmpty
  <2>. QED
    BY <1>1, <2>1, <2>3, ZenonT(30) DEF Sent
<1>3. ASSUME r \in Streamed, p.listening
      PROVE  \E gap \in Seq(Nat) :
               /\ (Sent(p) \o p.held) \o gap = p.tokens
               /\ p.out \in {"none", "stop", "length"} /\ ~p.matched => gap = <<>>
  <2>1. PICK rest \in Seq(Nat) : q.delivered \o rest = q.tokens
    BY <1>1, <1>3, ZenonT(30) DEF Taken
  <2>2. (Sent(p) \o p.held) \o rest = p.tokens
    BY <1>1, <1>2, <2>1, ZenonT(30)
  <2>. QED
    BY <2>1, <2>2, ZenonT(30)
<1>. QED
  BY <1>1, <1>3, ZenonT(30) DEF Stream, Taken

\* A request that was ended early.
LEMMA BrokenEnds ==
  ASSUME NEW w \in Worlds, NEW r \in Req, NEW v, NEW l \in {"no", "probe", "stall"},
         NEW o \in {"lost", "deadline", "cancelled", "failed", "misuse"}, Broken(w, v, r, l, o)
  PROVE  /\ Serves(w, v, r) /\ v.lost = l /\ v.req[r].out = o
         /\ Keeps(w.req[r], v.req[r])
         /\ o # "misuse" => Ending(w.req[r], v.req[r], l)
         /\ Taken(r, w.req[r]) => Stream(r, v.req[r])
         /\ v.req[r].lease = Leased(w.req[r].lease, l)
<1>1. PICK p \in Requests :
        /\ v = Put(w, r, p, l) /\ Closed(w.req[r], p)
        /\ p.out = o /\ p.pieces = <<>> /\ p.buffered = 0
        /\ p.lease = Leased(w.req[r].lease, l)
  BY DEF Broken
<1>2. PICK q \in Requests : q = w.req[r]
  BY WorldFacts
<1>3. p.buffered <= w.req[r].buffered
  BY <1>1, <1>2, RequestFacts
<1>4. Serves(w, v, r) /\ v.req[r] = p /\ v.lost = l
  BY <1>1, <1>3, PutServes
<1>5. Keeps(q, p)
  BY <1>1, <1>2 DEF Closed, Keeps
<1>6. ASSUME o # "misuse" PROVE Ending(q, p, l)
  BY <1>1, <1>2, <1>6 DEF Closed, Ending, SameClient, Over, Leased
<1>7. Taken(r, q) => Stream(r, p)
  BY <1>1, <1>2, CutStream
<1>. QED
  BY <1>1, <1>2, <1>4, <1>5, <1>6, <1>7

\* What a failure does to the request it befell.
LEMMA RuinedEnds ==
  ASSUME NEW w \in Worlds, NEW r \in Req, NEW v, NEW f, Ruined(w, v, r, f),
         w.req[r].out = "none"
  PROVE  /\ Serves(w, v, r) /\ v.lost \in {w.lost, Probed(w.lost, f)}
         /\ v.req[r].out # "none"
         /\ Keeps(w.req[r], v.req[r])
         /\ f # "misuse" => Ending(w.req[r], v.req[r], v.lost)
         /\ Taken(r, w.req[r]) => Stream(r, v.req[r])
         /\ w.req[r].lease = "held" /\ v.req[r].lease = "returned" =>
              w.lost = "no" /\ (f # "lost" \/ w.req[r].cancel \/ w.req[r].expired)
<1>1. ASSUME NEW o \in {"lost", "misuse", "failed"},
             Broken(w, v, r, Probed(w.lost, f), o), o = "misuse" => f = "misuse"
      PROVE  /\ Serves(w, v, r) /\ v.lost = Probed(w.lost, f)
             /\ v.req[r].out # "none"
             /\ Keeps(w.req[r], v.req[r])
             /\ f # "misuse" => Ending(w.req[r], v.req[r], v.lost)
             /\ Taken(r, w.req[r]) => Stream(r, v.req[r])
             /\ w.req[r].lease = "held" /\ v.req[r].lease = "returned" =>
                  w.lost = "no" /\ f # "lost"
  <2>1. PICK l \in {"no", "probe", "stall"} : l = Probed(w.lost, f)
    BY WorldFacts DEF Probed
  <2>2. Broken(w, v, r, l, o)
    BY <1>1, <2>1
  <2>3. /\ Serves(w, v, r) /\ v.lost = l /\ v.req[r].out = o
        /\ Keeps(w.req[r], v.req[r])
        /\ o # "misuse" => Ending(w.req[r], v.req[r], l)
        /\ Taken(r, w.req[r]) => Stream(r, v.req[r])
        /\ v.req[r].lease = Leased(w.req[r].lease, l)
    BY <2>2, BrokenEnds
  <2>4. w.req[r].lease = "held" /\ v.req[r].lease = "returned" => l = "no"
    BY <2>3 DEF Leased
  <2>5. l = "no" => w.lost = "no" /\ f # "lost"
    BY <2>1 DEF Probed
  <2>. QED
    BY <1>1, <2>1, <2>3, <2>4, <2>5
<1>2. ASSUME Stopped(w, r), NEW o \in {"lost", "deadline", "cancelled"},
             Broken(w, v, r, w.lost, o)
      PROVE  /\ Serves(w, v, r) /\ v.lost = w.lost
             /\ v.req[r].out # "none"
             /\ Keeps(w.req[r], v.req[r])
             /\ Ending(w.req[r], v.req[r], v.lost)
             /\ Taken(r, w.req[r]) => Stream(r, v.req[r])
             /\ w.req[r].lease = "held" /\ v.req[r].lease = "returned" => w.lost = "no"
  <2>1. PICK l \in {"no", "probe", "stall"} : l = w.lost
    BY WorldFacts
  <2>2. Broken(w, v, r, l, o)
    BY <1>2, <2>1
  <2>3. /\ Serves(w, v, r) /\ v.lost = l /\ v.req[r].out = o
        /\ Keeps(w.req[r], v.req[r])
        /\ o # "misuse" => Ending(w.req[r], v.req[r], l)
        /\ Taken(r, w.req[r]) => Stream(r, v.req[r])
        /\ v.req[r].lease = Leased(w.req[r].lease, l)
    BY <2>2, BrokenEnds
  <2>4. w.req[r].lease = "held" /\ v.req[r].lease = "returned" => l = "no"
    BY <2>3 DEF Leased
  <2>. QED
    BY <1>2, <2>1, <2>3, <2>4
<1>3. CASE \E o \in {"lost", "misuse", "failed"} :
             Broken(w, v, r, Probed(w.lost, f), o) /\ (o = "misuse" => f = "misuse")
  BY <1>1, <1>3
<1>4. CASE Stopped(w, r) /\ \E o \in {"lost", "deadline", "cancelled"} : Broken(w, v, r, w.lost, o)
  <2>1. w.lost = "no" /\ w.req[r].out = "none" => w.req[r].cancel \/ w.req[r].expired
    BY <1>4 DEF Stopped, IsTerminal
  <2>. QED
    BY <1>2, <1>4, <2>1
<1>. QED
  BY <1>3, <1>4 DEF Ruined

\* A request that is asked whether it was stopped ends, or was not.
LEMMA IfStopped ==
  ASSUME NEW w \in Worlds, NEW r \in Req, w.req[r].out = "none",
         NEW v, v = CompleteIfStopped(w, r)
  PROVE  /\ Serves(w, v, r) /\ v.lost = w.lost
         /\ \/ ~Stopped(w, r) /\ v = w
            \/ Stopped(w, r) /\ Ending(w.req[r], v.req[r], w.lost)
         /\ Stream(r, w.req[r]) => Stream(r, v.req[r])
<1>1. CASE ~Stopped(w, r)
  BY <1>1, CompleteIfStoppedIs, ServesSelf
<1>2. CASE Stopped(w, r)
  <2>1. PICK l \in {"no", "probe", "stall"} : l = w.lost
    BY WorldFacts
  <2>2. PICK o \in {"lost", "deadline", "cancelled"} : Broken(w, v, r, w.lost, o)
    BY <1>2, CompleteIfStoppedIs
  <2>3. Broken(w, v, r, l, o)
    BY <2>1, <2>2
  <2>4. /\ Serves(w, v, r) /\ v.lost = l
        /\ o # "misuse" => Ending(w.req[r], v.req[r], l)
        /\ Taken(r, w.req[r]) => Stream(r, v.req[r])
    BY <2>3, BrokenEnds
  <2>5. Stream(r, w.req[r]) => Taken(r, w.req[r])
    BY StreamTaken, WorldFacts
  <2>. QED
    BY <1>2, <2>1, <2>2, <2>4, <2>5
<1>. QED
  BY <1>1, <1>2

\* What the runner pool offers.
LEMMA ModeFacts ==
  ASSUME mode \in Modes
  PROVE  /\ mode.capacity \in Nat \ {0} /\ mode.width \in Nat \ {0} /\ mode.output \in Nat
         /\ mode.multi \in BOOLEAN /\ mode.batched \in BOOLEAN /\ mode.final \in BOOLEAN
BY SchedulerAssumption

\* How the end of a successful request may fail.
LEMMA MishapIs ==
  ASSUME mode \in Modes, NEW w, NEW r \in Req, NEW o
  PROVE  /\ Mishap(w, r, o) \in {"done", "error", "lost"}
         /\ Mishap(w, r, o) = "done" => TailFits(w, r)
<1>1. mode.commit \in [Req -> {"done", "error", "lost"}]
  BY SchedulerAssumption
<1>2. mode.commit[r] \in {"done", "error", "lost"}
  BY <1>1
<1>. QED
  BY <1>2 DEF Mishap

\* What the stop filter shows of the text it has.
LEMMA FilterFacts ==
  ASSUME NEW q \in Requests, NEW r, NEW f \in FilterOutcomes(q, r)
  PROVE  /\ f.shown \in 0 .. Len(q.held) + 1 /\ f.match \in BOOLEAN
         /\ r \notin mode.filtered => f.shown = 1
<1>1. Len(q.held) \in Nat
  BY RequestFacts
<1>2. CASE r \in mode.filtered
  BY <1>2 DEF FilterOutcomes
<1>3. CASE r \notin mode.filtered
  <2>1. f = [shown |-> 1, match |-> FALSE]
    BY <1>3 DEF FilterOutcomes
  <2>. QED
    BY <1>1, <2>1
<1>. QED
  BY <1>2, <1>3

\* The next token counts on.
LEMMA CountAppend ==
  ASSUME NEW tk \in Seq(Nat), tk = [i \in 1 .. Len(tk) |-> i]
  PROVE  /\ Append(tk, Len(tk) + 1) = [i \in 1 .. Len(Append(tk, Len(tk) + 1)) |-> i]
         /\ Len(Append(tk, Len(tk) + 1)) = Len(tk) + 1
<1>1. PICK n \in Nat : n = Len(tk)
  BY LenProperties, ZenonT(30)
<1>2. PICK u : u = Append(tk, n + 1)
  BY ZenonT(30)
<1>3. /\ u \in Seq(Nat) /\ Len(u) = n + 1 /\ DOMAIN u = 1 .. n + 1
      /\ \A i \in 1 .. n : u[i] = tk[i]
      /\ u[n + 1] = n + 1
  BY <1>1, <1>2
<1>4. \A i \in 1 .. n : tk[i] = i
  BY <1>1
<1>5. \A i \in 1 .. n + 1 : u[i] = i
  BY <1>1, <1>3, <1>4
<1>6. u = [i \in DOMAIN u |-> u[i]]
  BY <1>3
<1>7. u = [i \in 1 .. n + 1 |-> i]
  BY <1>3, <1>5, <1>6
<1>. QED
  BY <1>1, <1>2, <1>3, <1>7

\* The next token of the output.
NextToken(r, q, token) ==
  token = Len(q.tokens) + 1 /\ Len(q.tokens) < TokenLimit[r]

\* The next token of the model's output is taken in order.
LEMMA TokenTaken ==
  ASSUME NEW r, NEW q \in Requests, NEW p \in Requests, NEW token, Taken(r, q),
         NextToken(r, q, token), p.tokens = Append(q.tokens, token),
         p.delivered = q.delivered, p.listening = q.listening, TokenLimit[r] \in Nat
  PROVE  Taken(r, p)
<1>1. PICK tk \in Seq(Nat) : tk = q.tokens
  BY TextFacts, ZenonT(30)
<1>2. PICK n \in Nat : n = Len(tk)
  BY <1>1
<1>3. p.tokens = Append(tk, n + 1) /\ n < TokenLimit[r]
  BY <1>1, <1>2 DEF NextToken
<1>4. p.tokens = [i \in 1 .. Len(p.tokens) |-> i] /\ Len(p.tokens) = n + 1
  BY <1>1, <1>2, <1>3, CountAppend DEF Taken
<1>5. Len(p.tokens) <= TokenLimit[r]
  BY <1>2, <1>3, <1>4
<1>6. ASSUME r \in Streamed, p.listening
      PROVE  \E rest \in Seq(Nat) : p.delivered \o rest = p.tokens
  <2>1. PICK rest \in Seq(Nat) : q.delivered \o rest = tk
    BY <1>1, <1>6, ZenonT(30) DEF Taken
  <2>2. Append(rest, n + 1) \in Seq(Nat)
    BY <1>2
  <2>3. q.delivered \in Seq(Nat) /\ n + 1 \in Nat
    BY <1>2, TextFacts
  <2>4. q.delivered \o Append(rest, n + 1) = Append(q.delivered \o rest, n + 1)
    BY <2>3, TextAppend, ZenonT(30)
  <2>. QED
    BY <1>3, <2>1, <2>2, <2>4, ZenonT(30)
<1>. QED
  BY <1>4, <1>5, <1>6, ZenonT(30) DEF Taken

\* Showing a part of the text, withholding or dropping the rest.
LEMMA TokenStream ==
  ASSUME NEW r, NEW q \in Requests, NEW p \in Requests, NEW token \in Nat, Stream(r, q),
         ~q.matched, q.out = "none", NextToken(r, q, token), TokenLimit[r] \in Nat,
         p.tokens = Append(q.tokens, token),
         p.delivered = q.delivered, p.listening = q.listening,
         NEW text \in Seq(Nat), NEW rest \in Seq(Nat), Append(q.held, token) = text \o rest,
         p.held = IF p.matched THEN <<>> ELSE rest,
         r \in Streamed => Flat(p.pieces) = Flat(q.pieces) \o text,
         r \notin Streamed => p.pieces = q.pieces
  PROVE  Stream(r, p)
<1>1. Taken(r, p)
  BY StreamTaken, TokenTaken
<1>2. ASSUME r \in Streamed, p.listening
      PROVE  \E gap \in Seq(Nat) :
               /\ (Sent(p) \o p.held) \o gap = p.tokens
               /\ p.out \in {"none", "stop", "length"} /\ ~p.matched => gap = <<>>
  <2>1. PICK old : (Sent(q) \o q.held) \o old = q.tokens /\ old = <<>>
    BY <1>2, ZenonT(30) DEF Stream
  <2>2. /\ q.delivered \in Seq(Nat) /\ Flat(q.pieces) \in Seq(Nat) /\ q.held \in Seq(Nat)
        /\ Sent(q) \in Seq(Nat)
    BY TextFacts
  <2>3. Sent(q) \o q.held = q.tokens
    <3>1. Sent(q) \o q.held \in Seq(Nat)
      BY <2>2
    <3>. QED
      BY <2>1, <3>1, TextEmpty, ZenonT(30)
  <2>4. Sent(q) \o Append(q.held, token) = p.tokens
    <3>1. Sent(q) \o Append(q.held, token) = Append(Sent(q) \o q.held, token)
      BY <2>2, TextAppend, ZenonT(30)
    <3>. QED
      BY <2>3, <3>1
  <2>5. Sent(p) = Sent(q) \o text
    <3>1. (q.delivered \o Flat(q.pieces)) \o text = q.delivered \o (Flat(q.pieces) \o text)
      BY <2>2, TextAssociative, ZenonT(30)
    <3>. QED
      BY <1>2, <3>1, ZenonT(30) DEF Sent
  <2>6. Sent(p) \o rest = p.tokens
    <3>1. (Sent(q) \o text) \o rest = Sent(q) \o (text \o rest)
      BY <2>2, TextAssociative, ZenonT(30)
    <3>. QED
      BY <2>4, <2>5, <3>1, ZenonT(30)
  <2>7. Sent(p) \in Seq(Nat)
    BY TextFacts
  <2>8. <<>> \in Seq(Nat)
    OBVIOUS
  <2>9. CASE p.matched
    <3>1. (Sent(p) \o p.held) \o rest = p.tokens
      <4>1. Sent(p) \o <<>> = Sent(p)
        BY <2>7, TextEmpty
      <4>. QED
        BY <2>6, <2>9, <4>1, ZenonT(30)
    <3>. QED
      BY <2>9, <3>1, ZenonT(30)
  <2>10. CASE ~p.matched
    <3>1. (Sent(p) \o p.held) \o <<>> = p.tokens
      <4>1. Sent(p) \o rest \in Seq(Nat)
        BY <2>7
      <4>2. (Sent(p) \o rest) \o <<>> = Sent(p) \o rest
        BY <4>1, TextEmpty
      <4>. QED
        BY <2>6, <2>10, <4>2, ZenonT(30)
    <3>. QED
      BY <2>8, <3>1, ZenonT(30)
  <2>. QED
    BY <2>9, <2>10, ZenonT(30)
<1>3. r \notin Streamed => p.pieces = <<>>
  BY DEF Stream
<1>. QED
  BY <1>1, <1>2, <1>3, ZenonT(30) DEF Taken, Stream

\* A request that goes on after a token was published.
Published(q, p, token, f) ==
  /\ Steady(q, p)
  /\ p.tokens = Append(q.tokens, token)
  /\ p.matched = f.match

\* The token is published, or the request ends; the stream is right either way.
LEMMA PublishSelectionIs ==
  ASSUME NEW w \in Worlds, NEW r \in Req, NEW token \in Nat,
         NEW f \in FilterOutcomes(w.req[r], r), w.req[r].out = "none", mode \in Modes,
         NEW v, v = PublishSelection(w, r, token, f)
  PROVE  /\ Serves(w, v, r) /\ v.lost = w.lost
         /\ \/ Ending(w.req[r], v.req[r], w.lost)
            \/ Published(w.req[r], v.req[r], token, f)
         /\ Stream(r, w.req[r]) /\ ~w.req[r].matched /\ NextToken(r, w.req[r], token) =>
              Stream(r, v.req[r])
<1>1. PICK q \in Requests : q = w.req[r] /\ q.out = "none"
  BY WorldFacts
<1>2. TokenLimit[r] \in Nat
  BY SchedulerAssumption
<1>3. PICK n \in Nat : n = Len(q.tokens) /\ mode.output \in Nat
  BY <1>1, RequestFacts, LenProperties, ModeFacts
<1>4. PICK all : all = Append(q.held, token)
  BY ZenonT(30)
<1>5. all \in Seq(Nat) /\ Len(all) = Len(q.held) + 1 /\ Len(q.held) \in Nat
  BY <1>1, <1>4, RequestFacts
<1>6. /\ f.shown \in 0 .. Len(q.held) + 1 /\ f.match \in BOOLEAN
      /\ r \notin mode.filtered => f.shown = 1
  BY <1>1, FilterFacts
<1>7. PICK text : text = SubSeq(all, 1, f.shown)
  BY ZenonT(30)
<1>8. PICK rest : rest = SubSeq(all, f.shown + 1, Len(all))
  BY ZenonT(30)
<1>9. text \in Seq(Nat) /\ rest \in Seq(Nat) /\ all = text \o rest
  <2>1. f.shown \in 0 .. Len(all)
    BY <1>5, <1>6
  <2>. QED
    BY <1>5, <1>7, <1>8, <2>1, TextSplit, ZenonT(30)
<1>10. PICK h : h = IF f.match THEN <<>> ELSE rest
  OBVIOUS
<1>11. h \in Seq(Nat)
  BY <1>9, <1>10
<1>12. PICK tk : tk = Append(q.tokens, token) /\ tk \in Seq(Nat)
  <2>1. q.tokens \in Seq(Nat)
    BY <1>1, RequestFacts
  <2>2. Append(q.tokens, token) \in Seq(Nat)
    BY <2>1
  <2>. QED
    BY <2>2, ZenonT(30)
<1>13. PICK a : a = Spelled(q, tk, h, f.match, q.pieces, q.buffered)
  OBVIOUS
<1>14. /\ a \in Requests /\ Steady(q, a) /\ a.tokens = tk /\ a.held = h
       /\ a.matched = f.match /\ a.pieces = q.pieces /\ a.buffered = q.buffered
  <2>1. q \in Records /\ q.pieces \in Seq(Seq(Nat)) /\ q.buffered \in Nat
    BY <1>1, RequestFacts
  <2>2. /\ a \in Records /\ Steady(q, a) /\ a.tokens = tk /\ a.held = h
        /\ a.matched = f.match /\ a.pieces = q.pieces /\ a.buffered = q.buffered
    <3>1. PICK ps \in Seq(Seq(Nat)), b \in Nat, m \in BOOLEAN, t \in Seq(Nat), g \in Seq(Nat) :
            ps = q.pieces /\ b = q.buffered /\ m = f.match /\ t = tk /\ g = h
      BY <1>6, <1>11, <1>12, <2>1, ZenonT(30)
    <3>2. /\ Spelled(q, t, g, m, ps, b) \in Records
          /\ Steady(q, Spelled(q, t, g, m, ps, b))
          /\ Spelled(q, t, g, m, ps, b).tokens = t /\ Spelled(q, t, g, m, ps, b).held = g
          /\ Spelled(q, t, g, m, ps, b).matched = m
          /\ Spelled(q, t, g, m, ps, b).pieces = ps
          /\ Spelled(q, t, g, m, ps, b).buffered = b
      BY <2>1, SpelledIs
    <3>. QED
      BY <1>13, <3>1, <3>2
  <2>. QED
    BY <1>1, <2>2, RequestWith
<1>15. a = [q EXCEPT !.tokens = Append(q.tokens, token),
                     !.held = IF f.match THEN <<>> ELSE rest, !.matched = f.match]
  <2>1. q \in Records
    BY <1>1, RequestFacts
  <2>. QED
    BY <1>10, <1>12, <1>13, <2>1, ZenonT(30) DEF Spelled, Records
<1>16. PICK u : u = With(w, r, a)
  OBVIOUS
<1>17. Serves(w, u, r) /\ u.req[r] = a /\ u.lost = w.lost /\ u \in Worlds
  <2>1. a.buffered = w.req[r].buffered
    BY <1>1, <1>14
  <2>2. Serves(w, u, r) /\ u.req[r] = a /\ u.lost = w.lost
    BY <1>14, <1>16, <2>1, WithServes
  <2>. QED
    BY <2>2 DEF Serves
<1>18. DEFINE silent == text = <<>> /\ r \in mode.filtered
<1>19. v = CASE n >= mode.output -> CompleteFailure(w, r, "failed")
             [] n < mode.output /\ ~silent /\ ~CanPublish(u, r, text) ->
                  CompleteFailure(u, r, "failed")
             [] OTHER -> CompleteIfStopped(IF silent THEN u ELSE PublishPiece(u, r, text), r)
  <2>1. u = [w EXCEPT !.req[r] = [q EXCEPT !.tokens = Append(q.tokens, token),
               !.held = IF f.match THEN <<>> ELSE rest, !.matched = f.match]]
    BY <1>15, <1>16 DEF With
  <2>. QED
    BY <1>1, <1>3, <1>4, <1>7, <1>8, <2>1, ZenonT(30) DEF PublishSelection
<1>20. Stream(r, q) /\ NextToken(r, q, token) => Taken(r, a)
  BY <1>2, <1>12, <1>14, StreamTaken, TokenTaken DEF Steady, SameClient
<1>21. a.out = "none" /\ u.req[r].out = "none"
  BY <1>1, <1>14, <1>17 DEF Steady
<1>22. PICK l \in {"no", "probe", "stall"} : l = w.lost
  BY WorldFacts
<1>23. PICK o \in {"lost", "failed"} : o = IF w.lost = "no" THEN "failed" ELSE "lost"
  OBVIOUS
<1>24. "failed" \in Outcome
  BY DEF Outcome
<1>25. CASE n >= mode.output
  <2>1. v = CompleteFailure(w, r, "failed")
    BY <1>3, <1>19, <1>25
  <2>2. Broken(w, v, r, l, o)
    BY <1>1, <1>22, <1>23, <1>24, <2>1, CompleteFailureIs
  <2>3. /\ Serves(w, v, r) /\ v.lost = l
        /\ o # "misuse" => Ending(w.req[r], v.req[r], l)
        /\ Taken(r, w.req[r]) => Stream(r, v.req[r])
    BY <2>2, BrokenEnds
  <2>. QED
    BY <1>1, <1>22, <1>23, <2>3, StreamTaken
<1>26. CASE n < mode.output /\ ~silent /\ ~CanPublish(u, r, text)
  <2>1. v = CompleteFailure(u, r, "failed")
    BY <1>3, <1>19, <1>26
  <2>2. Broken(u, v, r, l, o)
    BY <1>17, <1>21, <1>22, <1>23, <1>24, <2>1, CompleteFailureIs
  <2>3. /\ Serves(u, v, r) /\ v.lost = l
        /\ o # "misuse" => Ending(u.req[r], v.req[r], l)
        /\ Taken(r, u.req[r]) => Stream(r, v.req[r])
    BY <1>17, <2>2, BrokenEnds
  <2>4. Ending(q, v.req[r], l)
    BY <1>14, <1>17, <1>23, <2>3 DEF Ending, Steady, SameClient
  <2>. QED
    BY <1>1, <1>17, <1>20, <1>22, <2>3, <2>4, ServesTrans
<1>27. CASE n < mode.output /\ (silent \/ CanPublish(u, r, text))
  <2>1. PICK x : x = IF silent THEN u ELSE PublishPiece(u, r, text)
    OBVIOUS
  <2>2. v = CompleteIfStopped(x, r)
    BY <1>3, <1>19, <1>27, <2>1
  <2>3. /\ Serves(u, x, r) /\ x.lost = w.lost /\ x \in Worlds
        /\ x.req[r] \in Requests /\ Steady(a, x.req[r]) /\ x.req[r].tokens = tk
        /\ x.req[r].held = h /\ x.req[r].matched = f.match
        /\ r \in Streamed => Flat(x.req[r].pieces) = Flat(q.pieces) \o text
        /\ r \notin Streamed => x.req[r].pieces = q.pieces
    <3>1. CASE silent
      <4>1. x = u
        BY <2>1, <3>1
      <4>2. Flat(q.pieces) \in Seq(Nat)
        BY <1>1, TextFacts
      <4>3. Flat(q.pieces) \o text = Flat(q.pieces)
        BY <3>1, <4>2, TextEmpty
      <4>4. Steady(a, a)
        BY DEF Steady, SameClient
      <4>. QED
        BY <1>14, <1>17, <4>1, <4>3, <4>4, ServesSelf
    <3>2. CASE ~silent
      <4>1. x = PublishPiece(u, r, text)
        BY <2>1, <3>2
      <4>2. PICK p \in Requests :
              /\ x = Put(u, r, p, u.lost)
              /\ u.budget - u.req[r].buffered + p.buffered <= MaxTotal
              /\ Steady(u.req[r], p)
              /\ p.tokens = u.req[r].tokens /\ p.held = u.req[r].held
              /\ p.matched = u.req[r].matched
              /\ p.pieces = IF r \in Streamed THEN Append(u.req[r].pieces, text)
                            ELSE u.req[r].pieces
        <5>1. u \in Worlds /\ text \in Seq(Nat) /\ CanPublish(u, r, text)
          BY <1>9, <1>17, <1>27, <3>2
        <5>. QED
          BY <4>1, <5>1, PublishPieceIs
      <4>3. PICK k \in {"no", "probe", "stall"} : k = u.lost
        BY <1>17, <1>22
      <4>4. Serves(u, x, r) /\ x.req[r] = p /\ x.lost = k
        BY <1>17, <4>2, <4>3, PutServes
      <4>5. Flat(Append(q.pieces, text)) = Flat(q.pieces) \o text
        BY <1>1, <1>9, RequestFacts, PiecesAppend, ZenonT(30)
      <4>. QED
        BY <1>14, <1>17, <4>2, <4>3, <4>4, <4>5 DEF Serves
    <3>. QED
      BY <3>1, <3>2
  <2>4. x.req[r].out = "none" /\ Steady(q, x.req[r])
    BY <1>1, <1>14, <2>3 DEF Steady, SameClient
  <2>5. /\ Serves(x, v, r) /\ v.lost = x.lost
        /\ \/ ~Stopped(x, r) /\ v = x
           \/ Stopped(x, r) /\ Ending(x.req[r], v.req[r], x.lost)
        /\ Stream(r, x.req[r]) => Stream(r, v.req[r])
    BY <2>2, <2>3, <2>4, IfStopped
  <2>6. Serves(w, v, r) /\ v.lost = w.lost
    BY <1>17, <2>3, <2>5, ServesTrans
  <2>7. Ending(w.req[r], v.req[r], w.lost) \/ Published(w.req[r], v.req[r], token, f)
    <3>1. CASE v = x
      BY <1>1, <1>12, <2>3, <2>4, <3>1 DEF Published
    <3>2. CASE Ending(x.req[r], v.req[r], x.lost)
      BY <1>1, <2>3, <2>4, <3>2 DEF Ending, Steady, SameClient
    <3>. QED
      BY <2>5, <3>1, <3>2
  <2>8. ASSUME Stream(r, q), ~q.matched, NextToken(r, q, token)
        PROVE  Stream(r, x.req[r])
    <3>1. PICK p : p = x.req[r]
      OBVIOUS
    <3>2. /\ p \in Requests /\ p.tokens = Append(q.tokens, token)
          /\ p.delivered = q.delivered /\ p.listening = q.listening
          /\ p.held = IF p.matched THEN <<>> ELSE rest
          /\ r \in Streamed => Flat(p.pieces) = Flat(q.pieces) \o text
          /\ r \notin Streamed => p.pieces = q.pieces
      BY <1>10, <1>12, <2>3, <2>4, <3>1 DEF Steady, SameClient
    <3>3. Append(q.held, token) = text \o rest
      BY <1>4, <1>9
    <3>4. Stream(r, p)
      BY <1>1, <1>2, <1>9, <2>8, <3>2, <3>3, TokenStream, ZenonT(30)
    <3>. QED
      BY <3>1, <3>4
  <2>. QED
    BY <1>1, <2>5, <2>6, <2>7, <2>8
<1>. QED
  BY <1>3, <1>25, <1>26, <1>27

\* The end of a successful request keeps its stream whole.
LEMMA WholeStream ==
  ASSUME NEW r, NEW q \in Requests, NEW p \in Requests, Stream(r, q), q.out = "none",
         q.matched => p.out = "stop_sequence",
         p.tokens = q.tokens, p.delivered = q.delivered, p.listening = q.listening,
         p.held = <<>>, ~p.matched,
         r \in Streamed => Flat(p.pieces) = Flat(q.pieces) \o q.held,
         r \notin Streamed => p.pieces = q.pieces
  PROVE  Stream(r, p)
<1>1. ASSUME r \in Streamed, p.listening
      PROVE  \E gap \in Seq(Nat) :
               /\ (Sent(p) \o p.held) \o gap = p.tokens
               /\ p.out \in {"none", "stop", "length"} /\ ~p.matched => gap = <<>>
  <2>1. PICK gap \in Seq(Nat) : /\ (Sent(q) \o q.held) \o gap = q.tokens
                                /\ ~q.matched => gap = <<>>
    BY <1>1, ZenonT(30) DEF Stream
  <2>2. /\ q.delivered \in Seq(Nat) /\ Flat(q.pieces) \in Seq(Nat) /\ q.held \in Seq(Nat)
        /\ Sent(p) \in Seq(Nat)
    BY TextFacts
  <2>3. Sent(p) = Sent(q) \o q.held
    <3>1. (q.delivered \o Flat(q.pieces)) \o q.held = q.delivered \o (Flat(q.pieces) \o q.held)
      BY <2>2, TextAssociative, ZenonT(30)
    <3>. QED
      BY <1>1, <3>1, ZenonT(30) DEF Sent
  <2>4. Sent(p) \o p.held = Sent(p)
    BY <2>2, TextEmpty
  <2>5. (Sent(p) \o p.held) \o gap = p.tokens
    BY <2>1, <2>3, <2>4, ZenonT(30)
  <2>6. p.out \in {"none", "stop", "length"} => gap = <<>>
    BY <2>1
  <2>. QED
    BY <2>1, <2>5, <2>6, ZenonT(30)
<1>2. r \notin Streamed => p.pieces = <<>>
  BY DEF Stream
<1>. QED
  BY <1>1, <1>2, ZenonT(30) DEF Stream

\* Publishing what is withheld.
LEMMA TailPublished ==
  ASSUME NEW w \in Worlds, NEW r \in Req, TailFits(w, r),
         NEW v, v = IF w.req[r].held = <<>> THEN w
                    ELSE [PublishPiece(w, r, w.req[r].held) EXCEPT !.req[r].held = <<>>]
  PROVE  /\ Serves(w, v, r) /\ v.lost = w.lost
         /\ Steady(w.req[r], v.req[r]) /\ v.req[r].tokens = w.req[r].tokens
         /\ r \in Streamed => Flat(v.req[r].pieces) = Flat(w.req[r].pieces) \o w.req[r].held
         /\ r \notin Streamed => v.req[r].pieces = w.req[r].pieces
<1>1. PICK q \in Requests : q = w.req[r]
  BY WorldFacts
<1>2. q.held \in Seq(Nat) /\ Flat(q.pieces) \in Seq(Nat) /\ q.pieces \in Seq(Seq(Nat))
  BY <1>1, TextFacts, RequestFacts
<1>3. CASE q.held = <<>>
  <2>1. v = w
    BY <1>1, <1>3
  <2>2. Flat(q.pieces) \o q.held = Flat(q.pieces)
    BY <1>2, <1>3, TextEmpty
  <2>3. Steady(q, q)
    BY DEF Steady, SameClient
  <2>. QED
    BY <1>1, <2>1, <2>2, <2>3, ServesSelf, ZenonT(30)
<1>4. CASE q.held # <<>>
  <2>1. CanPublish(w, r, q.held)
    BY <1>1, <1>4 DEF TailFits
  <2>2. PICK p \in Requests :
          /\ PublishPiece(w, r, q.held) = Put(w, r, p, w.lost)
          /\ w.budget - w.req[r].buffered + p.buffered <= MaxTotal
          /\ Steady(w.req[r], p)
          /\ p.tokens = w.req[r].tokens /\ p.held = w.req[r].held
          /\ p.matched = w.req[r].matched
          /\ p.pieces = IF r \in Streamed THEN Append(w.req[r].pieces, q.held)
                        ELSE w.req[r].pieces
    BY <1>2, <2>1, PublishPieceIs
  <2>3. PICK x : x = PublishPiece(w, r, q.held)
    OBVIOUS
  <2>4. PICK l \in {"no", "probe", "stall"} : l = w.lost
    BY WorldFacts
  <2>5. Serves(w, x, r) /\ x.req[r] = p /\ x.lost = l /\ x \in Worlds
    <3>1. Serves(w, x, r) /\ x.req[r] = p /\ x.lost = l
      BY <2>2, <2>3, <2>4, PutServes
    <3>. QED
      BY <3>1 DEF Serves
  <2>6. PICK c : c = [p EXCEPT !.held = <<>>]
    BY ZenonT(30)
  <2>7. /\ c \in Records /\ c.pieces = p.pieces /\ c.buffered = p.buffered
        /\ Steady(p, c) /\ c.tokens = p.tokens
    <3>1. p \in Records /\ <<>> \in Seq(Nat)
      BY <2>2, RequestFacts
    <3>2. /\ c \in Records /\ c.pieces = p.pieces /\ c.buffered = p.buffered
          /\ c.tokens = p.tokens
      BY <2>6, <3>1, ZenonT(60) DEF Records
    <3>3. Steady(p, c)
      BY <2>6, <3>1 DEF Records, Steady, SameClient
    <3>. QED
      BY <3>2, <3>3
  <2>8. c \in Requests
    BY <2>2, <2>7, RequestWith
  <2>9. v = With(x, r, c)
    <3>1. v = [x EXCEPT !.req[r].held = <<>>]
      BY <1>1, <1>4, <2>3
    <3>. QED
      BY <2>5, <2>6, <3>1, ZenonT(30) DEF With
  <2>10. Serves(x, v, r) /\ v.req[r] = c /\ v.lost = x.lost
    <3>1. c.buffered = x.req[r].buffered
      BY <2>5, <2>7
    <3>2. PICK y : y = With(x, r, c)
      OBVIOUS
    <3>3. Serves(x, y, r) /\ y.req[r] = c /\ y.lost = x.lost
      BY <2>5, <2>8, <3>1, <3>2, WithServes
    <3>. QED
      BY <2>9, <3>2, <3>3, ZenonT(30)
  <2>11. Serves(w, v, r) /\ v.lost = w.lost
    BY <2>4, <2>5, <2>10, ServesTrans
  <2>12. Steady(q, c) /\ c.tokens = q.tokens
    BY <1>1, <2>2, <2>7 DEF Steady, SameClient
  <2>13. Flat(Append(q.pieces, q.held)) = Flat(q.pieces) \o q.held
    BY <1>2, PiecesAppend, ZenonT(30)
  <2>. QED
    BY <1>1, <2>2, <2>7, <2>10, <2>11, <2>12, <2>13, ZenonT(30)
<1>. QED
  BY <1>3, <1>4, ZenonT(30)

\* A request that succeeds ends, or fails where its last text does not fit
\* or its runner's Commit does.
LEMMA CompleteSuccessIs ==
  ASSUME NEW w \in Worlds, NEW r \in Req, w.req[r].out = "none", mode \in Modes,
         NEW o \in {"length", "stop", "stop_sequence"}, NEW v, v = CompleteSuccess(w, r, o)
  PROVE  /\ Serves(w, v, r) /\ v.req[r].out # "none"
         /\ v.lost = w.lost \/ (w.lost = "no" /\ v.lost = "probe")
         /\ Keeps(w.req[r], v.req[r])
         /\ w.lost # "probe" => Ending(w.req[r], v.req[r], v.lost)
         /\ Stream(r, w.req[r]) /\ (w.req[r].matched => o = "stop_sequence") =>
              Stream(r, v.req[r])
<1>1. PICK q \in Requests : q = w.req[r] /\ q.out = "none"
  BY WorldFacts
<1>2. CASE Mishap(w, r, o) # "done"
  <2>1. PICK f \in {"error", "lost"} : f = Mishap(w, r, o)
    BY <1>2, MishapIs
  <2>2. v = FailStep(w, r, f)
    BY <1>2, <2>1 DEF CompleteSuccess
  <2>3. Ruined(w, v, r, f)
    BY <1>1, <2>2, FailUnlessStoppedIs
  <2>4. /\ Serves(w, v, r) /\ v.lost \in {w.lost, Probed(w.lost, f)}
        /\ v.req[r].out # "none"
        /\ Keeps(w.req[r], v.req[r])
        /\ f # "misuse" => Ending(w.req[r], v.req[r], v.lost)
        /\ Taken(r, w.req[r]) => Stream(r, v.req[r])
    BY <1>1, <2>3, RuinedEnds
  <2>5. v.lost = w.lost \/ (w.lost = "no" /\ v.lost = "probe")
    BY <2>4 DEF Probed
  <2>6. Ending(w.req[r], v.req[r], v.lost)
    BY <2>1, <2>4
  <2>. QED
    BY <1>1, <2>4, <2>5, <2>6, StreamTaken
<1>3. CASE Mishap(w, r, o) = "done"
  <2>. TailFits(w, r)
    BY <1>3, MishapIs
  <2>1. PICK x : x = IF w.req[r].held = <<>> THEN w
                     ELSE [PublishPiece(w, r, w.req[r].held) EXCEPT !.req[r].held = <<>>]
    BY ZenonT(30)
  <2>2. /\ Serves(w, x, r) /\ x.lost = w.lost
        /\ Steady(q, x.req[r]) /\ x.req[r].tokens = q.tokens
        /\ r \in Streamed => Flat(x.req[r].pieces) = Flat(q.pieces) \o q.held
        /\ r \notin Streamed => x.req[r].pieces = q.pieces
    BY <1>1, <1>3, <2>1, TailPublished, ZenonT(30)
  <2>3. x \in Worlds
    BY <2>2 DEF Serves
  <2>4. PICK a \in Requests : a = x.req[r]
    BY <2>3, WorldFacts
  <2>5. PICK c : c = [a EXCEPT !.lease = "returned"]
    BY ZenonT(30)
  <2>6. /\ c \in Requests /\ c.pieces = a.pieces /\ c.buffered = a.buffered
        /\ c.tokens = a.tokens /\ SameClient(a, c)
    <3>1. a \in Records
      BY <2>4, RequestFacts
    <3>2. /\ c \in Records /\ c.pieces = a.pieces /\ c.buffered = a.buffered
          /\ c.tokens = a.tokens
      BY <2>5, <3>1, ZenonT(60) DEF Records
    <3>3. SameClient(a, c)
      BY <2>5, <3>1 DEF Records, SameClient
    <3>. QED
      BY <2>4, <3>2, <3>3, RequestWith
  <2>7. PICK y : y = [x EXCEPT !.req[r].lease = "returned"]
    BY ZenonT(30)
  <2>8. Serves(x, y, r) /\ y.req[r] = c /\ y.lost = x.lost /\ y \in Worlds
    <3>1. y = With(x, r, c)
      BY <2>4, <2>5, <2>7, ZenonT(30) DEF With
    <3>2. c.buffered = x.req[r].buffered
      BY <2>4, <2>6
    <3>3. Serves(x, y, r) /\ y.req[r] = c /\ y.lost = x.lost
      BY <2>3, <2>6, <3>1, <3>2, WithServes
    <3>. QED
      BY <3>3 DEF Serves
  <2>9. v = PublishTerminal(y, r, o, FALSE)
    BY <1>3, <2>1, <2>7, ZenonT(30) DEF CompleteSuccess
  <2>10. o \in Outcome
    BY DEF Outcome
  <2>11. PICK p \in Requests :
           /\ PublishTerminal(y, r, o, FALSE) = Put(y, r, p, y.lost)
           /\ Closed(y.req[r], p)
           /\ p.out = o /\ p.lease = y.req[r].lease
           /\ p.pieces = y.req[r].pieces /\ p.buffered = y.req[r].buffered
    BY <2>8, <2>10, Preserved, ZenonT(30)
  <2>12. Serves(y, v, r) /\ v.req[r] = p /\ v.lost = y.lost
    <3>1. PICK l \in {"no", "probe", "stall"} : l = y.lost
      BY <2>8, WorldFacts
    <3>2. p.buffered = y.req[r].buffered
      BY <2>11
    <3>3. p.buffered <= y.req[r].buffered
      BY <2>11, <3>2, RequestFacts
    <3>4. v = Put(y, r, p, l)
      BY <2>9, <2>11, <3>1, ZenonT(30)
    <3>5. Serves(y, v, r) /\ v.req[r] = p /\ v.lost = l
      BY <2>8, <2>11, <3>1, <3>3, <3>4, PutServes
    <3>. QED
      BY <3>1, <3>5
  <2>13. Serves(w, v, r) /\ v.lost = w.lost
    BY <2>2, <2>8, <2>12, ServesTrans
  <2>14. /\ p.tokens = q.tokens /\ p.delivered = q.delivered /\ p.listening = q.listening
         /\ p.handle = q.handle /\ p.held = <<>> /\ ~p.matched /\ ~p.counted /\ p.session = 0
         /\ p.out = o /\ p.pieces = x.req[r].pieces
    BY <1>1, <2>2, <2>4, <2>6, <2>8, <2>11 DEF Closed, Steady, SameClient
  <2>15. Keeps(q, p)
    BY <2>14 DEF Keeps
  <2>16. w.lost # "probe" => Ending(q, p, v.lost)
    BY <2>13, <2>14 DEF Ending, SameClient, Over
  <2>17. ASSUME Stream(r, q), q.matched => o = "stop_sequence"
         PROVE  Stream(r, p)
    BY <1>1, <2>2, <2>11, <2>14, <2>17, WholeStream, ZenonT(30)
  <2>. QED
    BY <1>1, <2>12, <2>13, <2>14, <2>15, <2>16, <2>17
<1>. QED
  BY <1>2, <1>3

-----------------------------------------------------------------------------
(* Preparing a request *)

\* p is q as far as its client and its output go.
Quiet(q, p) ==
  /\ SameClient(q, p)
  /\ p.out = q.out /\ p.cancel = q.cancel /\ p.expired = q.expired
  /\ p.counted = q.counted /\ p.session = q.session /\ p.lease = q.lease
  /\ p.adv = q.adv /\ p.tokens = q.tokens /\ p.held = q.held /\ p.matched = q.matched
  /\ p.pieces = q.pieces /\ p.buffered = q.buffered

\* A change outside a request's output keeps its place and its stream.
LEMMA QuietFacts ==
  ASSUME NEW q, NEW p, Quiet(q, p)
  PROVE  /\ Keeps(q, p)
         /\ \A r : Stream(r, q) => Stream(r, p)
         /\ \A z : Quiet(p, z) => Quiet(q, z)
<1>1. Keeps(q, p)
  BY DEF Quiet, SameClient, Keeps
<1>2. \A r : Stream(r, q) => Stream(r, p)
  BY ZenonT(30) DEF Quiet, SameClient, Stream, Sent
<1>3. \A z : Quiet(p, z) => Quiet(q, z)
  BY DEF Quiet, SameClient
<1>. QED
  BY <1>1, <1>2, <1>3

\* Keeping a place and a session, twice.
LEMMA KeepsTrans ==
  ASSUME NEW q, NEW a, NEW p, Keeps(q, a), Keeps(a, p)
  PROVE  Keeps(q, p)
BY DEF Keeps

\* An end after a change the client does not see is an end.
LEMMA EndingAfter ==
  ASSUME NEW q, NEW a, NEW p, NEW k, SameClient(q, a), a.lease = q.lease, Ending(a, p, k)
  PROVE  Ending(q, p, k)
BY DEF Ending, SameClient

\* The capture of a request is in the state c.
Snapped(w, r, c) == [w EXCEPT !.req[r].capture = c, !.req[r].tried = TRUE]

\* Only the state of the capture changes.
LEMMA SnapshotIs ==
  ASSUME NEW w \in Worlds, NEW r \in Req, NEW c \in {"idle", "running"},
         NEW v, v = Snapped(w, r, c)
  PROVE  /\ Serves(w, v, r) /\ v.lost = w.lost
         /\ Quiet(w.req[r], v.req[r])
         /\ v.req[r].selected = w.req[r].selected /\ v.req[r].advancing = w.req[r].advancing
         /\ v.req[r].preview = w.req[r].preview
<1>1. PICK q \in Requests : q = w.req[r]
  BY WorldFacts
<1>2. PICK a : a = [q EXCEPT !.capture = c]
  BY ZenonT(30)
<1>3. PICK b : b = [a EXCEPT !.tried = TRUE]
  BY ZenonT(30)
<1>4. q \in Records
  BY <1>1, RequestFacts
<1>5. a \in Records /\ Quiet(q, a) /\ a.selected = q.selected /\ a.advancing = q.advancing
      /\ a.preview = q.preview
  <2>1. a \in Records
    BY <1>2, <1>4, ZenonT(60) DEF Records
  <2>2. Quiet(q, a) /\ a.selected = q.selected /\ a.advancing = q.advancing
        /\ a.preview = q.preview
    BY <1>2, <1>4 DEF Records, Quiet, SameClient
  <2>. QED
    BY <2>1, <2>2
<1>6. b \in Records /\ Quiet(a, b) /\ b.selected = a.selected /\ b.advancing = a.advancing
      /\ b.preview = a.preview
  <2>1. b \in Records
    BY <1>3, <1>5, ZenonT(60) DEF Records
  <2>2. Quiet(a, b) /\ b.selected = a.selected /\ b.advancing = a.advancing
        /\ b.preview = a.preview
    BY <1>3, <1>5 DEF Records, Quiet, SameClient
  <2>. QED
    BY <2>1, <2>2
<1>7. a \in Requests /\ b \in Requests
  BY <1>1, <1>5, <1>6, RequestWith DEF Quiet
<1>8. PICK x : x = With(w, r, a)
  OBVIOUS
<1>9. Serves(w, x, r) /\ x.req[r] = a /\ x.lost = w.lost /\ x \in Worlds
  <2>1. a.buffered = w.req[r].buffered
    BY <1>1, <1>5 DEF Quiet
  <2>2. Serves(w, x, r) /\ x.req[r] = a /\ x.lost = w.lost
    BY <1>7, <1>8, <2>1, WithServes
  <2>. QED
    BY <2>2 DEF Serves
<1>10. PICK y : y = With(x, r, b)
  OBVIOUS
<1>11. Serves(x, y, r) /\ y.req[r] = b /\ y.lost = x.lost
  <2>1. b.buffered = x.req[r].buffered
    BY <1>6, <1>9 DEF Quiet
  <2>. QED
    BY <1>7, <1>9, <1>10, <2>1, WithServes
<1>12. v = y
  <2>1. x = [w EXCEPT !.req[r].capture = c]
    BY <1>1, <1>2, <1>8, ZenonT(30) DEF With
  <2>2. y = [x EXCEPT !.req[r].tried = TRUE]
    BY <1>3, <1>9, <1>10, ZenonT(30) DEF With
  <2>3. v = [[w EXCEPT !.req[r].capture = c] EXCEPT !.req[r].tried = TRUE]
    BY DEF Snapped
  <2>. QED
    BY <2>1, <2>2, <2>3
<1>13. Quiet(q, b)
  BY <1>5, <1>6, QuietFacts
<1>. QED
  BY <1>1, <1>5, <1>6, <1>9, <1>11, <1>12, <1>13, ServesTrans

\* PreparePromptSnapshot may start a capture and changes nothing else.
LEMMA PreparePromptSnapshotIs ==
  ASSUME NEW w \in Worlds, NEW r \in Req, NEW s \in PreparePromptSnapshot(w, r)
  PROVE  /\ Serves(w, s.w, r) /\ s.w.lost = w.lost /\ s.ok \in BOOLEAN
         /\ Quiet(w.req[r], s.w.req[r])
         /\ s.w.req[r].selected = w.req[r].selected
         /\ s.w.req[r].advancing = w.req[r].advancing
         /\ s.w.req[r].preview = w.req[r].preview
<1>1. PICK v : v = s.w
  OBVIOUS
<1>2. CASE s = No(w)
  <2>1. v = w /\ s.ok = FALSE
    BY <1>1, <1>2 DEF No
  <2>2. Quiet(w.req[r], w.req[r])
    BY DEF Quiet, SameClient
  <2>. QED
    BY <1>1, <2>1, <2>2, ServesSelf, ZenonT(30)
<1>3. CASE s = Yes([w EXCEPT !.req[r].capture = "idle", !.req[r].tried = TRUE])
  <2>1. PICK c \in {"idle", "running"} : c = "idle"
    OBVIOUS
  <2>2. v = Snapped(w, r, c) /\ s.ok = TRUE
    BY <1>1, <1>3, <2>1 DEF Yes, Snapped
  <2>3. /\ Serves(w, v, r) /\ v.lost = w.lost
        /\ Quiet(w.req[r], v.req[r])
        /\ v.req[r].selected = w.req[r].selected /\ v.req[r].advancing = w.req[r].advancing
        /\ v.req[r].preview = w.req[r].preview
    BY <2>2, SnapshotIs
  <2>. QED
    BY <1>1, <2>2, <2>3, ZenonT(30)
<1>4. CASE s = No([w EXCEPT !.req[r].capture = "running", !.req[r].tried = TRUE])
  <2>1. PICK c \in {"idle", "running"} : c = "running"
    OBVIOUS
  <2>2. v = Snapped(w, r, c) /\ s.ok = FALSE
    BY <1>1, <1>4, <2>1 DEF No, Snapped
  <2>3. /\ Serves(w, v, r) /\ v.lost = w.lost
        /\ Quiet(w.req[r], v.req[r])
        /\ v.req[r].selected = w.req[r].selected /\ v.req[r].advancing = w.req[r].advancing
        /\ v.req[r].preview = w.req[r].preview
    BY <2>2, SnapshotIs
  <2>. QED
    BY <1>1, <2>2, <2>3, ZenonT(30)
<1>5. \/ s = No(w)
      \/ s = Yes([w EXCEPT !.req[r].capture = "idle", !.req[r].tried = TRUE])
      \/ s = No([w EXCEPT !.req[r].capture = "running", !.req[r].tried = TRUE])
  BY ZenonT(30) DEF PreparePromptSnapshot
<1>. QED
  BY <1>2, <1>3, <1>4, <1>5

\* A world with other marks of r.
LEMMA MarkedServes ==
  ASSUME NEW w \in Worlds, NEW r \in Req, NEW p \in Requests, Quiet(w.req[r], p),
         NEW v, v = With(w, r, p)
  PROVE  v \in Worlds /\ Serves(w, v, r) /\ v.lost = w.lost /\ v.req[r] = p
<1>1. p.buffered = w.req[r].buffered
  BY DEF Quiet
<1>2. Serves(w, v, r) /\ v.req[r] = p /\ v.lost = w.lost
  BY <1>1, WithServes
<1>. QED
  BY <1>2 DEF Serves

\* The advance is done.
Advanced(w, r) == [w EXCEPT !.req[r].advancing = FALSE]

\* Only that field changes.
LEMMA AdvancedIs ==
  ASSUME NEW w \in Worlds, NEW r \in Req,
         NEW v, v = Advanced(w, r)
  PROVE  /\ v \in Worlds /\ Serves(w, v, r) /\ v.lost = w.lost /\ Quiet(w.req[r], v.req[r])
         /\ v.req[r].advancing = FALSE
         /\ v.req[r].selected = w.req[r].selected
         /\ v.req[r].preview = w.req[r].preview
         /\ v.req[r].previewStops = w.req[r].previewStops
         /\ v.req[r].capture = w.req[r].capture
<1>1. PICK q \in Requests : q = w.req[r]
  BY WorldFacts
<1>2. PICK d \in BOOLEAN : d = FALSE
  BY ZenonT(30)
<1>3. PICK p : p = [q EXCEPT !.advancing = d]
  BY ZenonT(30)
<1>4. q \in Records
  BY <1>1, RequestFacts
<1>5. p \in Records
  BY <1>2, <1>3, <1>4, ZenonT(60) DEF Records
<1>6. /\ p.advancing = d /\ p.selected = q.selected /\ p.preview = q.preview
      /\ p.previewStops = q.previewStops /\ p.capture = q.capture
      /\ Quiet(q, p)
  BY <1>3, <1>4 DEF Records, Quiet, SameClient
<1>7. p \in Requests
  BY <1>1, <1>5, <1>6, RequestWith DEF Quiet
<1>8. PICK u : u = With(w, r, p)
  OBVIOUS
<1>9. u = v
  BY <1>1, <1>2, <1>3, <1>8, ZenonT(30) DEF With, Advanced
<1>10. u \in Worlds /\ Serves(w, u, r) /\ u.lost = w.lost /\ u.req[r] = p
  BY <1>1, <1>6, <1>7, <1>8, MarkedServes
<1>. QED
  BY <1>1, <1>2, <1>6, <1>9, <1>10

\* The runner has selected a token.
Selecting(w, r) == [w EXCEPT !.req[r].selected = TRUE]

\* Only that field changes.
LEMMA SelectedIs ==
  ASSUME NEW w \in Worlds, NEW r \in Req,
         NEW v, v = Selecting(w, r)
  PROVE  /\ v \in Worlds /\ Serves(w, v, r) /\ v.lost = w.lost /\ Quiet(w.req[r], v.req[r])
         /\ v.req[r].selected = TRUE
         /\ v.req[r].advancing = w.req[r].advancing
         /\ v.req[r].preview = w.req[r].preview
         /\ v.req[r].previewStops = w.req[r].previewStops
         /\ v.req[r].capture = w.req[r].capture
<1>1. PICK q \in Requests : q = w.req[r]
  BY WorldFacts
<1>2. PICK d \in BOOLEAN : d = TRUE
  BY ZenonT(30)
<1>3. PICK p : p = [q EXCEPT !.selected = d]
  BY ZenonT(30)
<1>4. q \in Records
  BY <1>1, RequestFacts
<1>5. p \in Records
  BY <1>2, <1>3, <1>4, ZenonT(60) DEF Records
<1>6. /\ p.selected = d /\ p.advancing = q.advancing /\ p.preview = q.preview
      /\ p.previewStops = q.previewStops /\ p.capture = q.capture
      /\ Quiet(q, p)
  BY <1>3, <1>4 DEF Records, Quiet, SameClient
<1>7. p \in Requests
  BY <1>1, <1>5, <1>6, RequestWith DEF Quiet
<1>8. PICK u : u = With(w, r, p)
  OBVIOUS
<1>9. u = v
  BY <1>1, <1>2, <1>3, <1>8, ZenonT(30) DEF With, Selecting
<1>10. u \in Worlds /\ Serves(w, u, r) /\ u.lost = w.lost /\ u.req[r] = p
  BY <1>1, <1>6, <1>7, <1>8, MarkedServes
<1>. QED
  BY <1>1, <1>2, <1>6, <1>9, <1>10, ZenonT(30)

\* The advance is pending.
Advancing(w, r) == [w EXCEPT !.req[r].advancing = TRUE]

\* Only that field changes.
LEMMA AdvancingIs ==
  ASSUME NEW w \in Worlds, NEW r \in Req,
         NEW v, v = Advancing(w, r)
  PROVE  /\ v \in Worlds /\ Serves(w, v, r) /\ v.lost = w.lost /\ Quiet(w.req[r], v.req[r])
         /\ v.req[r].advancing = TRUE
         /\ v.req[r].selected = w.req[r].selected
         /\ v.req[r].preview = w.req[r].preview
         /\ v.req[r].previewStops = w.req[r].previewStops
         /\ v.req[r].capture = w.req[r].capture
<1>1. PICK q \in Requests : q = w.req[r]
  BY WorldFacts
<1>2. PICK d \in BOOLEAN : d = TRUE
  BY ZenonT(30)
<1>3. PICK p : p = [q EXCEPT !.advancing = d]
  BY ZenonT(30)
<1>4. q \in Records
  BY <1>1, RequestFacts
<1>5. p \in Records
  BY <1>2, <1>3, <1>4, ZenonT(60) DEF Records
<1>6. /\ p.advancing = d /\ p.selected = q.selected /\ p.preview = q.preview
      /\ p.previewStops = q.previewStops /\ p.capture = q.capture
      /\ Quiet(q, p)
  BY <1>3, <1>4 DEF Records, Quiet, SameClient
<1>7. p \in Requests
  BY <1>1, <1>5, <1>6, RequestWith DEF Quiet
<1>8. PICK u : u = With(w, r, p)
  OBVIOUS
<1>9. u = v
  BY <1>1, <1>2, <1>3, <1>8, ZenonT(30) DEF With, Advancing
<1>10. u \in Worlds /\ Serves(w, u, r) /\ u.lost = w.lost /\ u.req[r] = p
  BY <1>1, <1>6, <1>7, <1>8, MarkedServes
<1>. QED
  BY <1>1, <1>2, <1>6, <1>9, <1>10, ZenonT(30)

\* The previewed token is no longer ahead.
Unpreviewed(w, r) == [w EXCEPT !.req[r].preview = FALSE]

\* Only that field changes.
LEMMA UnpreviewedIs ==
  ASSUME NEW w \in Worlds, NEW r \in Req,
         NEW v, v = Unpreviewed(w, r)
  PROVE  /\ v \in Worlds /\ Serves(w, v, r) /\ v.lost = w.lost /\ Quiet(w.req[r], v.req[r])
         /\ v.req[r].preview = FALSE
         /\ v.req[r].selected = w.req[r].selected
         /\ v.req[r].advancing = w.req[r].advancing
         /\ v.req[r].previewStops = w.req[r].previewStops
         /\ v.req[r].capture = w.req[r].capture
<1>1. PICK q \in Requests : q = w.req[r]
  BY WorldFacts
<1>2. PICK d \in BOOLEAN : d = FALSE
  BY ZenonT(30)
<1>3. PICK p : p = [q EXCEPT !.preview = d]
  BY ZenonT(30)
<1>4. q \in Records
  BY <1>1, RequestFacts
<1>5. p \in Records
  BY <1>2, <1>3, <1>4, ZenonT(60) DEF Records
<1>6. /\ p.preview = d /\ p.selected = q.selected /\ p.advancing = q.advancing
      /\ p.previewStops = q.previewStops /\ p.capture = q.capture
      /\ Quiet(q, p)
  BY <1>3, <1>4 DEF Records, Quiet, SameClient
<1>7. p \in Requests
  BY <1>1, <1>5, <1>6, RequestWith DEF Quiet
<1>8. PICK u : u = With(w, r, p)
  OBVIOUS
<1>9. u = v
  BY <1>1, <1>2, <1>3, <1>8, ZenonT(30) DEF With, Unpreviewed
<1>10. u \in Worlds /\ Serves(w, u, r) /\ u.lost = w.lost /\ u.req[r] = p
  BY <1>1, <1>6, <1>7, <1>8, MarkedServes
<1>. QED
  BY <1>1, <1>2, <1>6, <1>9, <1>10

\* A token was previewed.
Previewed(w, r) == [w EXCEPT !.req[r].preview = TRUE]

\* Only that field changes.
LEMMA PreviewedIs ==
  ASSUME NEW w \in Worlds, NEW r \in Req,
         NEW v, v = Previewed(w, r)
  PROVE  /\ v \in Worlds /\ Serves(w, v, r) /\ v.lost = w.lost /\ Quiet(w.req[r], v.req[r])
         /\ v.req[r].preview = TRUE
         /\ v.req[r].selected = w.req[r].selected
         /\ v.req[r].advancing = w.req[r].advancing
         /\ v.req[r].previewStops = w.req[r].previewStops
         /\ v.req[r].capture = w.req[r].capture
<1>1. PICK q \in Requests : q = w.req[r]
  BY WorldFacts
<1>2. PICK d \in BOOLEAN : d = TRUE
  BY ZenonT(30)
<1>3. PICK p : p = [q EXCEPT !.preview = d]
  BY ZenonT(30)
<1>4. q \in Records
  BY <1>1, RequestFacts
<1>5. p \in Records
  BY <1>2, <1>3, <1>4, ZenonT(60) DEF Records
<1>6. /\ p.preview = d /\ p.selected = q.selected /\ p.advancing = q.advancing
      /\ p.previewStops = q.previewStops /\ p.capture = q.capture
      /\ Quiet(q, p)
  BY <1>3, <1>4 DEF Records, Quiet, SameClient
<1>7. p \in Requests
  BY <1>1, <1>5, <1>6, RequestWith DEF Quiet
<1>8. PICK u : u = With(w, r, p)
  OBVIOUS
<1>9. u = v
  BY <1>1, <1>2, <1>3, <1>8, ZenonT(30) DEF With, Previewed
<1>10. u \in Worlds /\ Serves(w, u, r) /\ u.lost = w.lost /\ u.req[r] = p
  BY <1>1, <1>6, <1>7, <1>8, MarkedServes
<1>. QED
  BY <1>1, <1>2, <1>6, <1>9, <1>10, ZenonT(30)

\* The previewed token was a stop token.
PreviewStopped(w, r) == [w EXCEPT !.req[r].previewStops = TRUE]

\* Only that field changes.
LEMMA PreviewStoppedIs ==
  ASSUME NEW w \in Worlds, NEW r \in Req,
         NEW v, v = PreviewStopped(w, r)
  PROVE  /\ v \in Worlds /\ Serves(w, v, r) /\ v.lost = w.lost /\ Quiet(w.req[r], v.req[r])
         /\ v.req[r].previewStops = TRUE
         /\ v.req[r].selected = w.req[r].selected
         /\ v.req[r].advancing = w.req[r].advancing
         /\ v.req[r].preview = w.req[r].preview
         /\ v.req[r].capture = w.req[r].capture
<1>1. PICK q \in Requests : q = w.req[r]
  BY WorldFacts
<1>2. PICK d \in BOOLEAN : d = TRUE
  BY ZenonT(30)
<1>3. PICK p : p = [q EXCEPT !.previewStops = d]
  BY ZenonT(30)
<1>4. q \in Records
  BY <1>1, RequestFacts
<1>5. p \in Records
  BY <1>2, <1>3, <1>4, ZenonT(60) DEF Records
<1>6. /\ p.previewStops = d /\ p.selected = q.selected /\ p.advancing = q.advancing
      /\ p.preview = q.preview /\ p.capture = q.capture
      /\ Quiet(q, p)
  BY <1>3, <1>4 DEF Records, Quiet, SameClient
<1>7. p \in Requests
  BY <1>1, <1>5, <1>6, RequestWith DEF Quiet
<1>8. PICK u : u = With(w, r, p)
  OBVIOUS
<1>9. u = v
  BY <1>1, <1>2, <1>3, <1>8, ZenonT(30) DEF With, PreviewStopped
<1>10. u \in Worlds /\ Serves(w, u, r) /\ u.lost = w.lost /\ u.req[r] = p
  BY <1>1, <1>6, <1>7, <1>8, MarkedServes
<1>. QED
  BY <1>1, <1>2, <1>6, <1>9, <1>10, ZenonT(30)

\* The selected token waits to be advanced, the preview being consumed.
Awaiting(w, r) == [w EXCEPT !.req[r].advancing = TRUE, !.req[r].preview = FALSE]

\* Only those two fields change.
LEMMA WaitingIs ==
  ASSUME NEW w \in Worlds, NEW r \in Req,
         NEW v, v = Awaiting(w, r)
  PROVE  /\ v \in Worlds /\ Serves(w, v, r) /\ v.lost = w.lost /\ Quiet(w.req[r], v.req[r])
         /\ v.req[r].selected = w.req[r].selected
         /\ v.req[r].advancing = TRUE /\ v.req[r].preview = FALSE
<1>1. PICK x : x = Advancing(w, r)
  OBVIOUS
<1>2. /\ x \in Worlds /\ Serves(w, x, r) /\ x.lost = w.lost /\ Quiet(w.req[r], x.req[r])
      /\ x.req[r].advancing = TRUE /\ x.req[r].selected = w.req[r].selected
  BY <1>1, AdvancingIs, ZenonT(30)
<1>3. PICK y : y = Unpreviewed(x, r)
  OBVIOUS
<1>4. /\ y \in Worlds /\ Serves(x, y, r) /\ y.lost = x.lost /\ Quiet(x.req[r], y.req[r])
      /\ y.req[r].preview = FALSE /\ y.req[r].selected = x.req[r].selected
      /\ y.req[r].advancing = x.req[r].advancing
  BY <1>2, <1>3, UnpreviewedIs, ZenonT(30)
<1>5. v = y
  BY <1>1, <1>3 DEF Awaiting, Advancing, Unpreviewed
<1>6. Quiet(w.req[r], y.req[r])
  BY <1>2, <1>4, QuietFacts
<1>7. Serves(w, y, r)
  BY <1>2, <1>4, ServesTrans
<1>. QED
  BY <1>2, <1>4, <1>5, <1>6, <1>7

\* What every call for r does, whatever its state was.
Ran(w, r, s) ==
  /\ Serves(w, s.w, r) /\ s.ok \in BOOLEAN
  /\ s.w.lost = w.lost \/ (w.lost = "no" /\ s.w.lost = "probe")
  /\ Keeps(w.req[r], s.w.req[r])
  /\ s.ok => s.w.req[r].out = "none" /\ w.lost = "no" /\ s.w.lost = "no"
  /\ s.w.req[r].out \notin {"none", "misuse"} => Ending(w.req[r], s.w.req[r], s.w.lost)
  /\ s.w.req[r].out = "none" => s.w.req[r].lease = w.req[r].lease

\* Its selected token waits for a capture before it is advanced.
Waits(r, q) ==
  /\ ~q.matched /\ q.selected /\ q.advancing /\ ~q.preview
  /\ Len(q.tokens) = q.adv + 1 /\ q.adv < TokenLimit[r]

\* AdvanceReady after its snapshot: the final token may end the request.
After(t, r) ==
  IF ~t.ok THEN t
  ELSE IF ~mode.final /\ Len(Advanced(t.w, r).req[r].tokens) >= TokenLimit[r]
       THEN No(CompleteSuccess(Advanced(t.w, r), r, "length"))
       ELSE Yes(Advanced(t.w, r))

\* A request that was not stopped is live, and so is the device.
LEMMA StoppedFacts ==
  ASSUME NEW w \in Worlds, NEW r \in Req, ~Stopped(w, r)
  PROVE  w.lost = "no" /\ w.req[r].out = "none" /\ ~w.req[r].cancel /\ ~w.req[r].expired
BY DEF Stopped, IsTerminal

\* A step that ended its request is one it may take.
LEMMA EndedRan ==
  ASSUME NEW w \in Worlds, NEW r \in Req, NEW v, Serves(w, v, r),
         v.lost = w.lost \/ (w.lost = "no" /\ v.lost = "probe"),
         Ending(w.req[r], v.req[r], v.lost), NEW s, s = No(v)
  PROVE  Ran(w, r, s) /\ s.w = v /\ ~s.ok /\ v.req[r].out \notin {"none", "misuse"}
<1>1. s.w = v /\ s.ok = FALSE
  BY DEF No
<1>2. Keeps(w.req[r], v.req[r])
  BY EndingKeeps
<1>3. v.req[r].out \notin {"none", "misuse"}
  BY DEF Ending
<1>. QED
  BY <1>1, <1>2, <1>3, ZenonT(30) DEF Ran

\* So is one that leaves its output alone.
LEMMA QuietRan ==
  ASSUME NEW w \in Worlds, NEW r \in Req, NEW s, Serves(w, s.w, r), s.w.lost = w.lost,
         s.ok \in BOOLEAN, Quiet(w.req[r], s.w.req[r]), w.req[r].out = "none",
         s.ok => w.lost = "no"
  PROVE  Ran(w, r, s) /\ s.w.req[r].out = "none"
<1>1. s.w.req[r].out = "none" /\ s.w.req[r].lease = w.req[r].lease
  BY DEF Quiet
<1>2. Keeps(w.req[r], s.w.req[r])
  BY QuietFacts
<1>. QED
  BY <1>1, <1>2 DEF Ran

\* AdvanceReady makes a waiting request ready, keeps it waiting or ends it.
LEMMA AdvanceReadyIs ==
  ASSUME NEW w \in Worlds, NEW r \in Req, w.req[r].out = "none", mode \in Modes,
         NEW s \in AdvanceReady(w, r)
  PROVE  /\ Ran(w, r, s) /\ s.w.req[r].out # "misuse"
         /\ Stream(r, w.req[r]) /\ Waits(r, w.req[r]) =>
              /\ Stream(r, s.w.req[r])
              /\ s.w.req[r].out = "none" =>
                   IF s.ok THEN Chosen(r, s.w.req[r]) ELSE Waits(r, s.w.req[r])
<1>1. AdvanceReady(w, r) = IF Stopped(w, r) THEN {No(CompleteIfStopped(w, r))}
                           ELSE {After(t, r) : t \in PreparePromptSnapshot(w, r)}
  BY DEF AdvanceReady, After, Advanced
<1>2. CASE Stopped(w, r)
  <2>1. PICK v : v = CompleteIfStopped(w, r)
    OBVIOUS
  <2>2. s = No(v)
    BY <1>1, <1>2, <2>1
  <2>3. /\ Serves(w, v, r) /\ v.lost = w.lost /\ Ending(w.req[r], v.req[r], w.lost)
        /\ Stream(r, w.req[r]) => Stream(r, v.req[r])
    BY <1>2, <2>1, IfStopped
  <2>4. Ran(w, r, s) /\ s.w = v /\ ~s.ok /\ v.req[r].out \notin {"none", "misuse"}
    BY <2>2, <2>3, EndedRan
  <2>. QED
    BY <2>3, <2>4
<1>3. CASE ~Stopped(w, r)
  <2>1. PICK t \in PreparePromptSnapshot(w, r) : s = After(t, r)
    BY <1>1, <1>3
  <2>2. w.lost = "no"
    BY <1>3, StoppedFacts
  <2>3. /\ Serves(w, t.w, r) /\ t.w.lost = w.lost /\ t.ok \in BOOLEAN
        /\ Quiet(w.req[r], t.w.req[r])
        /\ t.w.req[r].selected = w.req[r].selected
        /\ t.w.req[r].advancing = w.req[r].advancing
        /\ t.w.req[r].preview = w.req[r].preview
    BY <2>1, PreparePromptSnapshotIs
  <2>4. CASE ~t.ok
    <3>1. s = t
      BY <2>1, <2>4 DEF After
    <3>2. Ran(w, r, s) /\ s.w.req[r].out = "none"
      BY <2>2, <2>3, <3>1, QuietRan
    <3>3. Waits(r, w.req[r]) => Waits(r, t.w.req[r])
      BY <2>3 DEF Waits, Quiet
    <3>4. Stream(r, w.req[r]) => Stream(r, t.w.req[r])
      BY <2>3, QuietFacts
    <3>. QED
      BY <2>4, <3>1, <3>2, <3>3, <3>4
  <2>5. CASE t.ok
    <3>1. PICK v : v = Advanced(t.w, r)
      OBVIOUS
    <3>2. t.w \in Worlds
      BY <2>3 DEF Serves
    <3>3. /\ v \in Worlds /\ Serves(t.w, v, r) /\ v.lost = t.w.lost
          /\ Quiet(t.w.req[r], v.req[r])
          /\ v.req[r].advancing = FALSE /\ v.req[r].selected = t.w.req[r].selected
          /\ v.req[r].preview = t.w.req[r].preview
      BY <3>1, <3>2, AdvancedIs, ZenonT(30)
    <3>4. Serves(w, v, r)
      BY <2>3, <3>3, ServesTrans
    <3>5. Quiet(w.req[r], v.req[r])
      BY <2>3, <3>3, QuietFacts
    <3>6. v.req[r].out = "none"
      BY <3>5 DEF Quiet
    <3>7. Stream(r, w.req[r]) => Stream(r, v.req[r])
      BY <3>5, QuietFacts
    <3>8. Waits(r, w.req[r]) => Chosen(r, v.req[r])
      BY <2>3, <3>3, <3>5 DEF Waits, Chosen, Quiet
    <3>9. CASE s = Yes(v)
      <4>1. s.w = v /\ s.ok = TRUE
        BY <3>9 DEF Yes
      <4>2. Ran(w, r, s) /\ s.w.req[r].out = "none"
        BY <2>2, <2>3, <3>3, <3>4, <3>5, <4>1, QuietRan, ZenonT(30)
      <4>. QED
        BY <3>7, <3>8, <4>1, <4>2
    <3>10. CASE s = No(CompleteSuccess(v, r, "length"))
      <4>1. PICK u : u = CompleteSuccess(v, r, "length")
        OBVIOUS
      <4>2. /\ Serves(v, u, r) /\ (u.lost = v.lost \/ (v.lost = "no" /\ u.lost = "probe"))
            /\ v.lost # "probe" => Ending(v.req[r], u.req[r], u.lost)
            /\ Stream(r, v.req[r]) /\ (v.req[r].matched => "length" = "stop_sequence") =>
                 Stream(r, u.req[r])
        BY <3>3, <3>6, <4>1, CompleteSuccessIs
      <4>3. Ending(v.req[r], u.req[r], u.lost)
        BY <2>2, <2>3, <3>3, <4>2
      <4>4. Ending(w.req[r], u.req[r], u.lost)
        <5>1. SameClient(w.req[r], v.req[r]) /\ v.req[r].lease = w.req[r].lease
          BY <3>5 DEF Quiet
        <5>. QED
          BY <4>3, <5>1, EndingAfter
      <4>5. Serves(w, u, r)
        BY <3>4, <4>2, ServesTrans
      <4>6. Ran(w, r, s) /\ s.w = u /\ ~s.ok /\ u.req[r].out \notin {"none", "misuse"}
        <5>1. s = No(u) /\ (u.lost = w.lost \/ (w.lost = "no" /\ u.lost = "probe"))
          BY <2>3, <3>3, <3>10, <4>1, <4>2
        <5>. QED
          BY <4>4, <4>5, <5>1, EndedRan
      <4>7. Waits(r, w.req[r]) => ~v.req[r].matched
        BY <3>8 DEF Chosen
      <4>. QED
        BY <3>7, <4>2, <4>6, <4>7
    <3>. QED
      BY <2>1, <2>5, <3>1, <3>9, <3>10 DEF After
  <2>. QED
    BY <2>3, <2>4, <2>5
<1>. QED
  BY <1>2, <1>3

\* A failure leaves the device as it was, or found dead by a probe.
LEMMA ProbedFacts ==
  ASSUME NEW l \in {"no", "probe", "stall"}, NEW f
  PROVE  /\ Probed(l, f) \in {"no", "probe", "stall"}
         /\ Probed(l, f) = l \/ (l = "no" /\ Probed(l, f) = "probe")
BY DEF Probed

\* A failure other than misuse is an end.
LEMMA RuinedRan ==
  ASSUME NEW w \in Worlds, NEW r \in Req, NEW v, NEW f, Ruined(w, v, r, f),
         w.req[r].out = "none"
  PROVE  v.req[r].out # "misuse" => Ending(w.req[r], v.req[r], v.lost)
<1>1. PICK l \in {"no", "probe", "stall"} : l = w.lost
  BY WorldFacts
<1>2. ASSUME NEW o \in {"lost", "misuse", "failed"},
             Broken(w, v, r, Probed(w.lost, f), o)
      PROVE  v.req[r].out # "misuse" => Ending(w.req[r], v.req[r], v.lost)
  <2>1. PICK k \in {"no", "probe", "stall"} : k = Probed(w.lost, f)
    BY <1>1, ProbedFacts
  <2>2. Broken(w, v, r, k, o)
    BY <1>2, <2>1
  <2>3. /\ v.lost = k /\ v.req[r].out = o
        /\ o # "misuse" => Ending(w.req[r], v.req[r], k)
    BY <2>1, <2>2, BrokenEnds
  <2>. QED
    BY <2>3
<1>3. ASSUME NEW o \in {"lost", "deadline", "cancelled"}, Broken(w, v, r, w.lost, o)
      PROVE  v.req[r].out # "misuse" => Ending(w.req[r], v.req[r], v.lost)
  <2>1. Broken(w, v, r, l, o)
    BY <1>1, <1>3
  <2>2. /\ v.lost = l /\ v.req[r].out = o
        /\ o # "misuse" => Ending(w.req[r], v.req[r], l)
    BY <1>1, <2>1, BrokenEnds
  <2>. QED
    BY <2>2
<1>. QED
  BY <1>2, <1>3 DEF Ruined

\* A step that fails ends its request, the stream being kept.
LEMMA FailStepIs ==
  ASSUME NEW w \in Worlds, NEW r \in Req, w.req[r].out = "none", NEW f,
         NEW s, s = No(FailStep(w, r, f))
  PROVE  /\ Ran(w, r, s) /\ ~s.ok /\ s.w.req[r].out # "none"
         /\ f # "misuse" => s.w.req[r].out # "misuse"
         /\ Stream(r, w.req[r]) => Stream(r, s.w.req[r])
         /\ s.w.lost \in {w.lost, Probed(w.lost, f)}
<1>1. PICK v : v = FailStep(w, r, f)
  OBVIOUS
<1>2. s.w = v /\ s.ok = FALSE
  BY <1>1 DEF No
<1>3. Ruined(w, v, r, f)
  BY <1>1, FailUnlessStoppedIs
<1>4. /\ Serves(w, v, r) /\ v.lost \in {w.lost, Probed(w.lost, f)}
      /\ v.req[r].out # "none"
      /\ Keeps(w.req[r], v.req[r])
      /\ f # "misuse" => Ending(w.req[r], v.req[r], v.lost)
      /\ Taken(r, w.req[r]) => Stream(r, v.req[r])
  BY <1>3, RuinedEnds
<1>5. v.req[r].out # "misuse" => Ending(w.req[r], v.req[r], v.lost)
  BY <1>3, RuinedRan
<1>6. v.lost = w.lost \/ (w.lost = "no" /\ v.lost = "probe")
  BY <1>4, WorldFacts, ProbedFacts
<1>7. PICK q \in Requests : q = w.req[r]
  BY WorldFacts
<1>8. Stream(r, w.req[r]) => Taken(r, w.req[r])
  BY <1>7, StreamTaken
<1>9. f # "misuse" => v.req[r].out # "misuse"
  BY <1>4 DEF Ending
<1>. QED
  BY <1>2, <1>4, <1>5, <1>6, <1>8, <1>9, ZenonT(30) DEF Ran

\* A further call for r.
LEMMA RanAfter ==
  ASSUME NEW w \in Worlds, NEW r \in Req, NEW v, Serves(w, v, r), v.lost = w.lost,
         Keeps(w.req[r], v.req[r]), SameClient(w.req[r], v.req[r]),
         v.req[r].lease = w.req[r].lease, NEW s, Ran(v, r, s)
  PROVE  Ran(w, r, s)
<1>1. Serves(w, s.w, r)
  BY ServesTrans DEF Ran
<1>2. Keeps(w.req[r], s.w.req[r])
  BY KeepsTrans DEF Ran
<1>3. s.w.req[r].out \notin {"none", "misuse"} => Ending(w.req[r], s.w.req[r], s.w.lost)
  BY EndingAfter DEF Ran
<1>. QED
  BY <1>1, <1>2, <1>3 DEF Ran

\* A step may be preceded by a change outside the request's output.
LEMMA QuietAfter ==
  ASSUME NEW w \in Worlds, NEW r \in Req, NEW v, Serves(w, v, r), v.lost = w.lost,
         Quiet(w.req[r], v.req[r]), NEW s, Ran(v, r, s)
  PROVE  Ran(w, r, s)
<1>1. Keeps(w.req[r], v.req[r])
  BY QuietFacts
<1>2. SameClient(w.req[r], v.req[r]) /\ v.req[r].lease = w.req[r].lease
  BY DEF Quiet
<1>. QED
  BY <1>1, <1>2, RanAfter

\* A step may complete its request: a match ends as a stop sequence.
LEMMA SuccessRan ==
  ASSUME NEW w \in Worlds, NEW r \in Req, w.req[r].out = "none", w.lost # "probe",
         mode \in Modes,
         NEW o \in {"length", "stop", "stop_sequence"},
         NEW s, s = No(CompleteSuccess(w, r, o))
  PROVE  /\ Ran(w, r, s) /\ ~s.ok /\ s.w.req[r].out \notin {"none", "misuse"}
         /\ Stream(r, w.req[r]) /\ (w.req[r].matched => o = "stop_sequence") =>
              Stream(r, s.w.req[r])
<1>1. PICK v : v = CompleteSuccess(w, r, o)
  OBVIOUS
<1>2. /\ Serves(w, v, r) /\ (v.lost = w.lost \/ (w.lost = "no" /\ v.lost = "probe"))
      /\ w.lost # "probe" => Ending(w.req[r], v.req[r], v.lost)
      /\ Stream(r, w.req[r]) /\ (w.req[r].matched => o = "stop_sequence") =>
           Stream(r, v.req[r])
  BY <1>1, CompleteSuccessIs
<1>3. s = No(v) /\ Ending(w.req[r], v.req[r], v.lost)
  BY <1>1, <1>2
<1>4. Ran(w, r, s) /\ s.w = v /\ ~s.ok /\ v.req[r].out \notin {"none", "misuse"}
  BY <1>2, <1>3, EndedRan
<1>. QED
  BY <1>2, <1>4

\* A step may find its request stopped.
LEMMA StoppedRan ==
  ASSUME NEW w \in Worlds, NEW r \in Req, w.req[r].out = "none", Stopped(w, r),
         NEW s, s = No(CompleteIfStopped(w, r))
  PROVE  /\ Ran(w, r, s) /\ ~s.ok /\ s.w.req[r].out \notin {"none", "misuse"}
         /\ s.w.lost = w.lost
         /\ Stream(r, w.req[r]) => Stream(r, s.w.req[r])
<1>1. PICK v : v = CompleteIfStopped(w, r)
  OBVIOUS
<1>2. /\ Serves(w, v, r) /\ v.lost = w.lost /\ Ending(w.req[r], v.req[r], w.lost)
      /\ Stream(r, w.req[r]) => Stream(r, v.req[r])
  BY <1>1, IfStopped
<1>3. s = No(v) /\ Ending(w.req[r], v.req[r], v.lost)
  BY <1>1, <1>2
<1>4. Ran(w, r, s) /\ s.w = v /\ ~s.ok /\ v.req[r].out \notin {"none", "misuse"}
  BY <1>2, <1>3, EndedRan
<1>. QED
  BY <1>2, <1>4

\* The stop filter's outcomes depend on the withheld text alone.
LEMMA FilterSame ==
  ASSUME NEW q, NEW p, p.held = q.held, NEW r
  PROVE  FilterOutcomes(p, r) = FilterOutcomes(q, r)
BY ZenonT(30) DEF FilterOutcomes

\* The stop token's place and the token limit.
LEMMA EosFacts ==
  ASSUME eos \in EosChoices, NEW r \in Req
  PROVE  eos[r] \in Nat /\ TokenLimit[r] \in Nat /\ TokenLimit[r] >= 1
BY SchedulerAssumption

\* Its selection was published.
Shown(u, r) ==
  CASE IsTerminal(u, r) -> {No(u)}
    [] ~IsTerminal(u, r) /\ u.req[r].matched -> {No(CompleteSuccess(u, r, "stop_sequence"))}
    [] OTHER -> AdvanceReady(Awaiting(u, r), r)

\* SelectNext refuses, stops at the stop token, takes up the preview or publishes.
LEMMA SelectNextSplit ==
  ASSUME NEW w, NEW r, NEW s \in SelectNext(w, r), NEW v, v = Selecting(w, r)
  PROVE  \/ w.req[r].selected /\ s = No(FailStep(w, r, "misuse"))
         \/ /\ ~w.req[r].selected
            /\ \/ s = No(CompleteSuccess(w, r, "stop"))
               \/ w.req[r].preview /\ s \in AdvanceReady(Awaiting(v, r), r)
               \/ /\ ~w.req[r].preview
                  /\ \E f \in FilterOutcomes(w.req[r], r) :
                       s \in Shown(PublishSelection(v, r, w.req[r].adv + 1, f), r)
<1>1. SelectNext(w, r) =
        CASE w.req[r].selected -> {No(FailStep(w, r, "misuse"))}
          [] ~w.req[r].selected /\ w.req[r].adv + 1 = eos[r] ->
               {No(CompleteSuccess(w, r, "stop"))}
          [] ~w.req[r].selected /\ w.req[r].adv + 1 # eos[r] /\ w.req[r].preview ->
               AdvanceReady(Awaiting(v, r), r)
          [] OTHER -> UNION {Shown(PublishSelection(v, r, w.req[r].adv + 1, f), r) :
                               f \in FilterOutcomes(w.req[r], r)}
  BY ZenonT(30) DEF SelectNext, Selecting, Awaiting, Shown
<1>2. CASE w.req[r].selected
  BY <1>1, <1>2
<1>3. CASE ~w.req[r].selected /\ w.req[r].adv + 1 = eos[r]
  BY <1>1, <1>3
<1>4. CASE ~w.req[r].selected /\ w.req[r].adv + 1 # eos[r] /\ w.req[r].preview
  BY <1>1, <1>4
<1>5. CASE ~w.req[r].selected /\ w.req[r].adv + 1 # eos[r] /\ ~w.req[r].preview
  <2>1. s \in UNION {Shown(PublishSelection(v, r, w.req[r].adv + 1, f), r) :
                               f \in FilterOutcomes(w.req[r], r)}
    BY <1>1, <1>5
  <2>. QED
    BY <1>5, <2>1
<1>. QED
  BY <1>2, <1>3, <1>4, <1>5

\* Of what was selected, u holds the token.
LEMMA AwaitedIs ==
  ASSUME NEW u \in Worlds, NEW r \in Req, u.req[r].out = "none", mode \in Modes,
         NEW s \in AdvanceReady(Awaiting(u, r), r)
  PROVE  /\ Ran(u, r, s) /\ s.w.req[r].out # "misuse"
         /\ Stream(r, u.req[r]) /\ ~u.req[r].matched /\ u.req[r].selected
            /\ Len(u.req[r].tokens) = u.req[r].adv + 1 /\ u.req[r].adv < TokenLimit[r] =>
              /\ Stream(r, s.w.req[r])
              /\ s.w.req[r].out = "none" =>
                   IF s.ok THEN Chosen(r, s.w.req[r]) ELSE Waits(r, s.w.req[r])
<1>1. PICK a : a = Awaiting(u, r)
  OBVIOUS
<1>2. /\ a \in Worlds /\ Serves(u, a, r) /\ a.lost = u.lost /\ Quiet(u.req[r], a.req[r])
      /\ a.req[r].selected = u.req[r].selected
      /\ a.req[r].advancing = TRUE /\ a.req[r].preview = FALSE
  BY <1>1, WaitingIs, ZenonT(30)
<1>3. a.req[r].out = "none"
  BY <1>2 DEF Quiet
<1>4. /\ Ran(a, r, s) /\ s.w.req[r].out # "misuse"
      /\ Stream(r, a.req[r]) /\ Waits(r, a.req[r]) =>
              /\ Stream(r, s.w.req[r])
              /\ s.w.req[r].out = "none" =>
                   IF s.ok THEN Chosen(r, s.w.req[r]) ELSE Waits(r, s.w.req[r])
  BY <1>1, <1>2, <1>3, AdvanceReadyIs
<1>5. Ran(u, r, s)
  BY <1>2, <1>4, QuietAfter
<1>6. Stream(r, u.req[r]) => Stream(r, a.req[r])
  BY <1>2, QuietFacts
<1>7. ~u.req[r].matched /\ u.req[r].selected
            /\ Len(u.req[r].tokens) = u.req[r].adv + 1 /\ u.req[r].adv < TokenLimit[r] =>
      Waits(r, a.req[r])
  BY <1>2 DEF Waits, Quiet
<1>. QED
  BY <1>4, <1>5, <1>6, <1>7

\* The token that SelectNext publishes.
LEMMA ShownIs ==
  ASSUME NEW w \in Worlds, NEW r \in Req, w.req[r].out = "none", w.lost = "no",
         mode \in Modes, NEW token \in Nat,
         NEW f \in FilterOutcomes(w.req[r], r),
         NEW s \in Shown(PublishSelection(w, r, token, f), r)
  PROVE  /\ Ran(w, r, s) /\ s.w.req[r].out # "misuse"
         /\ Stream(r, w.req[r]) /\ ~w.req[r].matched /\ w.req[r].selected
            /\ NextToken(r, w.req[r], token)
            /\ Len(w.req[r].tokens) = w.req[r].adv /\ w.req[r].adv < TokenLimit[r] =>
              /\ Stream(r, s.w.req[r])
              /\ s.w.req[r].out = "none" =>
                   IF s.ok THEN Chosen(r, s.w.req[r]) ELSE Waits(r, s.w.req[r])
<1>1. PICK u : u = PublishSelection(w, r, token, f)
  OBVIOUS
<1>2. /\ Serves(w, u, r) /\ u.lost = w.lost
      /\ \/ Ending(w.req[r], u.req[r], w.lost)
         \/ Published(w.req[r], u.req[r], token, f)
      /\ Stream(r, w.req[r]) /\ ~w.req[r].matched /\ NextToken(r, w.req[r], token) =>
           Stream(r, u.req[r])
  BY <1>1, PublishSelectionIs
<1>3. u \in Worlds
  BY <1>2 DEF Serves
<1>4. CASE u.req[r].out # "none"
  <2>1. Ending(w.req[r], u.req[r], u.lost)
    BY <1>2, <1>4 DEF Published, Steady
  <2>2. s = No(u)
    BY <1>1, <1>4 DEF Shown, IsTerminal
  <2>3. Ran(w, r, s) /\ s.w = u /\ ~s.ok /\ u.req[r].out \notin {"none", "misuse"}
    BY <1>2, <2>1, <2>2, EndedRan
  <2>. QED
    BY <1>2, <2>3
<1>5. CASE u.req[r].out = "none"
  <2>1. Published(w.req[r], u.req[r], token, f)
    BY <1>2, <1>5 DEF Ending
  <2>2. /\ SameClient(w.req[r], u.req[r]) /\ u.req[r].lease = w.req[r].lease
        /\ u.req[r].selected = w.req[r].selected /\ u.req[r].adv = w.req[r].adv
        /\ u.req[r].tokens = Append(w.req[r].tokens, token)
    BY <2>1 DEF Published, Steady
  <2>3. Keeps(w.req[r], u.req[r])
    BY <2>1, SteadyKeeps DEF Published
  <2>4. Len(u.req[r].tokens) = Len(w.req[r].tokens) + 1
    <3>1. PICK q \in Requests : q = w.req[r]
      BY WorldFacts
    <3>2. q.tokens \in Seq(Nat)
      BY <3>1, RequestFacts
    <3>. QED
      BY <2>2, <3>1, <3>2
  <2>5. CASE u.req[r].matched
    <3>1. s = No(CompleteSuccess(u, r, "stop_sequence"))
      BY <1>1, <1>5, <2>5 DEF Shown, IsTerminal
    <3>2. /\ Ran(u, r, s) /\ s.w.req[r].out \notin {"none", "misuse"}
          /\ Stream(r, u.req[r]) => Stream(r, s.w.req[r])
      <4>1. "stop_sequence" \in {"length", "stop", "stop_sequence"} /\ u.lost # "probe"
        BY <1>2
      <4>. QED
        BY <1>3, <1>5, <3>1, <4>1, SuccessRan
    <3>3. Ran(w, r, s)
      BY <1>2, <2>2, <2>3, <3>2, RanAfter
    <3>. QED
      BY <1>2, <3>2, <3>3
  <2>6. CASE ~u.req[r].matched
    <3>1. s \in AdvanceReady(Awaiting(u, r), r)
      BY <1>1, <1>5, <2>6 DEF Shown, IsTerminal
    <3>2. /\ Ran(u, r, s) /\ s.w.req[r].out # "misuse"
          /\ Stream(r, u.req[r]) /\ ~u.req[r].matched /\ u.req[r].selected
             /\ Len(u.req[r].tokens) = u.req[r].adv + 1 /\ u.req[r].adv < TokenLimit[r] =>
               /\ Stream(r, s.w.req[r])
               /\ s.w.req[r].out = "none" =>
                    IF s.ok THEN Chosen(r, s.w.req[r]) ELSE Waits(r, s.w.req[r])
      BY <1>3, <1>5, <3>1, AwaitedIs
    <3>3. Ran(w, r, s)
      BY <1>2, <2>2, <2>3, <3>2, RanAfter
    <3>4. Len(w.req[r].tokens) = w.req[r].adv =>
            Len(u.req[r].tokens) = u.req[r].adv + 1
      BY <2>2, <2>4
    <3>. QED
      BY <1>2, <2>2, <2>6, <3>2, <3>3, <3>4
  <2>. QED
    BY <2>5, <2>6
<1>. QED
  BY <1>4, <1>5

\* SelectNext selects a calm request's next token, unless it ends it.
LEMMA SelectNextIs ==
  ASSUME NEW w \in Worlds, NEW r \in Req, w.req[r].out = "none", w.lost = "no",
         mode \in Modes, eos \in EosChoices, NEW s \in SelectNext(w, r)
  PROVE  /\ Ran(w, r, s)
         /\ Stream(r, w.req[r]) /\ Calm(r, w.req[r]) /\ ~w.req[r].advancing =>
              /\ Stream(r, s.w.req[r]) /\ s.w.req[r].out # "misuse"
              /\ s.w.req[r].out = "none" =>
                   IF s.ok THEN Chosen(r, s.w.req[r]) ELSE Waits(r, s.w.req[r])
<1>1. PICK v : v = Selecting(w, r)
  OBVIOUS
<1>2. /\ v \in Worlds /\ Serves(w, v, r) /\ v.lost = w.lost /\ Quiet(w.req[r], v.req[r])
      /\ v.req[r].selected = TRUE /\ v.req[r].advancing = w.req[r].advancing
      /\ v.req[r].preview = w.req[r].preview
  BY <1>1, SelectedIs, ZenonT(30)
<1>3. /\ v.req[r].out = "none" /\ v.req[r].held = w.req[r].held
      /\ v.req[r].tokens = w.req[r].tokens /\ v.req[r].adv = w.req[r].adv
      /\ v.req[r].matched = w.req[r].matched
  BY <1>2 DEF Quiet
<1>4. Stream(r, w.req[r]) => Stream(r, v.req[r])
  BY <1>2, QuietFacts
<1>5. CASE w.req[r].selected /\ s = No(FailStep(w, r, "misuse"))
  <2>1. Ran(w, r, s)
    BY <1>5, FailStepIs
  <2>2. Calm(r, w.req[r]) => w.req[r].advancing
    BY <1>5 DEF Calm
  <2>. QED
    BY <2>1, <2>2
<1>6. CASE s = No(CompleteSuccess(w, r, "stop"))
  <2>1. /\ Ran(w, r, s) /\ ~s.ok /\ s.w.req[r].out \notin {"none", "misuse"}
        /\ Stream(r, w.req[r]) /\ (w.req[r].matched => "stop" = "stop_sequence") =>
             Stream(r, s.w.req[r])
    <3>1. w.lost # "probe" /\ "stop" \in {"length", "stop", "stop_sequence"}
      OBVIOUS
    <3>. QED
      BY <1>6, <3>1, SuccessRan
  <2>2. Calm(r, w.req[r]) => ~w.req[r].matched
    BY DEF Calm
  <2>. QED
    BY <2>1, <2>2
<1>7. CASE ~w.req[r].selected /\ w.req[r].preview /\ s \in AdvanceReady(Awaiting(v, r), r)
  <2>1. /\ Ran(v, r, s) /\ s.w.req[r].out # "misuse"
        /\ Stream(r, v.req[r]) /\ ~v.req[r].matched /\ v.req[r].selected
            /\ Len(v.req[r].tokens) = v.req[r].adv + 1 /\ v.req[r].adv < TokenLimit[r] =>
              /\ Stream(r, s.w.req[r])
              /\ s.w.req[r].out = "none" =>
                   IF s.ok THEN Chosen(r, s.w.req[r]) ELSE Waits(r, s.w.req[r])
    BY <1>2, <1>3, <1>7, AwaitedIs
  <2>2. Ran(w, r, s)
    BY <1>2, <2>1, QuietAfter
  <2>3. Calm(r, w.req[r]) =>
          /\ ~v.req[r].matched /\ Len(v.req[r].tokens) = v.req[r].adv + 1
          /\ v.req[r].adv < TokenLimit[r]
    BY <1>3, <1>7 DEF Calm, Ahead
  <2>. QED
    BY <1>2, <1>4, <2>1, <2>2, <2>3
<1>8. ASSUME ~w.req[r].selected, ~w.req[r].preview, NEW f \in FilterOutcomes(w.req[r], r),
             s \in Shown(PublishSelection(v, r, w.req[r].adv + 1, f), r)
      PROVE  /\ Ran(w, r, s)
             /\ Stream(r, w.req[r]) /\ Calm(r, w.req[r]) /\ ~w.req[r].advancing =>
                  /\ Stream(r, s.w.req[r]) /\ s.w.req[r].out # "misuse"
                  /\ s.w.req[r].out = "none" =>
                       IF s.ok THEN Chosen(r, s.w.req[r]) ELSE Waits(r, s.w.req[r])
  <2>1. PICK q \in Requests : q = w.req[r]
    BY WorldFacts
  <2>2. PICK token \in Nat : token = q.adv + 1
    BY <2>1, RequestFacts
  <2>3. f \in FilterOutcomes(v.req[r], r)
    BY <1>3, <1>8, FilterSame
  <2>4. s \in Shown(PublishSelection(v, r, token, f), r)
    BY <1>8, <2>1, <2>2
  <2>5. v.lost = "no"
    BY <1>2
  <2>6. /\ Ran(v, r, s) /\ s.w.req[r].out # "misuse"
        /\ Stream(r, v.req[r]) /\ ~v.req[r].matched /\ v.req[r].selected
            /\ NextToken(r, v.req[r], token)
            /\ Len(v.req[r].tokens) = v.req[r].adv /\ v.req[r].adv < TokenLimit[r] =>
              /\ Stream(r, s.w.req[r])
              /\ s.w.req[r].out = "none" =>
                   IF s.ok THEN Chosen(r, s.w.req[r]) ELSE Waits(r, s.w.req[r])
    BY <1>2, <1>3, <2>2, <2>3, <2>4, <2>5, ShownIs
  <2>7. Ran(w, r, s)
    BY <1>2, <2>6, QuietAfter
  <2>8. Calm(r, w.req[r]) =>
          /\ ~v.req[r].matched /\ Len(v.req[r].tokens) = v.req[r].adv
          /\ v.req[r].adv < TokenLimit[r] /\ NextToken(r, v.req[r], token)
    <3>1. Calm(r, w.req[r]) => ~w.req[r].matched /\ Len(w.req[r].tokens) = w.req[r].adv + 0
                               /\ w.req[r].adv < TokenLimit[r]
      BY <1>8 DEF Calm, Ahead
    <3>2. q.adv \in Nat
      BY <2>1, RequestFacts
    <3>. QED
      BY <1>3, <2>1, <2>2, <3>1, <3>2 DEF NextToken
  <2>. QED
    BY <1>2, <1>4, <2>6, <2>7, <2>8
<1>. QED
  BY <1>1, <1>5, <1>6, <1>7, <1>8, SelectNextSplit

\* PrepareDecode leaves a calm request ready for its step, calm, or ended.
LEMMA PrepareDecodeIs ==
  ASSUME NEW w \in Worlds, NEW r \in Req, w.req[r].out = "none",
         mode \in Modes, eos \in EosChoices, NEW s \in PrepareDecode(w, r)
  PROVE  /\ Ran(w, r, s)
         /\ Stream(r, w.req[r]) /\ Calm(r, w.req[r]) /\ ~mode.batched =>
              /\ Stream(r, s.w.req[r]) /\ s.w.req[r].out # "misuse"
              /\ s.w.req[r].out = "none" =>
                   IF s.ok THEN Chosen(r, s.w.req[r]) ELSE Calm(r, s.w.req[r])
<1>1. CASE Stopped(w, r)
  <2>1. s = No(CompleteIfStopped(w, r))
    BY <1>1 DEF PrepareDecode
  <2>2. /\ Ran(w, r, s) /\ s.w.req[r].out \notin {"none", "misuse"}
        /\ Stream(r, w.req[r]) => Stream(r, s.w.req[r])
    BY <1>1, <2>1, StoppedRan
  <2>. QED
    BY <2>2
<1>2. ASSUME ~Stopped(w, r), w.req[r].advancing
      PROVE  /\ Ran(w, r, s)
             /\ Stream(r, w.req[r]) /\ Calm(r, w.req[r]) /\ ~mode.batched =>
                /\ Stream(r, s.w.req[r]) /\ s.w.req[r].out # "misuse"
                /\ s.w.req[r].out = "none" =>
                     IF s.ok THEN Chosen(r, s.w.req[r]) ELSE Waits(r, s.w.req[r])
  <2>1. s \in AdvanceReady(w, r)
    BY <1>2 DEF PrepareDecode
  <2>2. Calm(r, w.req[r]) => Waits(r, w.req[r])
    BY <1>2 DEF Calm, Waits, Ahead
  <2>. QED
    BY <2>1, <2>2, AdvanceReadyIs
<1>3. ASSUME ~Stopped(w, r), ~w.req[r].advancing
      PROVE  /\ Ran(w, r, s)
             /\ Stream(r, w.req[r]) /\ Calm(r, w.req[r]) /\ ~mode.batched =>
                /\ Stream(r, s.w.req[r]) /\ s.w.req[r].out # "misuse"
                /\ s.w.req[r].out = "none" =>
                     IF s.ok THEN Chosen(r, s.w.req[r]) ELSE Waits(r, s.w.req[r])
  <2>1. w.lost = "no"
    BY <1>3, StoppedFacts
  <2>2. CASE s \in SelectNext(w, r)
    BY <1>3, <2>1, <2>2, SelectNextIs
  <2>3. ASSUME NEW f \in Failures, s = No(FailStep(w, r, f))
        PROVE  /\ Ran(w, r, s)
               /\ Stream(r, w.req[r]) =>
                    Stream(r, s.w.req[r]) /\ s.w.req[r].out \notin {"none", "misuse"}
    <3>1. f # "misuse"
      BY DEF Failures
    <3>. QED
      BY <2>3, <3>1, FailStepIs
  <2>4. s \in SelectNext(w, r) \/ \E f \in Failures : s = No(FailStep(w, r, f))
    BY <1>3 DEF PrepareDecode
  <2>. QED
    BY <2>2, <2>3, <2>4
<1>4. ~mode.batched /\ Waits(r, s.w.req[r]) => Calm(r, s.w.req[r])
  BY DEF Waits, Calm, Ahead
<1>. QED
  BY <1>1, <1>2, <1>3, <1>4

\* Before a multi-token step.
Rested(r, q) == Stream(r, q) /\ Calm(r, q) /\ ~q.selected

\* A rested request stays so under changes outside its output.
LEMMA QuietRested ==
  ASSUME NEW r, NEW q, NEW p, Quiet(q, p), p.selected = q.selected,
         p.advancing = q.advancing, p.preview = q.preview, Rested(r, q)
  PROVE  Rested(r, p)
<1>1. Stream(r, p)
  BY QuietFacts DEF Rested
<1>2. Calm(r, p) /\ ~p.selected
  BY DEF Rested, Calm, Quiet, Ahead
<1>. QED
  BY <1>1, <1>2 DEF Rested

\* The previewed token is noted unless its publication ended the request.
Foreseen(u, r) == IF IsTerminal(u, r) THEN u ELSE Previewed(u, r)

\* PreviewFirstToken does nothing, meets the stop token or publishes the first one.
LEMMA PreviewSplit ==
  ASSUME NEW w, NEW r, NEW v \in PreviewFirstToken(w, r)
  PROVE  \/ v = w
         \/ v = PreviewStopped(w, r)
         \/ /\ w.req[r].tokens = <<>> /\ ~w.req[r].selected
            /\ \E f \in FilterOutcomes(w.req[r], r) : v = Foreseen(PublishSelection(w, r, 1, f), r)
<1>1. PreviewFirstToken(w, r) =
        IF w.req[r].tokens # <<>> \/ w.req[r].previewStops THEN {w}
        ELSE {w} \cup
             (IF w.req[r].selected THEN {}
              ELSE IF eos[r] = 1 THEN {PreviewStopped(w, r)}
              ELSE {Foreseen(PublishSelection(w, r, 1, f), r) : f \in FilterOutcomes(w.req[r], r)})
  BY DEF PreviewFirstToken, PreviewStopped, Foreseen, Previewed
<1>2. CASE v # w /\ v # PreviewStopped(w, r)
  <2>1. ~(w.req[r].tokens # <<>> \/ w.req[r].previewStops)
    BY <1>1, <1>2
  <2>2. v \in (IF w.req[r].selected THEN {}
              ELSE IF eos[r] = 1 THEN {PreviewStopped(w, r)}
              ELSE {Foreseen(PublishSelection(w, r, 1, f), r) : f \in FilterOutcomes(w.req[r], r)})
    BY <1>1, <1>2, <2>1
  <2>3. ~w.req[r].selected
    BY <2>2
  <2>4. v \in {Foreseen(PublishSelection(w, r, 1, f), r) : f \in FilterOutcomes(w.req[r], r)}
    BY <1>2, <2>2
  <2>. QED
    BY <2>1, <2>3, <2>4
<1>. QED
  BY <1>2

\* A token was published, or the request ended.
Foretold(w, v, r) ==
  /\ Serves(w, v, r) /\ v.lost = w.lost
  /\ v.req[r].out # "none" => Ending(w.req[r], v.req[r], v.lost)
  /\ v.req[r].out = "none" =>
       /\ SameClient(w.req[r], v.req[r]) /\ v.req[r].lease = w.req[r].lease
       /\ Keeps(w.req[r], v.req[r])
  /\ Rested(r, w.req[r]) =>
       /\ Stream(r, v.req[r])
       /\ v.req[r].out = "none" /\ ~v.req[r].matched => Rested(r, v.req[r])

\* The publication of the previewed token.
LEMMA ForeseenIs ==
  ASSUME NEW w \in Worlds, NEW r \in Req, w.req[r].out = "none", mode \in Modes,
         w.req[r].tokens = <<>>, TokenLimit[r] \in Nat, TokenLimit[r] >= 1,
         NEW f \in FilterOutcomes(w.req[r], r),
         NEW v, v = Foreseen(PublishSelection(w, r, 1, f), r)
  PROVE  Foretold(w, v, r)
<1>1. PICK token \in Nat : token = 1
  OBVIOUS
<1>2. PICK u : u = PublishSelection(w, r, token, f)
  OBVIOUS
<1>3. /\ Serves(w, u, r) /\ u.lost = w.lost
      /\ \/ Ending(w.req[r], u.req[r], w.lost)
         \/ Published(w.req[r], u.req[r], token, f)
      /\ Stream(r, w.req[r]) /\ ~w.req[r].matched /\ NextToken(r, w.req[r], token) =>
           Stream(r, u.req[r])
  BY <1>2, PublishSelectionIs
<1>4. u \in Worlds
  BY <1>3 DEF Serves
<1>5. Rested(r, w.req[r]) =>
        ~w.req[r].matched /\ NextToken(r, w.req[r], token) /\ Stream(r, w.req[r])
  BY <1>1 DEF Rested, Calm, NextToken
<1>6. CASE u.req[r].out # "none"
  <2>1. v = u
    BY <1>1, <1>2, <1>6 DEF Foreseen, IsTerminal
  <2>2. Ending(w.req[r], u.req[r], u.lost)
    BY <1>3, <1>6 DEF Published, Steady
  <2>. QED
    BY <1>3, <1>5, <1>6, <2>1, <2>2 DEF Foretold
<1>7. CASE u.req[r].out = "none"
  <2>1. v = Previewed(u, r)
    BY <1>1, <1>2, <1>7 DEF Foreseen, IsTerminal
  <2>2. Published(w.req[r], u.req[r], token, f)
    BY <1>3, <1>7 DEF Ending
  <2>3. /\ v \in Worlds /\ Serves(u, v, r) /\ v.lost = u.lost /\ Quiet(u.req[r], v.req[r])
        /\ v.req[r].preview = TRUE /\ v.req[r].selected = u.req[r].selected
        /\ v.req[r].advancing = u.req[r].advancing
    BY <1>4, <2>1, PreviewedIs, ZenonT(30)
  <2>4. Serves(w, v, r)
    BY <1>3, <2>3, ServesTrans
  <2>5. /\ SameClient(w.req[r], u.req[r]) /\ u.req[r].lease = w.req[r].lease
        /\ u.req[r].selected = w.req[r].selected /\ u.req[r].adv = w.req[r].adv
        /\ u.req[r].advancing = w.req[r].advancing
        /\ u.req[r].tokens = Append(w.req[r].tokens, token)
    BY <2>2 DEF Published, Steady
  <2>6. Keeps(w.req[r], u.req[r])
    BY <2>2, SteadyKeeps DEF Published
  <2>7. Keeps(u.req[r], v.req[r]) /\ (Stream(r, u.req[r]) => Stream(r, v.req[r]))
    BY <2>3, QuietFacts
  <2>8. Keeps(w.req[r], v.req[r])
    BY <2>6, <2>7, KeepsTrans
  <2>9. SameClient(w.req[r], v.req[r]) /\ v.req[r].lease = w.req[r].lease
        /\ v.req[r].out = "none" /\ v.req[r].tokens = u.req[r].tokens
        /\ v.req[r].adv = u.req[r].adv
    BY <1>7, <2>3, <2>5 DEF Quiet, SameClient
  <2>10. Len(v.req[r].tokens) = 1
    <3>1. \A t \in Nat : Len(Append(<<>>, t)) = 1
      OBVIOUS
    <3>2. v.req[r].tokens = Append(<<>>, token)
      BY <2>5, <2>9
    <3>. QED
      BY <1>1, <3>1, <3>2, ZenonT(30)
  <2>11. ASSUME Rested(r, w.req[r]), ~v.req[r].matched
         PROVE  Calm(r, v.req[r]) /\ ~v.req[r].selected
    <3>1. PICK q \in Requests : q = w.req[r]
      BY WorldFacts
    <3>2. q.adv \in Nat /\ Len(q.tokens) = 0
      BY <3>1, RequestFacts
    <3>3. q.adv = 0 /\ ~q.selected /\ ~q.advancing
      BY <2>11, <3>1, <3>2 DEF Rested, Calm, Ahead
    <3>4. ~v.req[r].selected /\ ~v.req[r].advancing /\ v.req[r].preview
      BY <2>3, <2>5, <3>1, <3>3
    <3>5. v.req[r].adv = 0
      BY <2>5, <2>9, <3>1, <3>3
    <3>6. Ahead(v.req[r]) = 1
      BY <3>4 DEF Ahead
    <3>. QED
      <4>1. Len(v.req[r].tokens) = v.req[r].adv + Ahead(v.req[r])
        <5>1. 1 = 0 + 1
          OBVIOUS
        <5>. QED
          BY <2>10, <3>5, <3>6, <5>1, ZenonT(30)
      <4>2. v.req[r].adv < TokenLimit[r]
        BY <3>5
      <4>. QED
        BY <2>11, <3>4, <4>1, <4>2, ZenonT(30) DEF Calm
  <2>. QED
    BY <1>3, <1>5, <2>3, <2>4, <2>7, <2>8, <2>9, <2>11 DEF Foretold, Rested
<1>. QED
  BY <1>6, <1>7

\* PreviewFirstToken publishes the first token of a rested request, or none.
LEMMA PreviewFirstTokenIs ==
  ASSUME NEW w \in Worlds, NEW r \in Req, w.req[r].out = "none",
         mode \in Modes, eos \in EosChoices, NEW v \in PreviewFirstToken(w, r)
  PROVE  Foretold(w, v, r)
<1>1. CASE v = w
  <2>1. Serves(w, v, r)
    BY <1>1, ServesSelf
  <2>. QED
    BY <1>1, <2>1 DEF Foretold, Rested, SameClient, Keeps
<1>2. CASE v = PreviewStopped(w, r)
  <2>1. /\ v \in Worlds /\ Serves(w, v, r) /\ v.lost = w.lost /\ Quiet(w.req[r], v.req[r])
        /\ v.req[r].selected = w.req[r].selected
        /\ v.req[r].advancing = w.req[r].advancing
        /\ v.req[r].preview = w.req[r].preview
    BY <1>2, PreviewStoppedIs, ZenonT(30)
  <2>2. Keeps(w.req[r], v.req[r])
    BY <2>1, QuietFacts
  <2>3. Rested(r, w.req[r]) => Rested(r, v.req[r])
    BY <2>1, QuietRested
  <2>4. v.req[r].out = "none" /\ SameClient(w.req[r], v.req[r])
        /\ v.req[r].lease = w.req[r].lease
    BY <2>1 DEF Quiet
  <2>. QED
    BY <2>1, <2>2, <2>3, <2>4 DEF Foretold, Rested
<1>3. ASSUME w.req[r].tokens = <<>>, NEW f \in FilterOutcomes(w.req[r], r),
             v = Foreseen(PublishSelection(w, r, 1, f), r)
      PROVE  Foretold(w, v, r)
  BY <1>3, EosFacts, ForeseenIs
<1>. QED
  BY <1>1, <1>2, <1>3, PreviewSplit

\* PrepareMultiToken after its snapshot.
Snapshotted(t, r) ==
  CASE ~t.ok -> t
    [] t.ok /\ t.w.req[r].previewStops -> No(CompleteSuccess(t.w, r, "stop"))
    [] OTHER -> IF Stopped(t.w, r) THEN No(CompleteIfStopped(t.w, r)) ELSE t

\* PrepareMultiToken after its preview.
Foreseeing(v, r) ==
  CASE IsTerminal(v, r) -> {No(v)}
    [] ~IsTerminal(v, r) /\ v.req[r].matched ->
         {No(CompleteSuccess(v, r, "stop_sequence"))}
    [] OTHER -> {Snapshotted(t, r) : t \in PreparePromptSnapshot(v, r)}

\* After the snapshot the request is rested or ended.
LEMMA SnapshottedIs ==
  ASSUME NEW w \in Worlds, NEW r \in Req, w.req[r].out = "none", w.lost = "no",
         mode \in Modes,
         NEW t \in PreparePromptSnapshot(w, r), NEW s, s = Snapshotted(t, r)
  PROVE  /\ Ran(w, r, s) /\ s.w.req[r].out # "misuse"
         /\ Rested(r, w.req[r]) =>
              /\ Stream(r, s.w.req[r])
              /\ s.w.req[r].out = "none" => Rested(r, s.w.req[r])
<1>1. /\ Serves(w, t.w, r) /\ t.w.lost = w.lost /\ t.ok \in BOOLEAN
      /\ Quiet(w.req[r], t.w.req[r])
      /\ t.w.req[r].selected = w.req[r].selected
      /\ t.w.req[r].advancing = w.req[r].advancing
      /\ t.w.req[r].preview = w.req[r].preview
  BY PreparePromptSnapshotIs
<1>2. Rested(r, w.req[r]) => Rested(r, t.w.req[r])
  BY <1>1, QuietRested
<1>3. t.w \in Worlds /\ t.w.req[r].out = "none" /\ t.w.lost # "probe"
  BY <1>1 DEF Serves, Quiet
<1>4. CASE s = t
  <2>1. Ran(w, r, s) /\ s.w.req[r].out = "none"
    BY <1>1, <1>4, QuietRan
  <2>. QED
    BY <1>2, <1>4, <2>1 DEF Rested
<1>5. CASE s = No(CompleteSuccess(t.w, r, "stop"))
  <2>1. /\ Ran(t.w, r, s) /\ s.w.req[r].out \notin {"none", "misuse"}
        /\ Stream(r, t.w.req[r]) /\ (t.w.req[r].matched => "stop" = "stop_sequence") =>
             Stream(r, s.w.req[r])
    <3>1. "stop" \in {"length", "stop", "stop_sequence"}
      OBVIOUS
    <3>. QED
      BY <1>3, <1>5, <3>1, SuccessRan
  <2>2. Ran(w, r, s)
    BY <1>1, <2>1, QuietAfter
  <2>3. Rested(r, t.w.req[r]) => Stream(r, t.w.req[r]) /\ ~t.w.req[r].matched
    BY DEF Rested, Calm
  <2>. QED
    BY <1>2, <2>1, <2>2, <2>3
<1>6. CASE Stopped(t.w, r) /\ s = No(CompleteIfStopped(t.w, r))
  <2>1. /\ Ran(t.w, r, s) /\ s.w.req[r].out \notin {"none", "misuse"}
        /\ Stream(r, t.w.req[r]) => Stream(r, s.w.req[r])
    BY <1>3, <1>6, StoppedRan
  <2>2. Ran(w, r, s)
    BY <1>1, <2>1, QuietAfter
  <2>. QED
    BY <1>2, <2>1, <2>2 DEF Rested
<1>. QED
  BY <1>1, <1>4, <1>5, <1>6 DEF Snapshotted

\* So it is after the preview.
LEMMA ForeseeingIs ==
  ASSUME NEW w \in Worlds, NEW r \in Req, w.req[r].out = "none", w.lost = "no",
         mode \in Modes,
         NEW v, Foretold(w, v, r), NEW s \in Foreseeing(v, r)
  PROVE  /\ Ran(w, r, s) /\ s.w.req[r].out # "misuse"
         /\ Rested(r, w.req[r]) =>
              /\ Stream(r, s.w.req[r])
              /\ s.w.req[r].out = "none" => Rested(r, s.w.req[r])
<1>1. /\ v \in Worlds /\ Serves(w, v, r) /\ v.lost = w.lost
      /\ Rested(r, w.req[r]) =>
           /\ Stream(r, v.req[r])
           /\ v.req[r].out = "none" /\ ~v.req[r].matched => Rested(r, v.req[r])
  BY DEF Foretold, Serves
<1>2. CASE v.req[r].out # "none"
  <2>1. s = No(v)
    BY <1>2 DEF Foreseeing, IsTerminal
  <2>2. Ending(w.req[r], v.req[r], v.lost)
    BY <1>2 DEF Foretold
  <2>3. Ran(w, r, s) /\ s.w = v /\ ~s.ok /\ v.req[r].out \notin {"none", "misuse"}
    BY <1>1, <2>1, <2>2, EndedRan
  <2>. QED
    BY <1>1, <2>3
<1>3. CASE v.req[r].out = "none"
  <2>1. /\ SameClient(w.req[r], v.req[r]) /\ v.req[r].lease = w.req[r].lease
        /\ Keeps(w.req[r], v.req[r])
    BY <1>3 DEF Foretold
  <2>2. CASE v.req[r].matched
    <3>1. s = No(CompleteSuccess(v, r, "stop_sequence"))
      BY <1>3, <2>2 DEF Foreseeing, IsTerminal
    <3>2. /\ Ran(v, r, s) /\ s.w.req[r].out \notin {"none", "misuse"}
          /\ Stream(r, v.req[r]) => Stream(r, s.w.req[r])
      <4>1. "stop_sequence" \in {"length", "stop", "stop_sequence"} /\ v.lost # "probe"
        BY <1>1
      <4>. QED
        BY <1>1, <1>3, <3>1, <4>1, SuccessRan
    <3>3. Ran(w, r, s)
      BY <1>1, <2>1, <3>2, RanAfter
    <3>. QED
      BY <1>1, <3>2, <3>3
  <2>3. CASE ~v.req[r].matched
    <3>1. PICK t \in PreparePromptSnapshot(v, r) : s = Snapshotted(t, r)
      BY <1>3, <2>3 DEF Foreseeing, IsTerminal
    <3>2. /\ Ran(v, r, s) /\ s.w.req[r].out # "misuse"
          /\ Rested(r, v.req[r]) =>
               /\ Stream(r, s.w.req[r])
               /\ s.w.req[r].out = "none" => Rested(r, s.w.req[r])
      BY <1>1, <1>3, <3>1, SnapshottedIs
    <3>3. Ran(w, r, s)
      BY <1>1, <2>1, <3>2, RanAfter
    <3>. QED
      BY <1>1, <1>3, <2>3, <3>2, <3>3
  <2>. QED
    BY <2>2, <2>3
<1>. QED
  BY <1>2, <1>3

\* PrepareMultiToken leaves a rested request rested, or ends it.
LEMMA PrepareMultiTokenIs ==
  ASSUME NEW w \in Worlds, NEW r \in Req, w.req[r].out = "none",
         mode \in Modes, eos \in EosChoices, NEW s \in PrepareMultiToken(w, r)
  PROVE  /\ Ran(w, r, s) /\ s.w.req[r].out # "misuse"
         /\ Rested(r, w.req[r]) =>
              /\ Stream(r, s.w.req[r])
              /\ s.w.req[r].out = "none" => Rested(r, s.w.req[r])
<1>1. CASE Stopped(w, r)
  <2>1. s = No(CompleteIfStopped(w, r))
    BY <1>1 DEF PrepareMultiToken
  <2>2. /\ Ran(w, r, s) /\ s.w.req[r].out \notin {"none", "misuse"}
        /\ Stream(r, w.req[r]) => Stream(r, s.w.req[r])
    BY <1>1, <2>1, StoppedRan
  <2>. QED
    BY <2>2 DEF Rested
<1>2. CASE ~Stopped(w, r)
  <2>1. w.lost = "no"
    BY <1>2, StoppedFacts
  <2>2. PrepareFirstSnapshot(w, r) = UNION {Foreseeing(v, r) : v \in PreviewFirstToken(w, r)}
    BY DEF PrepareFirstSnapshot, Foreseeing, Snapshotted
  <2>3. ASSUME NEW v \in PreviewFirstToken(w, r), s \in Foreseeing(v, r)
        PROVE  /\ Ran(w, r, s) /\ s.w.req[r].out # "misuse"
               /\ Rested(r, w.req[r]) =>
                    /\ Stream(r, s.w.req[r])
                    /\ s.w.req[r].out = "none" => Rested(r, s.w.req[r])
    <3>1. Foretold(w, v, r)
      BY PreviewFirstTokenIs
    <3>. QED
      BY <2>1, <2>3, <3>1, ForeseeingIs
  <2>4. ASSUME NEW f \in Failures, s = No(FailStep(w, r, f))
        PROVE  /\ Ran(w, r, s) /\ s.w.req[r].out \notin {"none", "misuse"}
               /\ Stream(r, w.req[r]) => Stream(r, s.w.req[r])
    <3>1. f # "misuse"
      BY DEF Failures
    <3>. QED
      BY <2>4, <3>1, FailStepIs
  <2>5. \/ \E v \in PreviewFirstToken(w, r) : s \in Foreseeing(v, r)
        \/ \E f \in Failures : s = No(FailStep(w, r, f))
    <3>1. s \in PrepareFirstSnapshot(w, r) \/ \E f \in Failures : s = No(FailStep(w, r, f))
      BY <1>2 DEF PrepareMultiToken
    <3>. QED
      BY <2>2, <3>1
  <2>6. CASE \E v \in PreviewFirstToken(w, r) : s \in Foreseeing(v, r)
    BY <2>3, <2>6
  <2>7. CASE \E f \in Failures : s = No(FailStep(w, r, f))
    BY <2>4, <2>7 DEF Rested
  <2>. QED
    BY <2>5, <2>6, <2>7
<1>. QED
  BY <1>1, <1>2

\* A step whose call failed ends its request.
LEMMA FailUnlessStoppedRan ==
  ASSUME NEW w \in Worlds, NEW r \in Req, w.req[r].out = "none", NEW f, f # "misuse",
         NEW s, s = No(FailUnlessStopped(w, r, f))
  PROVE  /\ Ran(w, r, s) /\ s.w.req[r].out \notin {"none", "misuse"}
         /\ Stream(r, w.req[r]) => Stream(r, s.w.req[r])
         /\ s.w.lost \in {w.lost, Probed(w.lost, f)}
<1>1. PICK v : v = FailUnlessStopped(w, r, f)
  OBVIOUS
<1>2. s.w = v /\ s.ok = FALSE
  BY <1>1 DEF No
<1>3. Ruined(w, v, r, f)
  BY <1>1, FailUnlessStoppedIs
<1>4. /\ Serves(w, v, r) /\ v.lost \in {w.lost, Probed(w.lost, f)}
      /\ v.req[r].out # "none"
      /\ Keeps(w.req[r], v.req[r])
      /\ f # "misuse" => Ending(w.req[r], v.req[r], v.lost)
      /\ Taken(r, w.req[r]) => Stream(r, v.req[r])
  BY <1>3, RuinedEnds
<1>5. v.lost = w.lost \/ (w.lost = "no" /\ v.lost = "probe")
  BY <1>4, WorldFacts, ProbedFacts
<1>6. PICK q \in Requests : q = w.req[r]
  BY WorldFacts
<1>7. Stream(r, w.req[r]) => Taken(r, w.req[r])
  BY <1>6, StreamTaken
<1>8. v.req[r].out # "misuse"
  BY <1>4 DEF Ending
<1>. QED
  BY <1>2, <1>4, <1>5, <1>7, <1>8, ZenonT(30) DEF Ran

\* A step may leave its request alone.
LEMMA SameRan ==
  ASSUME NEW w \in Worlds, NEW r \in Req, w.req[r].out = "none"
  PROVE  Ran(w, r, No(w))
<1>1. PICK s : s = No(w)
  OBVIOUS
<1>2. s.w = w /\ s.ok = FALSE
  BY <1>1 DEF No
<1>3. Serves(w, w, r)
  BY ServesSelf
<1>4. Keeps(w.req[r], w.req[r])
  BY DEF Keeps
<1>. QED
  BY <1>1, <1>2, <1>3, <1>4, ZenonT(30) DEF Ran

\* The two parts of an answer.
LEMMA NoIs ==
  ASSUME NEW v
  PROVE  No(v).w = v /\ No(v).ok = FALSE
BY DEF No

\* A lane that was advanced.
LEMMA FinishAdvancedIs ==
  ASSUME NEW w \in Worlds, NEW r \in Req, w.req[r].out = "none", mode \in Modes,
         TokenLimit[r] \in Nat, NEW v, v = FinishAdvanced(w, r)
  PROVE  /\ Ran(w, r, No(v)) /\ v.req[r].out # "misuse"
         /\ \A d : Stream(r, w.req[r]) /\ Lane(r, w.req[r], d) /\ d.kind = "advanced" =>
              /\ Stream(r, v.req[r])
              /\ v.req[r].out = "none" => Calm(r, v.req[r])
<1>1. CASE Stopped(w, r)
  <2>1. v = CompleteIfStopped(w, r)
    BY <1>1 DEF FinishAdvanced
  <2>2. PICK s : s = No(v)
    OBVIOUS
  <2>3. /\ Ran(w, r, s) /\ s.w.req[r].out \notin {"none", "misuse"}
        /\ Stream(r, w.req[r]) => Stream(r, s.w.req[r])
    BY <1>1, <2>1, <2>2, StoppedRan
  <2>. QED
    BY <2>2, <2>3, NoIs, ZenonT(30)
<1>2. CASE ~Stopped(w, r) /\ Reached(w, r)
  <2>1. v = CompleteSuccess(w, r, "length")
    BY <1>2 DEF FinishAdvanced
  <2>2. PICK s : s = No(v)
    OBVIOUS
  <2>3. /\ Ran(w, r, s) /\ s.w.req[r].out \notin {"none", "misuse"}
        /\ Stream(r, w.req[r]) /\ (w.req[r].matched => "length" = "stop_sequence") =>
             Stream(r, s.w.req[r])
    <3>1. w.lost = "no"
      BY <1>2, StoppedFacts
    <3>2. w.lost # "probe" /\ "length" \in {"length", "stop", "stop_sequence"}
      BY <3>1
    <3>. QED
      BY <2>1, <2>2, <3>2, SuccessRan
  <2>4. \A d : Lane(r, w.req[r], d) /\ d.kind = "advanced" => ~w.req[r].matched
    BY DEF Lane
  <2>. QED
    BY <2>2, <2>3, <2>4, NoIs, ZenonT(30)
<1>3. CASE ~Stopped(w, r) /\ ~Reached(w, r)
  <2>1. v = w
    BY <1>3 DEF FinishAdvanced
  <2>2. Ran(w, r, No(w))
    BY SameRan
  <2>3. ASSUME NEW d, Lane(r, w.req[r], d), d.kind = "advanced"
        PROVE  Calm(r, w.req[r])
    <3>1. PICK q \in Requests : q = w.req[r]
      BY WorldFacts
    <3>2. q.adv \in Nat /\ Len(q.tokens) \in Nat
      BY <3>1, RequestFacts
    <3>3. Len(q.tokens) < TokenLimit[r]
      BY <1>3, <3>1, <3>2 DEF Reached
    <3>4. ~q.matched /\ ~q.selected /\ ~q.advancing /\ ~q.preview /\ Len(q.tokens) = q.adv
      BY <2>3, <3>1 DEF Lane
    <3>5. Calm(r, q)
      BY <3>2, <3>3, <3>4 DEF Calm, Ahead
    <3>. QED
      BY <3>1, <3>5
  <2>. QED
    BY <2>1, <2>2, <2>3
<1>. QED
  BY <1>1, <1>2, <1>3

\* A lane of several tokens that was published.
LEMMA FinishDecodedIs ==
  ASSUME NEW w \in Worlds, NEW r \in Req, w.req[r].out = "none", w.lost # "probe",
         mode \in Modes,
         TokenLimit[r] \in Nat, NEW d, d.toks = <<>> \/ w.req[r].matched,
         NEW v, v = FinishDecoded(w, r, d.stop)
  PROVE  /\ Ran(w, r, No(v)) /\ v.req[r].out # "misuse"
         /\ Stream(r, w.req[r]) /\ Lane(r, w.req[r], d) /\ d.kind = "tokens" =>
              /\ Stream(r, v.req[r])
              /\ v.req[r].out = "none" => Calm(r, v.req[r])
<1>1. ASSUME NEW o \in {"length", "stop", "stop_sequence"}, v = CompleteSuccess(w, r, o),
             w.req[r].matched => o = "stop_sequence"
      PROVE  /\ Ran(w, r, No(v)) /\ v.req[r].out \notin {"none", "misuse"}
             /\ Stream(r, w.req[r]) => Stream(r, v.req[r])
  <2>1. PICK s : s = No(v)
    OBVIOUS
  <2>2. /\ Ran(w, r, s) /\ s.w.req[r].out \notin {"none", "misuse"}
        /\ Stream(r, w.req[r]) /\ (w.req[r].matched => o = "stop_sequence") =>
             Stream(r, s.w.req[r])
    BY <1>1, <2>1, SuccessRan
  <2>. QED
    BY <1>1, <2>1, <2>2, NoIs, ZenonT(30)
<1>2. \/ \E o \in {"length", "stop", "stop_sequence"} :
           v = CompleteSuccess(w, r, o) /\ (w.req[r].matched => o = "stop_sequence")
      \/ v = w /\ ~w.req[r].matched /\ ~d.stop /\ ~Reached(w, r)
  BY DEF FinishDecoded
<1>3. CASE v = w /\ ~w.req[r].matched /\ ~d.stop /\ ~Reached(w, r)
  <2>1. Ran(w, r, No(w))
    BY SameRan
  <2>2. ASSUME Lane(r, w.req[r], d), d.kind = "tokens"
        PROVE  Calm(r, w.req[r])
    <3>1. PICK q \in Requests : q = w.req[r]
      BY WorldFacts
    <3>2. q.adv \in Nat /\ Len(q.tokens) \in Nat
      BY <3>1, RequestFacts
    <3>3. Len(q.tokens) < TokenLimit[r]
      BY <1>3, <3>1, <3>2 DEF Reached
    <3>4. ~q.matched /\ ~q.selected /\ ~q.advancing /\ ~q.preview
      BY <1>3, <2>2, <3>1 DEF Lane
    <3>5. Len(q.tokens) + Len(d.toks) = q.adv + Ahead(q)
      BY <2>2, <3>1, ZenonT(30) DEF Lane
    <3>6. Ahead(q) = 0 /\ Len(d.toks) = 0
      BY <1>3, <3>1, <3>4 DEF Ahead
    <3>7. Len(q.tokens) = q.adv
      BY <3>2, <3>5, <3>6
    <3>8. Calm(r, q)
      BY <3>2, <3>3, <3>4, <3>7 DEF Calm, Ahead
    <3>. QED
      BY <3>1, <3>8
  <2>3. w.req[r].out # "misuse"
    OBVIOUS
  <2>. QED
    BY <1>3, <2>1, <2>2, <2>3
<1>. QED
  BY <1>1, <1>2, <1>3

\* The counts of a lane from which one token is taken.
LEMMA LaneCounts ==
  /\ \A x, y \in Nat : x + (y + 1) = x + 1 + y
  /\ \A x, y, z \in Nat : x + 1 + y = z + 1 => x + y = z + 0
  /\ \A x \in Nat : x - 0 + 1 = x + 1
OBVIOUS

\* What is still to publish is within the token limit.
LEMMA LaneBound ==
  ASSUME NEW x \in Nat, NEW y \in Nat, NEW z \in Nat, NEW n \in Nat,
         x + 1 + y = z + 0, z <= n
  PROVE  x < n
OBVIOUS

\* The rest of a lane.
LEMMA LaneTail ==
  ASSUME NEW t \in Seq(Nat), t # <<>>, NEW n \in Int, \A i \in DOMAIN t : t[i] = n + i
  PROVE  /\ Head(t) = n + 1 /\ Len(t) = Len(Tail(t)) + 1 /\ Tail(t) \in Seq(Nat)
         /\ Head(t) \in Nat /\ Len(t) >= 1 /\ Len(Tail(t)) \in Nat
         /\ \A i \in DOMAIN Tail(t) : Tail(t)[i] = n + 1 + i
<1>1. Len(t) \in Nat /\ Len(t) >= 1 /\ Tail(t) \in Seq(Nat) /\ Len(Tail(t)) = Len(t) - 1
      /\ Head(t) = t[1] /\ Head(t) \in Nat
  BY HeadTailMembers
<1>2. \A i \in 1 .. Len(Tail(t)) : Tail(t)[i] = t[i + 1]
  BY HeadTailProperties
<1>3. DOMAIN t = 1 .. Len(t) /\ DOMAIN Tail(t) = 1 .. Len(Tail(t))
  BY <1>1, SeqFacts
<1>4. ASSUME NEW i \in DOMAIN Tail(t)
      PROVE  Tail(t)[i] = n + 1 + i
  <2>1. i \in Int /\ i \in 1 .. Len(Tail(t)) /\ i + 1 \in DOMAIN t
    BY <1>1, <1>3
  <2>2. Tail(t)[i] = n + (i + 1)
    BY <1>2, <2>1
  <2>. QED
    BY <2>1, <2>2
<1>5. Head(t) = n + 1
  BY <1>1, <1>3
<1>. QED
  BY <1>1, <1>4, <1>5

\* e is what is left of d after its first token.
Rest(d, e) == e.kind = d.kind /\ e.toks = Tail(d.toks) /\ e.stop = d.stop

\* PublishDecodedSelection publishes the lane's first token; the rest stays to publish.
LEMMA PublishDecodedSelectionIs ==
  ASSUME NEW w \in Worlds, NEW r \in Req, w.req[r].out = "none", mode \in Modes,
         TokenLimit[r] \in Nat, NEW d, d.kind = "tokens", d.toks \in Seq(Nat), d.toks # <<>>,
         NEW v \in PublishDecodedSelection(w, r, Head(d.toks)), NEW e, Rest(d, e)
  PROVE  /\ Ran(w, r, No(v)) /\ v.req[r].out # "misuse" /\ v.lost = w.lost
         /\ Stream(r, w.req[r]) /\ Lane(r, w.req[r], d) /\ ~w.req[r].matched =>
              /\ Stream(r, v.req[r])
              /\ v.req[r].out = "none" => Lane(r, v.req[r], e)
<1>1. PICK q \in Requests : q = w.req[r]
  BY WorldFacts
<1>2. q.adv \in Nat /\ Len(q.tokens) \in Nat /\ q.tokens \in Seq(Nat)
  BY <1>1, RequestFacts
<1>3. Head(d.toks) \in Nat
  BY HeadTailMembers
<1>4. e.kind = "tokens" /\ e.toks = Tail(d.toks) /\ e.stop = d.stop
  BY DEF Rest
<1>5. ASSUME Lane(r, w.req[r], d)
      PROVE  /\ ~q.selected /\ ~q.advancing /\ d.stop \in BOOLEAN
             /\ Head(d.toks) = Len(q.tokens) - Ahead(q) + 1
             /\ Len(q.tokens) + 1 + Len(e.toks) = q.adv + Ahead(q) /\ Len(e.toks) \in Nat
             /\ q.adv <= TokenLimit[r] /\ e.toks \in Seq(Nat)
             /\ \A i \in DOMAIN e.toks : e.toks[i] = Len(q.tokens) - Ahead(q) + 1 + i
  <2>1. /\ ~q.selected /\ ~q.advancing
        /\ d.toks \in Seq(Nat) /\ d.stop \in BOOLEAN
        /\ Len(q.tokens) + Len(d.toks) = q.adv + Ahead(q)
        /\ q.adv <= TokenLimit[r]
        /\ \A i \in DOMAIN d.toks : d.toks[i] = Len(q.tokens) - Ahead(q) + i
    BY <1>1, <1>5, ZenonT(30) DEF Lane
  <2>2. PICK n \in Int : n = Len(q.tokens) - Ahead(q)
    <3>1. PICK a \in Nat : a = Len(q.tokens)
      BY <1>2
    <3>2. PICK h \in Nat : h = Ahead(q)
      BY DEF Ahead
    <3>3. a - h \in Int
      BY <3>1, <3>2
    <3>. QED
      BY <3>1, <3>2, <3>3
  <2>3. PICK t \in Seq(Nat) : t = d.toks
    BY <2>1
  <2>4. /\ Head(t) = n + 1 /\ Len(t) = Len(Tail(t)) + 1 /\ Tail(t) \in Seq(Nat)
        /\ Len(Tail(t)) \in Nat
        /\ \A i \in DOMAIN Tail(t) : Tail(t)[i] = n + 1 + i
    BY <2>1, <2>2, <2>3, LaneTail, ZenonT(30)
  <2>5. Ahead(q) \in Nat
    BY DEF Ahead
  <2>6. Len(q.tokens) + 1 + Len(e.toks) = q.adv + Ahead(q)
    <3>1. PICK a \in Nat : a = Len(q.tokens)
      BY <1>2
    <3>2. PICK b \in Nat : b = Len(e.toks)
      BY <1>4, <2>3, <2>4, ZenonT(30)
    <3>3. Len(d.toks) = b + 1
      BY <1>4, <2>3, <2>4, <3>2
    <3>4. a + (b + 1) = q.adv + Ahead(q)
      BY <2>1, <3>1, <3>3, ZenonT(30)
    <3>5. a + (b + 1) = a + 1 + b
      BY <3>1, <3>2, LaneCounts, ZenonT(30)
    <3>. QED
      BY <3>1, <3>2, <3>4, <3>5, ZenonT(30)
  <2>. QED
    BY <1>4, <2>1, <2>2, <2>3, <2>4, <2>6, ZenonT(30)
<1>6. CASE w.req[r].preview
  <2>1. v = Unpreviewed(w, r)
    BY <1>6 DEF PublishDecodedSelection, Unpreviewed
  <2>2. /\ v \in Worlds /\ Serves(w, v, r) /\ v.lost = w.lost /\ Quiet(w.req[r], v.req[r])
        /\ v.req[r].preview = FALSE /\ v.req[r].selected = w.req[r].selected
        /\ v.req[r].advancing = w.req[r].advancing
    BY <2>1, UnpreviewedIs, ZenonT(30)
  <2>3. Ran(w, r, No(v)) /\ v.req[r].out = "none"
    <3>1. PICK s : s = No(v)
      OBVIOUS
    <3>2. s.w = v /\ s.ok = FALSE
      BY <3>1, NoIs, ZenonT(30)
    <3>3. Ran(w, r, s) /\ s.w.req[r].out = "none"
      BY <2>2, <3>2, QuietRan, ZenonT(30)
    <3>. QED
      BY <3>1, <3>2, <3>3
  <2>4. Stream(r, w.req[r]) => Stream(r, v.req[r])
    BY <2>2, QuietFacts
  <2>5. ASSUME Lane(r, w.req[r], d)
        PROVE  Lane(r, v.req[r], e)
    <3>1. PICK p : p = v.req[r]
      OBVIOUS
    <3>2. p.tokens = q.tokens /\ p.adv = q.adv
      BY <1>1, <2>2, <3>1 DEF Quiet
    <3>3. ~p.selected /\ ~p.advancing /\ ~p.preview
      BY <1>1, <1>5, <2>2, <2>5, <3>1
    <3>4. Ahead(q) = 1 /\ Ahead(p) = 0
      BY <1>1, <1>6, <3>3 DEF Ahead
    <3>5. Len(p.tokens) + Len(e.toks) = p.adv + Ahead(p)
      <4>1. PICK a \in Nat : a = Len(q.tokens)
        BY <1>2
      <4>2. PICK b \in Nat : b = Len(e.toks)
        BY <1>5, <2>5
      <4>3. a + 1 + b = q.adv + 1
        BY <1>5, <2>5, <3>4, <4>1, <4>2, ZenonT(30)
      <4>4. a + b = q.adv + 0
        <5>1. \A z \in Nat : a + 1 + b = z + 1 => a + b = z + 0
          BY <4>1, <4>2, LaneCounts, ZenonT(30)
        <5>. QED
          BY <1>2, <4>3, <5>1, ZenonT(30)
      <4>. QED
        BY <3>2, <3>4, <4>1, <4>2, <4>4, ZenonT(30)
    <3>6. Len(p.tokens) - Ahead(p) = Len(q.tokens) - Ahead(q) + 1
      BY <1>2, <3>2, <3>4
    <3>7. \A i \in DOMAIN e.toks : e.toks[i] = Len(p.tokens) - Ahead(p) + i
      BY <1>5, <2>5, <3>6, ZenonT(30)
    <3>8. Lane(r, p, e)
      BY <1>4, <1>5, <2>5, <3>2, <3>3, <3>5, <3>7, ZenonT(30) DEF Lane
    <3>. QED
      BY <3>1, <3>8
  <2>. QED
    BY <2>2, <2>3, <2>4, <2>5
<1>7. CASE ~w.req[r].preview
  <2>1. PICK token \in Nat : token = Head(d.toks)
    BY <1>3
  <2>2. PICK f \in FilterOutcomes(w.req[r], r) : v = PublishSelection(w, r, token, f)
    BY <1>7, <2>1 DEF PublishDecodedSelection
  <2>3. /\ Serves(w, v, r) /\ v.lost = w.lost
        /\ \/ Ending(w.req[r], v.req[r], w.lost)
           \/ Published(w.req[r], v.req[r], token, f)
        /\ Stream(r, w.req[r]) /\ ~w.req[r].matched /\ NextToken(r, w.req[r], token) =>
             Stream(r, v.req[r])
    BY <2>1, <2>2, PublishSelectionIs
  <2>4. ASSUME Lane(r, w.req[r], d)
        PROVE  NextToken(r, w.req[r], token) /\ Ahead(q) = 0
    <3>1. Ahead(q) = 0
      BY <1>1, <1>5, <1>7, <2>4 DEF Ahead
    <3>2. token = Len(q.tokens) + 1 /\ Len(q.tokens) < TokenLimit[r]
      <4>1. PICK a \in Nat : a = Len(q.tokens)
        BY <1>2
      <4>2. PICK b \in Nat : b = Len(e.toks)
        BY <1>5, <2>4
      <4>3. a + 1 + b = q.adv + 0 /\ token = a - 0 + 1 /\ q.adv <= TokenLimit[r]
        BY <1>5, <2>1, <2>4, <3>1, <4>1, <4>2, ZenonT(30)
      <4>4. token = a + 1 /\ a < TokenLimit[r]
        <5>1. \A z, n \in Nat : a + 1 + b = z + 0 /\ z <= n => a < n
          BY <4>1, <4>2, LaneBound, ZenonT(30)
        <5>2. a - 0 + 1 = a + 1
          BY <4>1, LaneCounts, ZenonT(30)
        <5>. QED
          BY <1>2, <4>3, <5>1, <5>2, ZenonT(30)
      <4>. QED
        BY <4>1, <4>4
    <3>. QED
      BY <1>1, <3>1, <3>2 DEF NextToken
  <2>5. CASE Ending(w.req[r], v.req[r], w.lost)
    <3>1. PICK s : s = No(v)
      OBVIOUS
    <3>2. Ran(w, r, s) /\ s.w = v /\ ~s.ok /\ v.req[r].out \notin {"none", "misuse"}
      BY <2>3, <2>5, <3>1, EndedRan
    <3>. QED
      BY <2>3, <2>4, <3>1, <3>2
  <2>6. CASE Published(w.req[r], v.req[r], token, f)
    <3>1. Keeps(w.req[r], v.req[r])
      BY <2>6, SteadyKeeps DEF Published
    <3>2. /\ v.req[r].out = "none" /\ v.req[r].adv = q.adv
          /\ v.req[r].lease = w.req[r].lease
          /\ v.req[r].selected = q.selected /\ v.req[r].advancing = q.advancing
          /\ v.req[r].preview = q.preview /\ v.req[r].tokens = Append(q.tokens, token)
      BY <1>1, <2>6 DEF Published, Steady
    <3>3. Ran(w, r, No(v))
      BY <2>3, <3>1, <3>2, NoIs, ZenonT(30) DEF Ran
    <3>4. ASSUME Lane(r, w.req[r], d)
          PROVE  Lane(r, v.req[r], e)
      <4>1. PICK p : p = v.req[r]
        OBVIOUS
      <4>2. ~p.selected /\ ~p.advancing /\ ~p.preview /\ p.adv = q.adv
        BY <1>1, <1>5, <1>7, <3>2, <3>4, <4>1, ZenonT(30)
      <4>3. Ahead(p) = 0 /\ Ahead(q) = 0
        BY <2>4, <3>4, <4>2 DEF Ahead
      <4>4. Len(p.tokens) = Len(q.tokens) + 1
        BY <1>2, <2>1, <3>2, <4>1
      <4>5. Len(p.tokens) + Len(e.toks) = p.adv + Ahead(p)
        BY <1>2, <1>5, <3>4, <4>2, <4>3, <4>4, ZenonT(30)
      <4>6. Len(p.tokens) - Ahead(p) = Len(q.tokens) - Ahead(q) + 1
        BY <1>2, <4>3, <4>4
      <4>7. \A i \in DOMAIN e.toks : e.toks[i] = Len(p.tokens) - Ahead(p) + i
        BY <1>5, <3>4, <4>6, ZenonT(30)
      <4>8. Lane(r, p, e)
        BY <1>4, <1>5, <3>4, <4>2, <4>5, <4>7, ZenonT(30) DEF Lane
      <4>. QED
        BY <4>1, <4>8
    <3>. QED
      BY <2>3, <2>4, <3>2, <3>3, <3>4
  <2>. QED
    BY <2>3, <2>5, <2>6
<1>. QED
  BY <1>6, <1>7

\* The lesser of two numbers.
LEMMA MinTwo ==
  ASSUME NEW a \in Int, NEW b \in Int
  PROVE  /\ Min({a, b}) \in {a, b} /\ Min({a, b}) <= a /\ Min({a, b}) <= b
<1>1. \E x \in {a, b} : \A y \in {a, b} : x <= y
  OBVIOUS
<1>. QED
  BY <1>1 DEF Min

\* Every request changed at once, and no queue of pieces.
Redone(w, g) == [w EXCEPT !.req = g]

\* Such a change gives a world again.
LEMMA RedoneIs ==
  ASSUME NEW w \in Worlds, NEW g \in [Req -> Requests],
         \A x \in Req : g[x].buffered = w.req[x].buffered, NEW v, v = Redone(w, g)
  PROVE  v \in Worlds /\ v.req = g /\ v.lost = w.lost
<1>1. /\ w = [req |-> w.req, budget |-> w.budget, lost |-> w.lost]
      /\ w.req \in [Req -> Requests] /\ w.budget \in Nat
      /\ w.lost \in {"no", "probe", "stall"}
      /\ w.budget = SumOf(Buffers(w.req), Req) /\ w.budget <= MaxTotal
  BY WorldFacts
<1>2. PICK f, b, l : f = w.req /\ b = w.budget /\ l = w.lost
  OBVIOUS
<1>3. w = [req |-> f, budget |-> b, lost |-> l]
  BY <1>1, <1>2
<1>4. v = [req |-> g, budget |-> b, lost |-> l]
  BY <1>3 DEF Redone
<1>5. v.req = g /\ v.budget = b /\ v.lost = l
  BY <1>4
<1>6. Buffers(g) = Buffers(f)
  BY <1>2, ZenonT(30) DEF Buffers
<1>7. v \in [req : [Req -> Requests], budget : Nat, lost : {"no", "probe", "stall"}]
  BY <1>1, <1>2, <1>4
<1>8. v.budget = SumOf(Buffers(v.req), Req) /\ v.budget <= MaxTotal
  BY <1>1, <1>2, <1>5, <1>6
<1>. QED
  BY <1>2, <1>5, <1>7, <1>8 DEF Worlds

-----------------------------------------------------------------------------
(* The step of a lane *)

\* What a lane of the runner's batch returned, or nothing.
Steps == [kind : {"none", "advanced", "error", "lost"}]
           \cup [kind : {"tokens"}, toks : Seq(Nat), stop : BOOLEAN, begun : BOOLEAN]

\* p is q but for the marks and for what the runner's state holds.
Alike(q, p) ==
  /\ SameClient(q, p)
  /\ p.out = q.out /\ p.cancel = q.cancel /\ p.expired = q.expired
  /\ p.counted = q.counted /\ p.session = q.session /\ p.lease = q.lease
  /\ p.tokens = q.tokens /\ p.held = q.held /\ p.matched = q.matched
  /\ p.pieces = q.pieces /\ p.buffered = q.buffered

\* A change of what the runner holds keeps place and stream.
LEMMA AlikeFacts ==
  ASSUME NEW q, NEW p, Alike(q, p)
  PROVE  /\ Keeps(q, p)
         /\ \A r : Stream(r, q) => Stream(r, p)
         /\ \A z : Alike(p, z) => Alike(q, z)
<1>1. Keeps(q, p)
  BY DEF Alike, Keeps, SameClient
<1>2. \A r : Stream(r, q) => Stream(r, p)
  <2>1. p.delivered = q.delivered /\ p.listening = q.listening
    BY DEF Alike, SameClient
  <2>2. Sent(p) = Sent(q)
    BY <2>1 DEF Sent, Alike
  <2>. QED
    BY <2>1, <2>2, ZenonT(30) DEF Stream, Alike
<1>3. \A z : Alike(p, z) => Alike(q, z)
  BY DEF Alike, SameClient
<1>. QED
  BY <1>1, <1>2, <1>3

\* The runner's state holds other tokens, none selected.
Grown(q, n) == [q EXCEPT !.adv = n]

\* The runner's selection is consumed.
Deselected(q) == [q EXCEPT !.selected = FALSE]

\* Only the count of advanced tokens changes.
LEMMA GrownIs ==
  ASSUME NEW q \in Requests, NEW n \in Nat, NEW p, p = Grown(q, n)
  PROVE  /\ p \in Requests /\ Alike(q, p) /\ p.adv = n
         /\ p.selected = q.selected /\ p.advancing = q.advancing /\ p.preview = q.preview
<1>1. q \in Records
  BY RequestFacts
<1>2. p = [q EXCEPT !.adv = n]
  BY DEF Grown
<1>3. p \in Records
  BY <1>1, <1>2, ZenonT(60) DEF Records
<1>4. /\ Alike(q, p) /\ p.adv = n
      /\ p.selected = q.selected /\ p.advancing = q.advancing /\ p.preview = q.preview
  BY <1>1, <1>2 DEF Records, Alike, SameClient
<1>. QED
  BY <1>3, <1>4, RequestWith DEF Alike

\* Only the selection changes.
LEMMA DeselectedIs ==
  ASSUME NEW q \in Requests, NEW p, p = Deselected(q)
  PROVE  /\ p \in Requests /\ Alike(q, p) /\ p.adv = q.adv
         /\ ~p.selected /\ p.advancing = q.advancing /\ p.preview = q.preview
<1>1. q \in Records
  BY RequestFacts
<1>2. PICK d \in BOOLEAN : d = FALSE
  BY ZenonT(30)
<1>3. p = [q EXCEPT !.selected = d]
  BY <1>2, ZenonT(30) DEF Deselected
<1>4. p \in Records
  BY <1>1, <1>2, <1>3, ZenonT(60) DEF Records
<1>5. /\ Alike(q, p) /\ p.adv = q.adv
      /\ p.selected = d /\ p.advancing = q.advancing /\ p.preview = q.preview
  BY <1>1, <1>3 DEF Records, Alike, SameClient
<1>. QED
  BY <1>2, <1>4, <1>5, RequestWith DEF Alike

\* What the runner's state holds after a step: the tokens it decoded.
LEMMA LaneStateIs ==
  ASSUME NEW q \in Requests, NEW d \in Steps, NEW p, p = LaneState(q, d)
  PROVE  /\ p \in Requests /\ Alike(q, p)
         /\ p.advancing = q.advancing /\ p.preview = q.preview
         /\ d.kind = "tokens" => p.adv = q.adv + Len(d.toks) /\ p.selected = q.selected
         /\ d.kind = "advanced" => p.adv = q.adv + 1 /\ ~p.selected
         /\ d.kind \notin {"tokens", "advanced"} => p = q
<1>1. q.adv \in Nat
  BY RequestFacts
<1>2. CASE d.kind = "tokens"
  <2>1. PICK k \in Nat : k = Len(d.toks)
    <3>1. d.toks \in Seq(Nat)
      BY <1>2 DEF Steps
    <3>. QED
      BY <3>1
  <2>2. PICK n \in Nat : n = q.adv + k
    BY <1>1, <2>1
  <2>3. PICK a : a = Grown(q, n)
    OBVIOUS
  <2>4. /\ a \in Requests /\ Alike(q, a) /\ a.adv = n
        /\ a.selected = q.selected /\ a.advancing = q.advancing /\ a.preview = q.preview
    BY <2>2, <2>3, GrownIs
  <2>5. p = a
    BY <1>2, <2>1, <2>2, <2>3 DEF LaneState, Grown
  <2>. QED
    BY <1>2, <2>1, <2>2, <2>4, <2>5
<1>3. CASE d.kind = "advanced"
  <2>1. PICK n \in Nat : n = q.adv + 1
    BY <1>1
  <2>2. PICK a : a = Grown(q, n)
    OBVIOUS
  <2>3. /\ a \in Requests /\ Alike(q, a) /\ a.adv = n
        /\ a.advancing = q.advancing /\ a.preview = q.preview
    BY <2>1, <2>2, GrownIs
  <2>4. p = Deselected(a)
    BY <1>3, <2>1, <2>2 DEF LaneState, Grown, Deselected
  <2>5. /\ p \in Requests /\ Alike(a, p) /\ p.adv = a.adv
        /\ ~p.selected /\ p.advancing = a.advancing /\ p.preview = a.preview
    BY <2>3, <2>4, DeselectedIs
  <2>6. Alike(q, p)
    BY <2>3, <2>5, AlikeFacts
  <2>. QED
    BY <1>3, <2>1, <2>3, <2>5, <2>6
<1>4. CASE d.kind \notin {"tokens", "advanced"}
  <2>1. p = q
    BY <1>4 DEF LaneState
  <2>2. Alike(q, q)
    BY DEF Alike, SameClient
  <2>. QED
    BY <1>4, <2>1, <2>2
<1>. QED
  BY <1>2, <1>3, <1>4

\* Counting on from a number.
LEMMA CountFrom ==
  ASSUME NEW a \in Nat, NEW k \in Nat, NEW t, t = [i \in 1 .. k |-> a + i]
  PROVE  /\ t \in Seq(Nat) /\ Len(t) = k /\ DOMAIN t = 1 .. k
         /\ \A i \in 1 .. k : t[i] = a + i
<1>1. t \in [1 .. k -> Nat]
  OBVIOUS
<1>. QED
  BY <1>1

\* What a step by tokens returns: the next k tokens, and whether it stopped.
Returned(q, k, b) == [kind |-> "tokens", toks |-> [i \in 1 .. k |-> q.adv + i], stop |-> b,
                      begun |-> FALSE]

\* How many tokens it may return.
Reach(q, r) == {n \in 0 .. Min({Remaining(q, r), MaxDraft}) : q.adv + n < eos[r]}

\* What DecodeStep returns stays within the limit.
LEMMA ValidStepIs ==
  ASSUME NEW q \in Requests, NEW r \in Req, NEW d \in ValidSteps(q, r)
  PROVE  /\ d.kind = "tokens" /\ d \in Steps /\ d.stop \in BOOLEAN
         /\ d.toks \in Seq(Nat) /\ DOMAIN d.toks = 1 .. Len(d.toks)
         /\ Len(d.toks) <= Remaining(q, r)
         /\ \A i \in 1 .. Len(d.toks) : d.toks[i] = q.adv + i
         /\ d.toks = <<>> => d.stop
         /\ ~d.begun
<1>1. d \in DecodeSteps(q, r) /\ (d.toks = <<>> => d.stop)
  BY ZenonT(30) DEF ValidSteps
<1>2. PICK k \in Reach(q, r), b \in BOOLEAN : d = Returned(q, k, b)
  <2>1. DecodeSteps(q, r) = {Returned(q, k, b) : k \in Reach(q, r), b \in BOOLEAN}
    BY DEF DecodeSteps, Returned, Reach
  <2>. QED
    BY <1>1, <2>1
<1>3. PICK a \in Nat : a = q.adv
  BY RequestFacts
<1>4. PICK m \in Int : m = Remaining(q, r)
  <2>1. Len(q.tokens) \in Nat /\ TokenLimit[r] \in Nat
    BY RequestFacts, SchedulerAssumption
  <2>. QED
    BY <2>1 DEF Remaining
<1>5. k \in 0 .. Min({m, MaxDraft})
  BY <1>2, <1>4 DEF Reach
<1>6. Min({m, MaxDraft}) \in Int /\ Min({m, MaxDraft}) <= m
  <2>1. PICK n \in Int : n = MaxDraft
    BY SchedulerAssumption
  <2>2. Min({m, n}) \in {m, n} /\ Min({m, n}) <= m
    BY <1>4, <2>1, MinTwo, ZenonT(30)
  <2>3. Min({m, n}) \in Int
    BY <1>4, <2>1, <2>2
  <2>. QED
    BY <2>1, <2>2, <2>3
<1>7. k \in Nat /\ k <= m
  BY <1>4, <1>5, <1>6
<1>8. PICK t : t = [i \in 1 .. k |-> a + i]
  BY ZenonT(30)
<1>9. d = [kind |-> "tokens", toks |-> t, stop |-> b, begun |-> FALSE]
  BY <1>2, <1>3, <1>8 DEF Returned
<1>10. /\ t \in Seq(Nat) /\ Len(t) = k /\ DOMAIN t = 1 .. k
       /\ \A i \in 1 .. k : t[i] = a + i
  BY <1>3, <1>7, <1>8, CountFrom
<1>11. d.kind = "tokens" /\ d.toks = t /\ d.stop = b /\ d.begun = FALSE
  BY <1>9
<1>12. d \in Steps
  BY <1>2, <1>9, <1>10 DEF Steps
<1>. QED
  BY <1>1, <1>2, <1>3, <1>4, <1>7, <1>10, <1>11, <1>12

\* The lane of a multi-token step.
LEMMA StepLane ==
  ASSUME NEW q \in Requests, NEW r \in Req, Rested(r, q), NEW d \in ValidSteps(q, r),
         NEW p \in Requests, Alike(q, p), p.advancing = q.advancing, p.preview = q.preview,
         p.adv = q.adv + Len(d.toks), p.selected = q.selected
  PROVE  Lane(r, p, d)
<1>1. /\ d.kind = "tokens" /\ d.stop \in BOOLEAN
      /\ d.toks \in Seq(Nat) /\ DOMAIN d.toks = 1 .. Len(d.toks)
      /\ Len(d.toks) <= Remaining(q, r)
      /\ \A i \in 1 .. Len(d.toks) : d.toks[i] = q.adv + i
      /\ d.toks = <<>> => d.stop
  BY ValidStepIs
<1>2. PICK k \in Nat : k = Len(d.toks)
  BY <1>1
<1>3. PICK a \in Nat : a = q.adv
  BY RequestFacts
<1>4. PICK h \in Nat : h = Ahead(q)
  BY DEF Ahead
<1>5. PICK l \in Nat : l = TokenLimit[r]
  BY SchedulerAssumption
<1>6. ~q.selected /\ ~q.advancing /\ Len(q.tokens) = a + h
  BY <1>3, <1>4 DEF Rested, Calm
<1>7. Ahead(p) = h
  BY <1>4 DEF Ahead
<1>8. Remaining(q, r) = l - Len(q.tokens) + h
  BY <1>4, <1>5, <1>6 DEF Remaining, Ahead
<1>9. k <= l - (a + h) + h
  BY <1>1, <1>2, <1>6, <1>8
<1>10. a + k <= l /\ (a + h) + k = (a + k) + h /\ (a + h) - h = a
  <2>1. k \in Nat /\ a \in Nat /\ h \in Nat /\ l \in Nat
    BY <1>2, <1>3, <1>4, <1>5
  <2>. QED
    BY <1>9, <2>1
<1>11. p.adv = a + k /\ Len(p.tokens) = a + h
  BY <1>2, <1>3, <1>6 DEF Alike
<1>12. Len(p.tokens) + Len(d.toks) = p.adv + Ahead(p) /\ p.adv <= TokenLimit[r]
  BY <1>2, <1>5, <1>7, <1>10, <1>11, ZenonT(30)
<1>13. \A i \in DOMAIN d.toks : d.toks[i] = Len(p.tokens) - Ahead(p) + i
  <2>1. Len(p.tokens) - Ahead(p) = a
    BY <1>7, <1>10, <1>11, ZenonT(30)
  <2>. QED
    BY <1>1, <1>3, <2>1
<1>. QED
  BY <1>1, <1>6, <1>12, <1>13, ZenonT(30) DEF Lane

\* The lane of a single-token step.
LEMMA AdvancedLane ==
  ASSUME NEW q \in Requests, NEW r, Chosen(r, q), NEW d, d.kind = "advanced",
         NEW p \in Requests, Alike(q, p), p.advancing = q.advancing, p.preview = q.preview,
         p.adv = q.adv + 1, ~p.selected
  PROVE  Lane(r, p, d)
BY DEF Chosen, Alike, Lane

\* A lane that failed.
LEMMA FailedLane ==
  ASSUME NEW r, NEW q, NEW d, d.kind \notin {"advanced", "tokens"}
  PROVE  Lane(r, q, d)
BY ZenonT(30) DEF Lane

-----------------------------------------------------------------------------
(* Several requests, one after the other *)

\* The device was not lost in between, or it was probed.
Later(a, b) == b = a \/ (a = "no" /\ b = "probe")

\* F[i] serves the request x[i]; where calm holds, the device stays as it was.
Server(S, x, F, calm) ==
  /\ x \in [S -> Req] /\ F \in [S -> [Worlds -> Worlds]] /\ calm \in BOOLEAN
  /\ \A i, j \in S : x[i] = x[j] => i = j
  /\ \A i \in S : \A u \in Worlds :
       /\ Serves(u, F[i][u], x[i]) /\ Later(u.lost, F[i][u].lost)
       /\ calm => F[i][u].lost = u.lost

\* g serves the members of S from w on, the last being the one c picks.
Serving(g, S, c, F, w) ==
  /\ g[{}] = w
  /\ \A s \in SUBSET S : s # {} /\ g[s \ {c[s]}] \in Worlds =>
       g[s] = F[c[s]][g[s \ {c[s]}]]

\* Each request of d was served once, in the world u.
Served(w, v, d, x, F, calm) ==
  /\ v \in Worlds /\ Later(w.lost, v.lost)
  /\ \A r \in Req : (\A i \in d : x[i] # r) => v.req[r] = w.req[r]
  /\ \A i \in d : \E u \in Worlds :
       /\ u.req[x[i]] = w.req[x[i]] /\ v.req[x[i]] = F[i][u].req[x[i]]
       /\ Later(w.lost, u.lost) /\ Later(F[i][u].lost, v.lost)
       /\ calm => u.lost = w.lost
  /\ calm => v.lost = w.lost

\* One step more of such a sequence.
LEMMA ServedNext ==
  ASSUME NEW S, NEW x, NEW F, NEW calm, Server(S, x, F, calm),
         NEW w \in Worlds, NEW d \in SUBSET S, NEW k \in S, k \notin d,
         NEW u, Served(w, u, d, x, F, calm), NEW v, v = F[k][u]
  PROVE  Served(w, v, d \cup {k}, x, F, calm)
<1>1. u \in Worlds /\ Later(w.lost, u.lost) /\ (calm => u.lost = w.lost)
  BY DEF Served
<1>2. /\ v \in Worlds /\ \A y \in Req \ {x[k]} : v.req[y] = u.req[y]
      /\ Later(u.lost, v.lost) /\ (calm => v.lost = u.lost)
  BY <1>1 DEF Server, Serves
<1>3. x[k] \in Req /\ \A i \in d : x[i] \in Req /\ x[i] # x[k]
  BY DEF Server
<1>4. Later(w.lost, v.lost)
  BY <1>1, <1>2 DEF Later
<1>5. \A r \in Req : (\A i \in d \cup {k} : x[i] # r) => v.req[r] = w.req[r]
  BY <1>2 DEF Served
<1>6. u.req[x[k]] = w.req[x[k]]
  BY <1>3 DEF Served
<1>7. ASSUME NEW i \in d
      PROVE  \E z \in Worlds :
               /\ z.req[x[i]] = w.req[x[i]] /\ v.req[x[i]] = F[i][z].req[x[i]]
               /\ Later(w.lost, z.lost) /\ Later(F[i][z].lost, v.lost)
               /\ calm => z.lost = w.lost
  <2>1. PICK z \in Worlds :
          /\ z.req[x[i]] = w.req[x[i]] /\ u.req[x[i]] = F[i][z].req[x[i]]
          /\ Later(w.lost, z.lost) /\ Later(F[i][z].lost, u.lost)
          /\ calm => z.lost = w.lost
    BY <1>7 DEF Served
  <2>2. v.req[x[i]] = u.req[x[i]]
    BY <1>2, <1>3, <1>7
  <2>3. Later(F[i][z].lost, v.lost)
    BY <1>2, <2>1 DEF Later
  <2>. QED
    BY <2>1, <2>2, <2>3
<1>8. \E z \in Worlds :
        /\ z.req[x[k]] = w.req[x[k]] /\ v.req[x[k]] = F[k][z].req[x[k]]
        /\ Later(w.lost, z.lost) /\ Later(F[k][z].lost, v.lost)
        /\ calm => z.lost = w.lost
  BY <1>1, <1>6 DEF Later
<1>9. calm => v.lost = w.lost
  BY <1>1, <1>2
<1>. QED
  BY <1>2, <1>4, <1>5, <1>7, <1>8, <1>9 DEF Served

\* A fold of steps, each for a request of its own, serves each of them once.
LEMMA ServedAll ==
  ASSUME NEW S, IsFiniteSet(S), NEW c, Picks(c, S), NEW x, NEW F, NEW calm,
         Server(S, x, F, calm), NEW w \in Worlds, NEW g, Serving(g, S, c, F, w)
  PROVE  Served(w, g[S], S, x, F, calm)
<1>1. PICK J : J = [d \in SUBSET S |-> {v \in Worlds : Served(w, v, d, x, F, calm)}]
  BY ZenonT(30)
<1>2. g[{}] \in J[{}]
  <2>1. Served(w, w, {}, x, F, calm)
    BY DEF Served, Later
  <2>. QED
    BY <1>1, <2>1 DEF Serving
<1>3. ASSUME NEW d \in SUBSET S, d # {}, g[d \ {c[d]}] \in J[d \ {c[d]}]
      PROVE  g[d] \in J[d]
  <2>1. PICK k \in d : k = c[d]
    BY <1>3 DEF Picks
  <2>2. PICK b \in SUBSET S : b = d \ {k}
    BY ZenonT(30)
  <2>3. PICK u : u = g[b]
    OBVIOUS
  <2>4. u \in Worlds /\ Served(w, u, b, x, F, calm)
    BY <1>1, <1>3, <2>1, <2>2, <2>3, ZenonT(30)
  <2>5. g[d] = F[k][u]
    BY <1>3, <2>1, <2>2, <2>3, <2>4, ZenonT(30) DEF Serving
  <2>6. k \in S /\ k \notin b /\ d = b \cup {k}
    BY <2>1, <2>2
  <2>7. Served(w, g[d], b \cup {k}, x, F, calm)
    BY <2>2, <2>4, <2>5, <2>6, ServedNext, ZenonT(30)
  <2>8. g[d] \in Worlds
    BY <2>7 DEF Served
  <2>. QED
    BY <1>1, <2>6, <2>7, <2>8
<1>4. g[S] \in J[S]
  BY <1>2, <1>3, FoldInduction, ZenonT(30)
<1>. QED
  BY <1>1, <1>4

\* g is the function of such a fold.
FoldsWorlds(g, S, c, F, w) ==
  \A s \in SUBSET S : g[s] = IF s = {} THEN w ELSE F[c[s]][g[s \ {c[s]}]]

\* It exists.
LEMMA ServingExists ==
  ASSUME NEW S, IsFiniteSet(S), NEW c, Picks(c, S), NEW x, NEW F, NEW calm,
         Server(S, x, F, calm), NEW w \in Worlds
  PROVE  \E g \in [SUBSET S -> Worlds] : FoldsWorlds(g, S, c, F, w)
<1>1. PICK W : W = Worlds
  OBVIOUS
<1>2. F \in [S -> [W -> W]]
  BY <1>1 DEF Server
<1>3. PICK I : I = [u \in W |-> u]
  BY ZenonT(30)
<1>4. I \in [W -> W]
  BY <1>3
<1>5. PICK H : H = [s \in SUBSET S |-> IF s = {} THEN I ELSE F[c[s]]]
  BY ZenonT(30)
<1>6. H \in [SUBSET S -> [W -> W]]
  BY <1>2, <1>4, <1>5 DEF Picks
<1>7. PICK g \in [SUBSET S -> W] : IsFold(g, S, c, w, H)
  BY <1>1, <1>6, FoldExists, ZenonT(30)
<1>8. \A s \in SUBSET S : g[s] = IF s = {} THEN w ELSE F[c[s]][g[s \ {c[s]}]]
  BY <1>5, <1>7, ZenonT(30) DEF IsFold
<1>9. FoldsWorlds(g, S, c, F, w)
  BY <1>8, ZenonT(30) DEF FoldsWorlds
<1>. QED
  BY <1>1, <1>7, <1>9

\* The members of a set, served in the order a fold over it picks them.
Itself(S) == [r \in S |-> r]

\* The picker of a fold over a set.
Picker(S) == [s \in SUBSET S |-> CHOOSE x \in s : TRUE]

\* It picks a member of every set that is not empty.
LEMMA PickerPicks ==
  ASSUME NEW S
  PROVE  Picks(Picker(S), S)
BY DEF Picks, Picker

\* What a fold over a set of requests gives, by the last of each of them.
SetServing(g, S, F, w) ==
  \A s \in SUBSET S :
    /\ s = {} => g[s] = w
    /\ s # {} /\ g[s \ {CHOOSE x \in s : TRUE}] \in Worlds =>
         g[s] = F[CHOOSE x \in s : TRUE][g[s \ {CHOOSE x \in s : TRUE}]]

\* A fold over a set of requests serves each of them once.
LEMMA SetServed ==
  ASSUME NEW S \in SUBSET Req, NEW F, NEW calm, Server(S, Itself(S), F, calm),
         NEW w \in Worlds, NEW g, SetServing(g, S, F, w)
  PROVE  Served(w, g[S], S, Itself(S), F, calm)
<1>1. IsFiniteSet(S)
  BY SchedulerAssumption, FS_Subset
<1>2. PICK c : c = Picker(S)
  OBVIOUS
<1>3. Picks(c, S) /\ \A s \in SUBSET S : c[s] = CHOOSE x \in s : TRUE
  BY <1>2, PickerPicks, ZenonT(30) DEF Picker
<1>4. Serving(g, S, c, F, w)
  BY <1>3, ZenonT(30) DEF Serving, SetServing
<1>5. PICK x : x = Itself(S)
  OBVIOUS
<1>6. Served(w, g[S], S, x, F, calm)
  BY <1>1, <1>3, <1>4, <1>5, ServedAll
<1>. QED
  BY <1>5, <1>6

\* There is such a fold.
LEMMA SetServingExists ==
  ASSUME NEW S \in SUBSET Req, NEW F, NEW calm, Server(S, Itself(S), F, calm),
         NEW w \in Worlds
  PROVE  \E g \in [SUBSET S -> Worlds] : SetServing(g, S, F, w)
<1>1. IsFiniteSet(S)
  BY SchedulerAssumption, FS_Subset
<1>2. PICK c : c = Picker(S)
  OBVIOUS
<1>3. Picks(c, S) /\ \A s \in SUBSET S : c[s] = CHOOSE x \in s : TRUE
  BY <1>2, PickerPicks DEF Picker
<1>4. PICK x : x = Itself(S)
  OBVIOUS
<1>5. Server(S, x, F, calm)
  BY <1>4
<1>6. PICK g \in [SUBSET S -> Worlds] : FoldsWorlds(g, S, c, F, w)
  BY <1>1, <1>3, <1>5, ServingExists, ZenonT(30)
<1>7. ASSUME NEW s \in SUBSET S
      PROVE  /\ s = {} => g[s] = w
             /\ s # {} /\ g[s \ {CHOOSE y \in s : TRUE}] \in Worlds =>
                  g[s] = F[CHOOSE y \in s : TRUE][g[s \ {CHOOSE y \in s : TRUE}]]
  <2>1. PICK k : k = CHOOSE y \in s : TRUE
    OBVIOUS
  <2>2. c[s] = k
    BY <1>3, <2>1
  <2>3. /\ s = {} => g[s] = w
        /\ s # {} /\ g[s \ {k}] \in Worlds => g[s] = F[k][g[s \ {k}]]
    BY <1>6, <2>2, ZenonT(30) DEF FoldsWorlds
  <2>. QED
    BY <2>1, <2>3
<1>. QED
  BY <1>6, <1>7, ZenonT(30) DEF SetServing

\* What a set of requests was served, each by itself.
LEMMA SetServedEach ==
  ASSUME NEW S \in SUBSET Req, NEW F, NEW calm, NEW w, NEW v,
         Served(w, v, S, Itself(S), F, calm)
  PROVE  /\ v \in Worlds /\ Later(w.lost, v.lost) /\ (calm => v.lost = w.lost)
         /\ \A r \in Req \ S : v.req[r] = w.req[r]
         /\ \A r \in S : \E u \in Worlds :
              /\ u.req[r] = w.req[r] /\ v.req[r] = F[r][u].req[r]
              /\ Later(w.lost, u.lost) /\ Later(F[r][u].lost, v.lost)
              /\ calm => u.lost = w.lost
<1>1. PICK x : x = Itself(S) /\ \A r \in S : x[r] = r
  BY DEF Itself
<1>2. Served(w, v, S, x, F, calm)
  BY <1>1
<1>3. /\ v \in Worlds /\ Later(w.lost, v.lost) /\ (calm => v.lost = w.lost)
      /\ \A r \in Req : (\A i \in S : x[i] # r) => v.req[r] = w.req[r]
      /\ \A i \in S : \E u \in Worlds :
           /\ u.req[x[i]] = w.req[x[i]] /\ v.req[x[i]] = F[i][u].req[x[i]]
           /\ Later(w.lost, u.lost) /\ Later(F[i][u].lost, v.lost)
           /\ calm => u.lost = w.lost
  BY <1>2 DEF Served
<1>. QED
  BY <1>1, <1>3

-----------------------------------------------------------------------------
(* Stopped requests of a set *)

\* The fold behind Asked.
StopStep(g, w, S) ==
  g = [s \in SUBSET S |->
         IF s = {} THEN w
         ELSE CompleteIfStopped(g[s \ {CHOOSE x \in s : TRUE}], CHOOSE x \in s : TRUE)]

\* Asked is that fold.
LEMMA StoppedSetIs ==
  ASSUME NEW w, NEW S
  PROVE  Asked(w, S) = (CHOOSE g : StopStep(g, w, S))[S]
BY DEF Asked, FoldSet, MapThenFoldSet, StopStep

\* The requests of S that were stopped end, nothing else changes.
LEMMA StoppedSet ==
  ASSUME NEW w \in Worlds, NEW S \in SUBSET Req,
         NEW v, v = Asked(w, S)
  PROVE  /\ v \in Worlds /\ v.lost = w.lost
         /\ \A r \in Req \ S : v.req[r] = w.req[r]
         /\ \A r \in S :
              /\ \/ ~Stopped(w, r) /\ v.req[r] = w.req[r]
                 \/ w.req[r].out # "none" /\ v.req[r] = w.req[r]
                 \/ w.req[r].out = "none" /\ Stopped(w, r)
                      /\ Ending(w.req[r], v.req[r], w.lost)
              /\ Stream(r, w.req[r]) => Stream(r, v.req[r])
<1>1. PICK F : F = [r \in S |-> [u \in Worlds |-> CompleteIfStopped(u, r)]]
  BY ZenonT(30)
<1>2. ASSUME NEW r \in S, NEW u \in Worlds
      PROVE  /\ F[r][u] = CompleteIfStopped(u, r)
             /\ Serves(u, F[r][u], r) /\ F[r][u].lost = u.lost
  <2>1. PICK z : z = CompleteIfStopped(u, r)
    OBVIOUS
  <2>2. F[r][u] = z
    BY <1>1, <2>1
  <2>3. CASE u.req[r].out # "none"
    BY <2>1, <2>2, <2>3, CompleteIfStoppedIs, ServesSelf
  <2>4. CASE u.req[r].out = "none"
    BY <2>1, <2>2, <2>4, IfStopped
  <2>. QED
    BY <2>3, <2>4
<1>3. Server(S, Itself(S), F, TRUE)
  <2>0. PICK x : x = Itself(S)
    OBVIOUS
  <2>1. x \in [S -> Req] /\ \A r \in S : x[r] = r
    BY <2>0 DEF Itself
  <2>2. \A i \in S : \A u \in Worlds : F[i][u] \in Worlds
    BY <1>2 DEF Serves
  <2>3. F \in [S -> [Worlds -> Worlds]]
    BY <1>1, <2>2
  <2>4. Server(S, x, F, TRUE)
    BY <1>2, <2>1, <2>3 DEF Server, Later
  <2>. QED
    BY <2>0, <2>4, ZenonT(30)
<1>4. \A g : StopStep(g, w, S) => SetServing(g, S, F, w)
  BY <1>1, ZenonT(30) DEF StopStep, SetServing
<1>5. \E g : StopStep(g, w, S)
  <2>1. PICK g \in [SUBSET S -> Worlds] : SetServing(g, S, F, w)
    BY <1>3, SetServingExists, ZenonT(30)
  <2>2. \A s \in SUBSET S : s # {} =>
          g[s] = CompleteIfStopped(g[s \ {CHOOSE x \in s : TRUE}], CHOOSE x \in s : TRUE)
    BY <1>1, <2>1, ZenonT(30) DEF SetServing
  <2>3. \A s \in SUBSET S : s = {} => g[s] = w
    BY <2>1, ZenonT(30) DEF SetServing
  <2>. QED
    BY <2>1, <2>2, <2>3 DEF StopStep
<1>6. PICK h : h = CHOOSE g : StopStep(g, w, S)
  OBVIOUS
<1>7. StopStep(h, w, S)
  BY <1>5, <1>6
<1>8. v = h[S]
  BY <1>6, StoppedSetIs
<1>9. Served(w, v, S, Itself(S), F, TRUE)
  BY <1>3, <1>4, <1>7, <1>8, SetServed, ZenonT(30)
<1>10. /\ v \in Worlds /\ v.lost = w.lost
       /\ \A r \in Req \ S : v.req[r] = w.req[r]
       /\ \A r \in S : \E u \in Worlds :
            /\ u.req[r] = w.req[r] /\ v.req[r] = F[r][u].req[r] /\ u.lost = w.lost
  <2>1. PICK k : k = TRUE
    BY ZenonT(30)
  <2>2. Served(w, v, S, Itself(S), F, k)
    BY <1>9, <2>1, ZenonT(30)
  <2>3. /\ v \in Worlds /\ Later(w.lost, v.lost) /\ (k => v.lost = w.lost)
        /\ \A r \in Req \ S : v.req[r] = w.req[r]
        /\ \A r \in S : \E u \in Worlds :
             /\ u.req[r] = w.req[r] /\ v.req[r] = F[r][u].req[r]
             /\ Later(w.lost, u.lost) /\ Later(F[r][u].lost, v.lost)
             /\ k => u.lost = w.lost
    BY <2>2, SetServedEach
  <2>. QED
    BY <2>1, <2>3
<1>11. ASSUME NEW r \in S
       PROVE  /\ \/ ~Stopped(w, r) /\ v.req[r] = w.req[r]
                 \/ w.req[r].out # "none" /\ v.req[r] = w.req[r]
                 \/ w.req[r].out = "none" /\ Stopped(w, r)
                      /\ Ending(w.req[r], v.req[r], w.lost)
              /\ Stream(r, w.req[r]) => Stream(r, v.req[r])
  <2>1. PICK u \in Worlds :
          u.req[r] = w.req[r] /\ v.req[r] = F[r][u].req[r] /\ u.lost = w.lost
    BY <1>10
  <2>2. PICK z : z = CompleteIfStopped(u, r)
    OBVIOUS
  <2>3. v.req[r] = z.req[r]
    BY <1>2, <2>1, <2>2
  <2>4. Stopped(u, r) <=> Stopped(w, r)
    BY <2>1 DEF Stopped, IsTerminal
  <2>5. CASE u.req[r].out # "none"
    BY <2>1, <2>2, <2>3, <2>5, CompleteIfStoppedIs
  <2>6. CASE u.req[r].out = "none"
    <3>1. /\ \/ ~Stopped(u, r) /\ z = u
             \/ Stopped(u, r) /\ Ending(u.req[r], z.req[r], u.lost)
          /\ Stream(r, u.req[r]) => Stream(r, z.req[r])
      BY <2>2, <2>6, IfStopped
    <3>. QED
      BY <2>1, <2>3, <2>4, <2>6, <3>1
  <2>. QED
    BY <2>5, <2>6
<1>. QED
  BY <1>10, <1>11

-----------------------------------------------------------------------------
(* Cancelled requests of a set *)

\* CompleteCancelled ends a live request and touches no other.
LEMMA CancelServes ==
  ASSUME NEW w \in Worlds, NEW r \in Req, NEW v, v = CompleteCancelled(w, r)
  PROVE  /\ Serves(w, v, r) /\ v.lost = w.lost
         /\ w.req[r].out = "none" =>
              /\ Ending(w.req[r], v.req[r], w.lost) /\ v.req[r].tokens = w.req[r].tokens
              /\ Stream(r, w.req[r]) => Stream(r, v.req[r])
<1>1. PICK l \in {"no", "probe", "stall"} : l = w.lost
  BY WorldFacts
<1>2. ASSUME NEW o \in {"cancelled", "lost"}, Broken(w, v, r, l, o)
      PROVE  /\ Serves(w, v, r) /\ v.lost = w.lost
             /\ Ending(w.req[r], v.req[r], w.lost) /\ v.req[r].tokens = w.req[r].tokens
             /\ Stream(r, w.req[r]) => Stream(r, v.req[r])
  <2>3. v.req[r].tokens = w.req[r].tokens
    <3>1. PICK p \in Requests : v = Put(w, r, p, l) /\ Closed(w.req[r], p)
      BY <1>2 DEF Broken
    <3>2. v.req[r] = p
      BY <3>1, WorldFacts DEF Put
    <3>. QED
      BY <3>1, <3>2 DEF Closed
  <2>1. /\ Serves(w, v, r) /\ v.lost = l
        /\ o # "misuse" => Ending(w.req[r], v.req[r], l)
        /\ Taken(r, w.req[r]) => Stream(r, v.req[r])
    BY <1>2, BrokenEnds
  <2>2. Stream(r, w.req[r]) => Taken(r, w.req[r])
    BY StreamTaken, WorldFacts
  <2>. QED
    BY <1>1, <1>2, <2>1, <2>2, <2>3
<1>3. CASE w.req[r].out = "none"
  <2>1. PICK o \in {"cancelled", "lost"} : o = IF w.lost = "no" THEN "cancelled" ELSE "lost"
    OBVIOUS
  <2>2. Broken(w, v, r, l, o)
    BY <1>1, <1>3, <2>1, CompleteCancelledIs
  <2>. QED
    BY <1>2, <2>2
<1>4. CASE w.req[r].out # "none" /\ w.lost = "no"
  <2>1. PICK o \in {"cancelled", "lost"} : o = "cancelled"
    OBVIOUS
  <2>2. o \in Outcome
    BY DEF Outcome
  <2>3. Broken(w, v, r, l, o)
    BY <1>1, <1>4, <2>1, <2>2, GivenUp, ZenonT(30) DEF CompleteCancelled
  <2>. QED
    BY <1>2, <1>4, <2>3
<1>5. CASE w.req[r].out # "none" /\ w.lost # "no"
  <2>1. v = EndPublicationWait(w, r)
    <3>1. PICK u : u = EndPublicationWait(w, r)
      OBVIOUS
    <3>2. "cancelled" \in Outcome
      BY DEF Outcome
    <3>3. u.req[r].out # "none"
      BY <1>5, <3>1, <3>2, GivenUp, ZenonT(30)
    <3>4. CompleteFailure(w, r, "lost") = u
      BY <3>1, <3>3 DEF CompleteFailure, IsTerminal
    <3>. QED
      BY <1>5, <3>1, <3>4 DEF CompleteCancelled
  <2>2. PICK p \in Requests :
          v = Put(w, r, p, w.lost) /\ p.buffered = w.req[r].buffered
    BY <2>1, EndPublicationWaitIs
  <2>3. v = With(w, r, p)
    BY <2>2, PutField
  <2>. QED
    BY <1>5, <2>2, <2>3, WithServes
<1>. QED
  BY <1>3, <1>4, <1>5

\* The fold behind CancelledAll.
CancelStep(g, w, S) ==
  g = [s \in SUBSET S |->
         IF s = {} THEN w
         ELSE CompleteCancelled(g[s \ {CHOOSE x \in s : TRUE}], CHOOSE x \in s : TRUE)]

\* CancelledAll is that fold.
LEMMA CancelledSetIs ==
  ASSUME NEW w, NEW S
  PROVE  CancelledAll(w, S) = (CHOOSE g : CancelStep(g, w, S))[S]
BY DEF CancelledAll, FoldSet, MapThenFoldSet, CancelStep

\* The live requests of S end.
LEMMA CancelledSet ==
  ASSUME NEW w \in Worlds, NEW S \in SUBSET Req,
         NEW v, v = CancelledAll(w, S)
  PROVE  /\ v \in Worlds /\ v.lost = w.lost
         /\ \A r \in Req \ S : v.req[r] = w.req[r]
         /\ \A r \in S : w.req[r].out = "none" =>
              /\ Ending(w.req[r], v.req[r], w.lost) /\ v.req[r].tokens = w.req[r].tokens
              /\ Stream(r, w.req[r]) => Stream(r, v.req[r])
<1>1. PICK F : F = [r \in S |-> [u \in Worlds |-> CompleteCancelled(u, r)]]
  BY ZenonT(30)
<1>2. ASSUME NEW r \in S, NEW u \in Worlds
      PROVE  /\ F[r][u] = CompleteCancelled(u, r)
             /\ Serves(u, F[r][u], r) /\ F[r][u].lost = u.lost
  <2>1. PICK z : z = CompleteCancelled(u, r)
    OBVIOUS
  <2>2. F[r][u] = z
    BY <1>1, <2>1
  <2>. QED
    BY <2>1, <2>2, CancelServes
<1>3. Server(S, Itself(S), F, TRUE)
  <2>0. PICK x : x = Itself(S)
    OBVIOUS
  <2>1. x \in [S -> Req] /\ \A r \in S : x[r] = r
    BY <2>0 DEF Itself
  <2>2. \A i \in S : \A u \in Worlds : F[i][u] \in Worlds
    BY <1>2 DEF Serves
  <2>3. F \in [S -> [Worlds -> Worlds]]
    BY <1>1, <2>2
  <2>4. Server(S, x, F, TRUE)
    BY <1>2, <2>1, <2>3 DEF Server, Later
  <2>. QED
    BY <2>0, <2>4, ZenonT(30)
<1>4. \A g : CancelStep(g, w, S) => SetServing(g, S, F, w)
  BY <1>1, ZenonT(30) DEF CancelStep, SetServing
<1>5. \E g : CancelStep(g, w, S)
  <2>1. PICK g \in [SUBSET S -> Worlds] : SetServing(g, S, F, w)
    BY <1>3, SetServingExists, ZenonT(30)
  <2>2. \A s \in SUBSET S : s # {} =>
          g[s] = CompleteCancelled(g[s \ {CHOOSE x \in s : TRUE}], CHOOSE x \in s : TRUE)
    BY <1>1, <2>1, ZenonT(30) DEF SetServing
  <2>3. \A s \in SUBSET S : s = {} => g[s] = w
    BY <2>1, ZenonT(30) DEF SetServing
  <2>. QED
    BY <2>1, <2>2, <2>3 DEF CancelStep
<1>6. PICK h : h = CHOOSE g : CancelStep(g, w, S)
  OBVIOUS
<1>7. CancelStep(h, w, S)
  BY <1>5, <1>6
<1>8. v = h[S]
  BY <1>6, CancelledSetIs
<1>9. Served(w, v, S, Itself(S), F, TRUE)
  BY <1>3, <1>4, <1>7, <1>8, SetServed, ZenonT(30)
<1>10. /\ v \in Worlds /\ v.lost = w.lost
       /\ \A r \in Req \ S : v.req[r] = w.req[r]
       /\ \A r \in S : \E u \in Worlds :
            /\ u.req[r] = w.req[r] /\ v.req[r] = F[r][u].req[r] /\ u.lost = w.lost
  <2>1. PICK k : k = TRUE
    BY ZenonT(30)
  <2>2. Served(w, v, S, Itself(S), F, k)
    BY <1>9, <2>1, ZenonT(30)
  <2>3. /\ v \in Worlds /\ Later(w.lost, v.lost) /\ (k => v.lost = w.lost)
        /\ \A r \in Req \ S : v.req[r] = w.req[r]
        /\ \A r \in S : \E u \in Worlds :
             /\ u.req[r] = w.req[r] /\ v.req[r] = F[r][u].req[r]
             /\ Later(w.lost, u.lost) /\ Later(F[r][u].lost, v.lost)
             /\ k => u.lost = w.lost
    BY <2>2, SetServedEach
  <2>. QED
    BY <2>1, <2>3
<1>11. ASSUME NEW r \in S, w.req[r].out = "none"
       PROVE  /\ Ending(w.req[r], v.req[r], w.lost) /\ v.req[r].tokens = w.req[r].tokens
              /\ Stream(r, w.req[r]) => Stream(r, v.req[r])
  <2>1. PICK u \in Worlds :
          u.req[r] = w.req[r] /\ v.req[r] = F[r][u].req[r] /\ u.lost = w.lost
    BY <1>10
  <2>2. PICK z : z = CompleteCancelled(u, r)
    OBVIOUS
  <2>3. v.req[r] = z.req[r]
    BY <1>2, <2>1, <2>2
  <2>4. /\ Ending(u.req[r], z.req[r], u.lost) /\ z.req[r].tokens = u.req[r].tokens
        /\ Stream(r, u.req[r]) => Stream(r, z.req[r])
    BY <1>11, <2>1, <2>2, CancelServes
  <2>. QED
    BY <2>1, <2>3, <2>4
<1>. QED
  BY <1>10, <1>11

-----------------------------------------------------------------------------
(* The requests of a sequence, in their order *)

\* What a fold over a sequence of requests gives, by the last of each prefix.
SeqServing(g, s, G, w) ==
  \A d \in SUBSET (DOMAIN s) :
    /\ d = {} => g[d] = w
    /\ d # {} /\ g[d \ {Max(d)}] \in Worlds => g[d] = G[s[Max(d)]][g[d \ {Max(d)}]]

\* Each position serves the request there.
Along(s, G) == [i \in DOMAIN s |-> G[s[i]]]

\* Steps for distinct requests of a sequence are steps for its indices.
LEMMA AlongServer ==
  ASSUME NEW s \in Seq(Req), Distinct(s), NEW G, NEW calm,
         Server(ToSet(s), Itself(ToSet(s)), G, calm)
  PROVE  Server(DOMAIN s, s, Along(s, G), calm)
<1>1. PICK x : x = Itself(ToSet(s))
  OBVIOUS
<1>2. \A r \in ToSet(s) : x[r] = r
  BY <1>1 DEF Itself
<1>3. \A i \in DOMAIN s : s[i] \in ToSet(s) /\ s[i] \in Req
  BY SeqFacts
<1>4. Server(ToSet(s), x, G, calm)
  BY <1>1
<1>5. /\ G \in [ToSet(s) -> [Worlds -> Worlds]] /\ calm \in BOOLEAN
      /\ \A r \in ToSet(s) : \A u \in Worlds :
           /\ Serves(u, G[r][u], r) /\ Later(u.lost, G[r][u].lost)
           /\ calm => G[r][u].lost = u.lost
  BY <1>2, <1>4 DEF Server
<1>6. PICK F : F = Along(s, G)
  OBVIOUS
<1>7. \A i \in DOMAIN s : F[i] = G[s[i]]
  BY <1>6 DEF Along
<1>8. F \in [DOMAIN s -> [Worlds -> Worlds]]
  BY <1>3, <1>5, <1>6 DEF Along
<1>9. s \in [DOMAIN s -> Req]
  BY SeqFacts
<1>10. \A i, j \in DOMAIN s : s[i] = s[j] => i = j
  BY DEF Distinct
<1>11. \A i \in DOMAIN s : \A u \in Worlds :
         /\ Serves(u, F[i][u], s[i]) /\ Later(u.lost, F[i][u].lost)
         /\ calm => F[i][u].lost = u.lost
  BY <1>3, <1>5, <1>7
<1>12. Server(DOMAIN s, s, F, calm)
  BY <1>5, <1>8, <1>9, <1>10, <1>11 DEF Server
<1>. QED
  BY <1>6, <1>12

\* What a set of requests was served, each by itself.
EachServed(w, v, S, G, calm) ==
  /\ v \in Worlds /\ Later(w.lost, v.lost) /\ (calm => v.lost = w.lost)
  /\ \A r \in Req \ S : v.req[r] = w.req[r]
  /\ \A r \in S : \E u \in Worlds :
       /\ u.req[r] = w.req[r] /\ v.req[r] = G[r][u].req[r]
       /\ Later(w.lost, u.lost) /\ Later(G[r][u].lost, v.lost)
       /\ calm => u.lost = w.lost

\* A fold over a sequence of distinct requests serves each of them once.
LEMMA SeqServed ==
  ASSUME NEW s \in Seq(Req), Distinct(s), NEW G, NEW calm,
         Server(ToSet(s), Itself(ToSet(s)), G, calm),
         NEW w \in Worlds, NEW g, SeqServing(g, s, G, w)
  PROVE  EachServed(w, g[DOMAIN s], ToSet(s), G, calm)
<1>1. PICK n \in Nat : n = Len(s) /\ DOMAIN s = 1 .. n /\ \A i \in 1 .. n : s[i] \in Req
  BY SeqFacts
<1>2. PICK c : c = Greatest(n)
  OBVIOUS
<1>3. Picks(c, 1 .. n) /\ IsFiniteSet(1 .. n)
  BY <1>2, GreatestPicks
<1>4. \A d \in SUBSET (1 .. n) : c[d] = Max(d)
  BY <1>2 DEF Greatest
<1>5. PICK F : F = Along(s, G)
  OBVIOUS
<1>6. Server(1 .. n, s, F, calm)
  BY <1>1, <1>5, AlongServer
<1>7. \A i \in 1 .. n : F[i] = G[s[i]]
  BY <1>1, <1>5 DEF Along
<1>8. Serving(g, 1 .. n, c, F, w)
  <2>1. g[{}] = w
    BY ZenonT(30) DEF SeqServing
  <2>2. ASSUME NEW d \in SUBSET (1 .. n), d # {}, g[d \ {c[d]}] \in Worlds
        PROVE  g[d] = F[c[d]][g[d \ {c[d]}]]
    <3>1. PICK k \in 1 .. n : k = c[d] /\ k = Max(d)
      BY <1>3, <1>4, <2>2 DEF Picks
    <3>2. g[d] = G[s[k]][g[d \ {k}]]
      BY <1>1, <2>2, <3>1, ZenonT(30) DEF SeqServing
    <3>. QED
      BY <1>7, <3>1, <3>2
  <2>. QED
    BY <2>1, <2>2, ZenonT(30) DEF Serving
<1>9. PICK v : v = g[1 .. n]
  OBVIOUS
<1>10. Served(w, v, 1 .. n, s, F, calm)
  BY <1>3, <1>6, <1>8, <1>9, ServedAll
<1>11. /\ v \in Worlds /\ Later(w.lost, v.lost) /\ (calm => v.lost = w.lost)
       /\ \A r \in Req : (\A i \in 1 .. n : s[i] # r) => v.req[r] = w.req[r]
       /\ \A i \in 1 .. n : \E u \in Worlds :
            /\ u.req[s[i]] = w.req[s[i]] /\ v.req[s[i]] = F[i][u].req[s[i]]
            /\ Later(w.lost, u.lost) /\ Later(F[i][u].lost, v.lost)
            /\ calm => u.lost = w.lost
  BY <1>10 DEF Served
<1>12. ToSet(s) = {s[i] : i \in 1 .. n}
  BY <1>1, SeqFacts
<1>13. ASSUME NEW r \in ToSet(s)
       PROVE  \E u \in Worlds :
                /\ u.req[r] = w.req[r] /\ v.req[r] = G[r][u].req[r]
                /\ Later(w.lost, u.lost) /\ Later(G[r][u].lost, v.lost)
                /\ calm => u.lost = w.lost
  <2>1. PICK i \in 1 .. n : s[i] = r
    BY <1>12
  <2>. QED
    BY <1>7, <1>11, <2>1
<1>14. EachServed(w, v, ToSet(s), G, calm)
  BY <1>11, <1>12, <1>13 DEF EachServed
<1>. QED
  BY <1>1, <1>9, <1>14

\* There is such a fold.
LEMMA SeqServingExists ==
  ASSUME NEW s \in Seq(Req), Distinct(s), NEW G, NEW calm,
         Server(ToSet(s), Itself(ToSet(s)), G, calm), NEW w \in Worlds
  PROVE  \E g \in [SUBSET (DOMAIN s) -> Worlds] : SeqServing(g, s, G, w)
<1>1. PICK n \in Nat : n = Len(s) /\ DOMAIN s = 1 .. n /\ \A i \in 1 .. n : s[i] \in Req
  BY SeqFacts
<1>2. PICK c : c = Greatest(n)
  OBVIOUS
<1>3. Picks(c, 1 .. n) /\ IsFiniteSet(1 .. n)
  BY <1>2, GreatestPicks
<1>4. \A d \in SUBSET (1 .. n) : c[d] = Max(d)
  BY <1>2 DEF Greatest
<1>5. PICK F : F = Along(s, G)
  OBVIOUS
<1>6. Server(1 .. n, s, F, calm)
  BY <1>1, <1>5, AlongServer
<1>7. \A i \in 1 .. n : F[i] = G[s[i]]
  BY <1>1, <1>5 DEF Along
<1>8. PICK g \in [SUBSET (1 .. n) -> Worlds] : FoldsWorlds(g, 1 .. n, c, F, w)
  BY <1>3, <1>6, ServingExists, ZenonT(30)
<1>9. ASSUME NEW d \in SUBSET (1 .. n)
      PROVE  /\ d = {} => g[d] = w
             /\ d # {} /\ g[d \ {Max(d)}] \in Worlds => g[d] = G[s[Max(d)]][g[d \ {Max(d)}]]
  <2>1. CASE d = {}
    BY <1>8, <2>1, ZenonT(30) DEF FoldsWorlds
  <2>2. CASE d # {}
    <3>1. PICK k \in 1 .. n : k = c[d] /\ k = Max(d)
      BY <1>3, <1>4, <2>2 DEF Picks
    <3>2. g[d] = F[k][g[d \ {k}]]
      BY <1>8, <2>2, <3>1, ZenonT(30) DEF FoldsWorlds
    <3>. QED
      BY <1>7, <2>2, <3>1, <3>2, ZenonT(30)
  <2>. QED
    BY <2>1, <2>2
<1>10. SeqServing(g, s, G, w)
  BY <1>1, <1>9, ZenonT(30) DEF SeqServing
<1>. QED
  BY <1>1, <1>10

-----------------------------------------------------------------------------
(* Fields beside a request's output *)

\* p has published, withheld and selected what q has, and has its session.
Level(q, p) ==
  /\ SameClient(q, p)
  /\ p.out = q.out /\ p.counted = q.counted /\ p.session = q.session
  /\ p.adv = q.adv /\ p.tokens = q.tokens /\ p.held = q.held /\ p.matched = q.matched
  /\ p.pieces = q.pieces /\ p.buffered = q.buffered
  /\ p.selected = q.selected /\ p.advancing = q.advancing /\ p.preview = q.preview

\* What a change outside the output keeps of a request.
LEMMA LevelFacts ==
  ASSUME NEW q, NEW p, Level(q, p)
  PROVE  /\ Keeps(q, p)
         /\ \A r : (Stream(r, q) => Stream(r, p)) /\ (Calm(r, q) => Calm(r, p))
                   /\ (Chosen(r, q) => Chosen(r, p))
         /\ \A r, d : Lane(r, q, d) => Lane(r, p, d)
         /\ Over(q) => Over(p)
<1>1. Keeps(q, p)
  BY DEF Level, Keeps, SameClient
<1>2. \A r : Stream(r, q) => Stream(r, p)
  BY ZenonT(30) DEF Level, Stream, Sent, SameClient
<1>3. Ahead(p) = Ahead(q)
  BY DEF Level, Ahead
<1>4. \A r : Calm(r, q) => Calm(r, p)
  BY <1>3 DEF Level, Calm
<1>5. \A r : Chosen(r, q) => Chosen(r, p)
  BY DEF Level, Chosen
<1>6. \A r, d : Lane(r, q, d) => Lane(r, p, d)
  BY <1>3, ZenonT(30) DEF Level, Lane
<1>7. Over(q) => Over(p)
  BY DEF Level, Over
<1>. QED
  BY <1>1, <1>2, <1>4, <1>5, <1>6, <1>7

\* Two such changes make one.
LEMMA LevelTrans ==
  ASSUME NEW q, NEW a, NEW p, Level(q, a), Level(a, p)
  PROVE  Level(q, p)
BY DEF Level, SameClient

\* What a request waits for to be published.
PubState == {"no", "waiting", "over"}

\* The states of a request's capture.
CaptureState == {"idle", "running"}

\* One request of a world replaced by one that is level with it.
LEMMA LevelServes ==
  ASSUME NEW w \in Worlds, NEW r \in Req, NEW p \in Requests, Level(w.req[r], p),
         NEW v, v = With(w, r, p)
  PROVE  v \in Worlds /\ Serves(w, v, r) /\ v.lost = w.lost /\ v.req[r] = p
<1>1. p.buffered = w.req[r].buffered
  BY DEF Level
<1>2. Serves(w, v, r) /\ v.req[r] = p /\ v.lost = w.lost
  BY <1>1, WithServes
<1>. QED
  BY <1>2 DEF Serves

\* A request that follows a leader, or none.
Led(q, l) == [q EXCEPT !.leader = l]

\* So in a world.
LedIn(w, r, l) == [w EXCEPT !.req[r].leader = l]

\* What remains of a request that takes up a leader.
LEMMA LedIs ==
  ASSUME NEW q \in Requests, NEW l \in Req \cup {NoReq}, NEW p, p = Led(q, l)
  PROVE  /\ p \in Requests /\ Level(q, p) /\ p.leader = l
         /\ p.lease = q.lease /\ p.due = q.due /\ p.pos = q.pos /\ p.capture = q.capture /\ p.pub = q.pub
<1>1. q \in Records
  BY RequestFacts
<1>2. p \in Records
  BY <1>1, ZenonT(60) DEF Led, Records, PubState, CaptureState
<1>3. /\ p.leader = l /\ Level(q, p)
      /\ p.lease = q.lease /\ p.due = q.due /\ p.pos = q.pos /\ p.capture = q.capture /\ p.pub = q.pub
  BY <1>1 DEF Led, Records, Level, SameClient
<1>4. p \in Requests
  BY <1>2, <1>3, RequestWith DEF Level
<1>. QED
  BY <1>3, <1>4

\* The step serves this request alone.
LEMMA LedServes ==
  ASSUME NEW w \in Worlds, NEW r \in Req, NEW l \in Req \cup {NoReq}, NEW v, v = LedIn(w, r, l)
  PROVE  /\ v \in Worlds /\ Serves(w, v, r) /\ v.lost = w.lost
         /\ Level(w.req[r], v.req[r]) /\ v.req[r].leader = l
         /\ v.req[r].lease = w.req[r].lease /\ v.req[r].due = w.req[r].due
         /\ v.req[r].pos = w.req[r].pos /\ v.req[r].capture = w.req[r].capture
         /\ v.req[r].pub = w.req[r].pub
<1>1. PICK q \in Requests : q = w.req[r]
  BY WorldFacts
<1>2. PICK p : p = Led(q, l)
  OBVIOUS
<1>3. /\ p \in Requests /\ Level(q, p) /\ p.leader = l
      /\ p.lease = q.lease /\ p.due = q.due /\ p.pos = q.pos /\ p.capture = q.capture /\ p.pub = q.pub
  BY <1>2, LedIs
<1>4. v = With(w, r, p)
  BY <1>1, <1>2, ZenonT(30) DEF With, LedIn, Led
<1>5. v \in Worlds /\ Serves(w, v, r) /\ v.lost = w.lost /\ v.req[r] = p
  BY <1>1, <1>3, <1>4, LevelServes
<1>. QED
  BY <1>1, <1>3, <1>5

\* A request that follows its leader to a position.
LedTo(q, n) == [q EXCEPT !.leadPos = n]

\* So in a world.
LedToIn(w, r, n) == [w EXCEPT !.req[r].leadPos = n]

\* What remains of a request that takes up a position to follow to.
LEMMA LedToIs ==
  ASSUME NEW q \in Requests, NEW n \in Nat, NEW p, p = LedTo(q, n)
  PROVE  /\ p \in Requests /\ Level(q, p) /\ p.leadPos = n
         /\ p.lease = q.lease /\ p.due = q.due /\ p.pos = q.pos /\ p.capture = q.capture /\ p.pub = q.pub
<1>1. q \in Records
  BY RequestFacts
<1>2. p \in Records
  BY <1>1, ZenonT(60) DEF LedTo, Records, PubState, CaptureState
<1>3. /\ p.leadPos = n /\ Level(q, p)
      /\ p.lease = q.lease /\ p.due = q.due /\ p.pos = q.pos /\ p.capture = q.capture /\ p.pub = q.pub
  BY <1>1 DEF LedTo, Records, Level, SameClient
<1>4. p \in Requests
  BY <1>2, <1>3, RequestWith DEF Level
<1>. QED
  BY <1>3, <1>4

\* The step serves this request alone.
LEMMA LedToServes ==
  ASSUME NEW w \in Worlds, NEW r \in Req, NEW n \in Nat, NEW v, v = LedToIn(w, r, n)
  PROVE  /\ v \in Worlds /\ Serves(w, v, r) /\ v.lost = w.lost
         /\ Level(w.req[r], v.req[r]) /\ v.req[r].leadPos = n
         /\ v.req[r].lease = w.req[r].lease /\ v.req[r].due = w.req[r].due
         /\ v.req[r].pos = w.req[r].pos /\ v.req[r].capture = w.req[r].capture
         /\ v.req[r].pub = w.req[r].pub
<1>1. PICK q \in Requests : q = w.req[r]
  BY WorldFacts
<1>2. PICK p : p = LedTo(q, n)
  OBVIOUS
<1>3. /\ p \in Requests /\ Level(q, p) /\ p.leadPos = n
      /\ p.lease = q.lease /\ p.due = q.due /\ p.pos = q.pos /\ p.capture = q.capture /\ p.pub = q.pub
  BY <1>2, LedToIs
<1>4. v = With(w, r, p)
  BY <1>1, <1>2, ZenonT(30) DEF With, LedToIn, LedTo
<1>5. v \in Worlds /\ Serves(w, v, r) /\ v.lost = w.lost /\ v.req[r] = p
  BY <1>1, <1>3, <1>4, LevelServes
<1>. QED
  BY <1>1, <1>3, <1>5

\* A request whose prefix has been considered.
Considered(q) == [q EXCEPT !.considered = TRUE]

\* So in a world.
ConsideredIn(w, r) == [w EXCEPT !.req[r].considered = TRUE]

\* What remains of a considered request.
LEMMA ConsideredIs ==
  ASSUME NEW q \in Requests, NEW p, p = Considered(q)
  PROVE  /\ p \in Requests /\ Level(q, p) /\ p.considered = TRUE
         /\ p.lease = q.lease /\ p.due = q.due /\ p.pos = q.pos /\ p.capture = q.capture /\ p.pub = q.pub
<1>1. q \in Records
  BY RequestFacts
<1>2. PICK b \in BOOLEAN : b = TRUE
  BY ZenonT(30)
<1>3. p = [q EXCEPT !.considered = b]
  BY <1>2 DEF Considered
<1>4. p \in Records
  BY <1>1, <1>2, <1>3, ZenonT(60) DEF Records
<1>5. /\ p.considered = b /\ Level(q, p)
      /\ p.lease = q.lease /\ p.due = q.due /\ p.pos = q.pos /\ p.capture = q.capture /\ p.pub = q.pub
  BY <1>1, <1>3 DEF Records, Level, SameClient
<1>6. p \in Requests
  BY <1>4, <1>5, RequestWith DEF Level
<1>. QED
  BY <1>2, <1>5, <1>6

\* The step serves this request alone.
LEMMA ConsideredServes ==
  ASSUME NEW w \in Worlds, NEW r \in Req, NEW v, v = ConsideredIn(w, r)
  PROVE  /\ v \in Worlds /\ Serves(w, v, r) /\ v.lost = w.lost
         /\ Level(w.req[r], v.req[r]) /\ v.req[r].considered = TRUE
         /\ v.req[r].lease = w.req[r].lease /\ v.req[r].due = w.req[r].due
         /\ v.req[r].pos = w.req[r].pos /\ v.req[r].capture = w.req[r].capture
         /\ v.req[r].pub = w.req[r].pub
<1>1. PICK q \in Requests : q = w.req[r]
  BY WorldFacts
<1>2. PICK p : p = Considered(q)
  OBVIOUS
<1>3. /\ p \in Requests /\ Level(q, p) /\ p.considered = TRUE
      /\ p.lease = q.lease /\ p.due = q.due /\ p.pos = q.pos /\ p.capture = q.capture /\ p.pub = q.pub
  BY <1>2, ConsideredIs, ZenonT(30)
<1>4. v = With(w, r, p)
  BY <1>1, <1>2, ZenonT(30) DEF With, ConsideredIn, Considered
<1>5. v \in Worlds /\ Serves(w, v, r) /\ v.lost = w.lost /\ v.req[r] = p
  BY <1>1, <1>3, <1>4, LevelServes
<1>. QED
  BY <1>1, <1>3, <1>5

\* A request with a publication state.
Parked(q, k) == [q EXCEPT !.pub = k]

\* So in a world.
ParkedIn(w, r, k) == [w EXCEPT !.req[r].pub = k]

\* What remains of a request whose publication state changes.
LEMMA ParkedIs ==
  ASSUME NEW q \in Requests, NEW k \in PubState, NEW p, p = Parked(q, k)
  PROVE  /\ p \in Requests /\ Level(q, p) /\ p.pub = k
         /\ p.lease = q.lease /\ p.due = q.due /\ p.pos = q.pos /\ p.capture = q.capture
<1>1. q \in Records
  BY RequestFacts
<1>2. p \in Records
  BY <1>1, ZenonT(60) DEF Parked, Records, PubState, CaptureState
<1>3. /\ p.pub = k /\ Level(q, p)
      /\ p.lease = q.lease /\ p.due = q.due /\ p.pos = q.pos /\ p.capture = q.capture
  BY <1>1 DEF Parked, Records, Level, SameClient
<1>4. p \in Requests
  BY <1>2, <1>3, RequestWith DEF Level
<1>. QED
  BY <1>3, <1>4

\* The step serves this request alone.
LEMMA ParkedServes ==
  ASSUME NEW w \in Worlds, NEW r \in Req, NEW k \in PubState, NEW v, v = ParkedIn(w, r, k)
  PROVE  /\ v \in Worlds /\ Serves(w, v, r) /\ v.lost = w.lost
         /\ Level(w.req[r], v.req[r]) /\ v.req[r].pub = k
         /\ v.req[r].lease = w.req[r].lease /\ v.req[r].due = w.req[r].due
         /\ v.req[r].pos = w.req[r].pos /\ v.req[r].capture = w.req[r].capture
<1>1. PICK q \in Requests : q = w.req[r]
  BY WorldFacts
<1>2. PICK p : p = Parked(q, k)
  OBVIOUS
<1>3. /\ p \in Requests /\ Level(q, p) /\ p.pub = k
      /\ p.lease = q.lease /\ p.due = q.due /\ p.pos = q.pos /\ p.capture = q.capture
  BY <1>2, ParkedIs
<1>4. v = With(w, r, p)
  BY <1>1, <1>2, ZenonT(30) DEF With, ParkedIn, Parked
<1>5. v \in Worlds /\ Serves(w, v, r) /\ v.lost = w.lost /\ v.req[r] = p
  BY <1>1, <1>3, <1>4, LevelServes
<1>. QED
  BY <1>1, <1>3, <1>5

\* A request of an age in the waiting list.
Aged(q, n) == [q EXCEPT !.age = n]

\* So in a world.
AgedIn(w, r, n) == [w EXCEPT !.req[r].age = n]

\* What remains of a request that ages.
LEMMA AgedIs ==
  ASSUME NEW q \in Requests, NEW n \in Nat, NEW p, p = Aged(q, n)
  PROVE  /\ p \in Requests /\ Level(q, p) /\ p.age = n
         /\ p.lease = q.lease /\ p.due = q.due /\ p.pos = q.pos /\ p.capture = q.capture /\ p.pub = q.pub
<1>1. q \in Records
  BY RequestFacts
<1>2. p \in Records
  BY <1>1, ZenonT(60) DEF Aged, Records, PubState, CaptureState
<1>3. /\ p.age = n /\ Level(q, p)
      /\ p.lease = q.lease /\ p.due = q.due /\ p.pos = q.pos /\ p.capture = q.capture /\ p.pub = q.pub
  BY <1>1 DEF Aged, Records, Level, SameClient
<1>4. p \in Requests
  BY <1>2, <1>3, RequestWith DEF Level
<1>. QED
  BY <1>3, <1>4

\* The step serves this request alone.
LEMMA AgedServes ==
  ASSUME NEW w \in Worlds, NEW r \in Req, NEW n \in Nat, NEW v, v = AgedIn(w, r, n)
  PROVE  /\ v \in Worlds /\ Serves(w, v, r) /\ v.lost = w.lost
         /\ Level(w.req[r], v.req[r]) /\ v.req[r].age = n
         /\ v.req[r].lease = w.req[r].lease /\ v.req[r].due = w.req[r].due
         /\ v.req[r].pos = w.req[r].pos /\ v.req[r].capture = w.req[r].capture
         /\ v.req[r].pub = w.req[r].pub
<1>1. PICK q \in Requests : q = w.req[r]
  BY WorldFacts
<1>2. PICK p : p = Aged(q, n)
  OBVIOUS
<1>3. /\ p \in Requests /\ Level(q, p) /\ p.age = n
      /\ p.lease = q.lease /\ p.due = q.due /\ p.pos = q.pos /\ p.capture = q.capture /\ p.pub = q.pub
  BY <1>2, AgedIs
<1>4. v = With(w, r, p)
  BY <1>1, <1>2, ZenonT(30) DEF With, AgedIn, Aged
<1>5. v \in Worlds /\ Serves(w, v, r) /\ v.lost = w.lost /\ v.req[r] = p
  BY <1>1, <1>3, <1>4, LevelServes
<1>. QED
  BY <1>1, <1>3, <1>5

\* A request prefilled to a position.
Prefilled(q, n) == [q EXCEPT !.pos = n]

\* So in a world.
PrefilledIn(w, r, n) == [w EXCEPT !.req[r].pos = n]

\* What remains of a request that is prefilled further.
LEMMA PrefilledIs ==
  ASSUME NEW q \in Requests, NEW n \in Nat, NEW p, p = Prefilled(q, n)
  PROVE  /\ p \in Requests /\ Level(q, p) /\ p.pos = n
         /\ p.lease = q.lease /\ p.due = q.due /\ p.capture = q.capture /\ p.pub = q.pub
<1>1. q \in Records
  BY RequestFacts
<1>2. p \in Records
  BY <1>1, ZenonT(60) DEF Prefilled, Records, PubState, CaptureState
<1>3. /\ p.pos = n /\ Level(q, p)
      /\ p.lease = q.lease /\ p.due = q.due /\ p.capture = q.capture /\ p.pub = q.pub
  BY <1>1 DEF Prefilled, Records, Level, SameClient
<1>4. p \in Requests
  BY <1>2, <1>3, RequestWith DEF Level
<1>. QED
  BY <1>3, <1>4

\* The step serves this request alone.
LEMMA PrefilledServes ==
  ASSUME NEW w \in Worlds, NEW r \in Req, NEW n \in Nat, NEW v, v = PrefilledIn(w, r, n)
  PROVE  /\ v \in Worlds /\ Serves(w, v, r) /\ v.lost = w.lost
         /\ Level(w.req[r], v.req[r]) /\ v.req[r].pos = n
         /\ v.req[r].lease = w.req[r].lease /\ v.req[r].due = w.req[r].due
         /\ v.req[r].capture = w.req[r].capture /\ v.req[r].pub = w.req[r].pub
<1>1. PICK q \in Requests : q = w.req[r]
  BY WorldFacts
<1>2. PICK p : p = Prefilled(q, n)
  OBVIOUS
<1>3. /\ p \in Requests /\ Level(q, p) /\ p.pos = n
      /\ p.lease = q.lease /\ p.due = q.due /\ p.capture = q.capture /\ p.pub = q.pub
  BY <1>2, PrefilledIs
<1>4. v = With(w, r, p)
  BY <1>1, <1>2, ZenonT(30) DEF With, PrefilledIn, Prefilled
<1>5. v \in Worlds /\ Serves(w, v, r) /\ v.lost = w.lost /\ v.req[r] = p
  BY <1>1, <1>3, <1>4, LevelServes
<1>. QED
  BY <1>1, <1>3, <1>5

\* A request with a capture state.
Captured(q, k) == [q EXCEPT !.capture = k]

\* What remains of a request whose capture moves on.
LEMMA CapturedIs ==
  ASSUME NEW q \in Requests, NEW k \in CaptureState, NEW p, p = Captured(q, k)
  PROVE  /\ p \in Requests /\ Level(q, p) /\ p.capture = k
         /\ p.lease = q.lease /\ p.due = q.due /\ p.pos = q.pos /\ p.pub = q.pub
<1>1. q \in Records
  BY RequestFacts
<1>2. p \in Records
  BY <1>1, ZenonT(60) DEF Captured, Records, PubState, CaptureState
<1>3. /\ p.capture = k /\ Level(q, p)
      /\ p.lease = q.lease /\ p.due = q.due /\ p.pos = q.pos /\ p.pub = q.pub
  BY <1>1 DEF Captured, Records, Level, SameClient
<1>4. p \in Requests
  BY <1>2, <1>3, RequestWith DEF Level
<1>. QED
  BY <1>3, <1>4

\* A request that is due.
MadeDue(q) == [q EXCEPT !.due = TRUE]

\* So in a world.
MadeDueIn(w, r) == [w EXCEPT !.req[r].due = TRUE]

\* What remains of a request that becomes due.
LEMMA MadeDueIs ==
  ASSUME NEW q \in Requests, NEW p, p = MadeDue(q)
  PROVE  /\ p \in Requests /\ Level(q, p) /\ p.due = TRUE
         /\ p.lease = q.lease /\ p.pos = q.pos /\ p.capture = q.capture /\ p.pub = q.pub
<1>1. q \in Records
  BY RequestFacts
<1>2. PICK b \in BOOLEAN : b = TRUE
  BY ZenonT(30)
<1>3. p = [q EXCEPT !.due = b]
  BY <1>2 DEF MadeDue
<1>4. p \in Records
  BY <1>1, <1>2, <1>3, ZenonT(60) DEF Records
<1>5. /\ p.due = b /\ Level(q, p)
      /\ p.lease = q.lease /\ p.pos = q.pos /\ p.capture = q.capture /\ p.pub = q.pub
  BY <1>1, <1>3 DEF Records, Level, SameClient
<1>6. p \in Requests
  BY <1>4, <1>5, RequestWith DEF Level
<1>. QED
  BY <1>2, <1>5, <1>6

\* The step serves this request alone.
LEMMA MadeDueServes ==
  ASSUME NEW w \in Worlds, NEW r \in Req, NEW v, v = MadeDueIn(w, r)
  PROVE  /\ v \in Worlds /\ Serves(w, v, r) /\ v.lost = w.lost
         /\ Level(w.req[r], v.req[r]) /\ v.req[r].due = TRUE
         /\ v.req[r].lease = w.req[r].lease /\ v.req[r].pos = w.req[r].pos
         /\ v.req[r].capture = w.req[r].capture /\ v.req[r].pub = w.req[r].pub
<1>1. PICK q \in Requests : q = w.req[r]
  BY WorldFacts
<1>2. PICK p : p = MadeDue(q)
  OBVIOUS
<1>3. /\ p \in Requests /\ Level(q, p) /\ p.due = TRUE
      /\ p.lease = q.lease /\ p.pos = q.pos /\ p.capture = q.capture /\ p.pub = q.pub
  BY <1>2, MadeDueIs, ZenonT(30)
<1>4. v = With(w, r, p)
  BY <1>1, <1>2, ZenonT(30) DEF With, MadeDueIn, MadeDue
<1>5. v \in Worlds /\ Serves(w, v, r) /\ v.lost = w.lost /\ v.req[r] = p
  BY <1>1, <1>3, <1>4, LevelServes
<1>. QED
  BY <1>1, <1>3, <1>5

\* A request that is not due.
NotDue(q) == [q EXCEPT !.due = FALSE]

\* So in a world.
NotDueIn(w, r) == [w EXCEPT !.req[r].due = FALSE]

\* What remains of a request that is no longer due.
LEMMA NotDueIs ==
  ASSUME NEW q \in Requests, NEW p, p = NotDue(q)
  PROVE  /\ p \in Requests /\ Level(q, p) /\ p.due = FALSE
         /\ p.lease = q.lease /\ p.pos = q.pos /\ p.capture = q.capture /\ p.pub = q.pub
<1>1. q \in Records
  BY RequestFacts
<1>2. PICK b \in BOOLEAN : b = FALSE
  BY ZenonT(30)
<1>3. p = [q EXCEPT !.due = b]
  BY <1>2, ZenonT(30) DEF NotDue
<1>4. p \in Records
  BY <1>1, <1>2, <1>3, ZenonT(60) DEF Records
<1>5. /\ p.due = b /\ Level(q, p)
      /\ p.lease = q.lease /\ p.pos = q.pos /\ p.capture = q.capture /\ p.pub = q.pub
  BY <1>1, <1>3 DEF Records, Level, SameClient
<1>6. p \in Requests
  BY <1>4, <1>5, RequestWith DEF Level
<1>. QED
  BY <1>2, <1>5, <1>6

\* The step serves this request alone.
LEMMA NotDueServes ==
  ASSUME NEW w \in Worlds, NEW r \in Req, NEW v, v = NotDueIn(w, r)
  PROVE  /\ v \in Worlds /\ Serves(w, v, r) /\ v.lost = w.lost
         /\ Level(w.req[r], v.req[r]) /\ v.req[r].due = FALSE
         /\ v.req[r].lease = w.req[r].lease /\ v.req[r].pos = w.req[r].pos
         /\ v.req[r].capture = w.req[r].capture /\ v.req[r].pub = w.req[r].pub
<1>1. PICK q \in Requests : q = w.req[r]
  BY WorldFacts
<1>2. PICK p : p = NotDue(q)
  OBVIOUS
<1>3. /\ p \in Requests /\ Level(q, p) /\ p.due = FALSE
      /\ p.lease = q.lease /\ p.pos = q.pos /\ p.capture = q.capture /\ p.pub = q.pub
  BY <1>2, NotDueIs, ZenonT(30)
<1>4. v = With(w, r, p)
  BY <1>1, <1>2, ZenonT(30) DEF With, NotDueIn, NotDue
<1>5. v \in Worlds /\ Serves(w, v, r) /\ v.lost = w.lost /\ v.req[r] = p
  BY <1>1, <1>3, <1>4, LevelServes
<1>. QED
  BY <1>1, <1>3, <1>5

\* A request whose deadline has passed.
Expired(q) == [q EXCEPT !.expired = TRUE]

\* What remains of a request whose deadline passes.
LEMMA ExpiredIs ==
  ASSUME NEW q \in Requests, NEW p, p = Expired(q)
  PROVE  /\ p \in Requests /\ Level(q, p) /\ p.expired = TRUE
         /\ p.lease = q.lease /\ p.due = q.due /\ p.pos = q.pos /\ p.capture = q.capture /\ p.pub = q.pub
<1>1. q \in Records
  BY RequestFacts
<1>2. PICK b \in BOOLEAN : b = TRUE
  BY ZenonT(30)
<1>3. p = [q EXCEPT !.expired = b]
  BY <1>2 DEF Expired
<1>4. p \in Records
  BY <1>1, <1>2, <1>3, ZenonT(60) DEF Records
<1>5. /\ p.expired = b /\ Level(q, p)
      /\ p.lease = q.lease /\ p.due = q.due /\ p.pos = q.pos /\ p.capture = q.capture /\ p.pub = q.pub
  BY <1>1, <1>3 DEF Records, Level, SameClient
<1>6. p \in Requests
  BY <1>4, <1>5, RequestWith DEF Level
<1>. QED
  BY <1>2, <1>5, <1>6

\* A request whose client has cancelled.
CancelSet(q) == [q EXCEPT !.cancel = TRUE]

\* What remains of a request that is cancelled.
LEMMA CancelSetIs ==
  ASSUME NEW q \in Requests, NEW p, p = CancelSet(q)
  PROVE  /\ p \in Requests /\ Level(q, p) /\ p.cancel = TRUE
         /\ p.lease = q.lease /\ p.due = q.due /\ p.pos = q.pos /\ p.capture = q.capture /\ p.pub = q.pub
<1>1. q \in Records
  BY RequestFacts
<1>2. PICK b \in BOOLEAN : b = TRUE
  BY ZenonT(30)
<1>3. p = [q EXCEPT !.cancel = b]
  BY <1>2 DEF CancelSet
<1>4. p \in Records
  BY <1>1, <1>2, <1>3, ZenonT(60) DEF Records
<1>5. /\ p.cancel = b /\ Level(q, p)
      /\ p.lease = q.lease /\ p.due = q.due /\ p.pos = q.pos /\ p.capture = q.capture /\ p.pub = q.pub
  BY <1>1, <1>3 DEF Records, Level, SameClient
<1>6. p \in Requests
  BY <1>4, <1>5, RequestWith DEF Level
<1>. QED
  BY <1>2, <1>5, <1>6

\* A request that holds a lease.
LeaseTaken(q) == [q EXCEPT !.lease = "held"]

\* So in a world.
LeaseTakenIn(w, r) == [w EXCEPT !.req[r].lease = "held"]

\* What remains of a request that acquires a lease.
LEMMA LeaseTakenIs ==
  ASSUME NEW q \in Requests, NEW p, p = LeaseTaken(q)
  PROVE  /\ p \in Requests /\ Level(q, p) /\ p.lease = "held"
         /\ p.due = q.due /\ p.pos = q.pos /\ p.capture = q.capture /\ p.pub = q.pub
<1>1. q \in Records
  BY RequestFacts
<1>2. p \in Records
  BY <1>1, ZenonT(60) DEF LeaseTaken, Records, PubState, CaptureState
<1>3. /\ p.lease = "held" /\ Level(q, p)
      /\ p.due = q.due /\ p.pos = q.pos /\ p.capture = q.capture /\ p.pub = q.pub
  BY <1>1 DEF LeaseTaken, Records, Level, SameClient
<1>4. p \in Requests
  BY <1>2, <1>3, RequestWith DEF Level
<1>. QED
  BY <1>3, <1>4

\* The step serves this request alone.
LEMMA LeaseTakenServes ==
  ASSUME NEW w \in Worlds, NEW r \in Req, NEW v, v = LeaseTakenIn(w, r)
  PROVE  /\ v \in Worlds /\ Serves(w, v, r) /\ v.lost = w.lost
         /\ Level(w.req[r], v.req[r]) /\ v.req[r].lease = "held"
         /\ v.req[r].due = w.req[r].due /\ v.req[r].pos = w.req[r].pos
         /\ v.req[r].capture = w.req[r].capture /\ v.req[r].pub = w.req[r].pub
<1>1. PICK q \in Requests : q = w.req[r]
  BY WorldFacts
<1>2. PICK p : p = LeaseTaken(q)
  OBVIOUS
<1>3. /\ p \in Requests /\ Level(q, p) /\ p.lease = "held"
      /\ p.due = q.due /\ p.pos = q.pos /\ p.capture = q.capture /\ p.pub = q.pub
  BY <1>2, LeaseTakenIs
<1>4. v = With(w, r, p)
  BY <1>1, <1>2, ZenonT(30) DEF With, LeaseTakenIn, LeaseTaken
<1>5. v \in Worlds /\ Serves(w, v, r) /\ v.lost = w.lost /\ v.req[r] = p
  BY <1>1, <1>3, <1>4, LevelServes
<1>. QED
  BY <1>1, <1>3, <1>5

-----------------------------------------------------------------------------
(* Requests that were parked *)

\* p is q but for what it waits for.
Reparked(w, r, l, k) == [w EXCEPT !.req[r].leader = l, !.req[r].pub = k]

\* Parking a waiting request again serves it alone, its lease being kept.
LEMMA ReparkedServes ==
  ASSUME NEW w \in Worlds, NEW r \in Req, NEW l \in Req \cup {NoReq},
         NEW k \in PubState, NEW v, v = Reparked(w, r, l, k)
  PROVE  /\ v \in Worlds /\ Serves(w, v, r) /\ v.lost = w.lost
         /\ Level(w.req[r], v.req[r]) /\ v.req[r].lease = w.req[r].lease
<1>1. PICK u : u = LedIn(w, r, l)
  OBVIOUS
<1>2. /\ u \in Worlds /\ Serves(w, u, r) /\ u.lost = w.lost
      /\ Level(w.req[r], u.req[r]) /\ u.req[r].lease = w.req[r].lease
  BY <1>1, LedServes
<1>3. v = ParkedIn(u, r, k)
  BY <1>1 DEF Reparked, LedIn, ParkedIn
<1>5. k \in PubState
  OBVIOUS
<1>4. /\ v \in Worlds /\ Serves(u, v, r) /\ v.lost = u.lost
      /\ Level(u.req[r], v.req[r]) /\ v.req[r].lease = u.req[r].lease
  BY <1>2, <1>3, <1>5, ParkedServes
<1>. QED
  BY <1>2, <1>4, ServesTrans, LevelTrans

\* What UpdateWaiting does to one parked request.
Updated(w, v, r) ==
  /\ Serves(w, v, r) /\ v.lost = w.lost
  /\ \/ w.req[r].out # "none" /\ v.req[r] = w.req[r]
     \/ w.req[r].out = "none" /\ Ending(w.req[r], v.req[r], w.lost)
     \/ w.req[r].out = "none" /\ Level(w.req[r], v.req[r])
          /\ v.req[r].lease = w.req[r].lease
  /\ Stream(r, w.req[r]) => Stream(r, v.req[r])

\* The request no longer follows its leader.
Freed(w, r, settled) ==
  /\ w.req[r].leader # NoReq
  /\ MustSettle(w, r) \/ (settled /\ MaySettle(w, r))

\* The request has waited for its publication long enough.
Overdue(q, settled) == q.pub = "waiting" /\ (settled \/ q.age >= WaitTicks)

\* UpdateWaiting leaves its request as it was, ends it or changes its place.
LEMMA UpdateWaitingIs ==
  ASSUME NEW w \in Worlds, NEW r \in Req, NEW S, NEW v, v = UpdateWaiting(w, r, r \in S)
  PROVE  Updated(w, v, r)
<1>1. PICK q \in Requests : q = w.req[r]
  BY WorldFacts
<1>2. CASE w.req[r].out # "none"
  <2>1. Stopped(w, r)
    BY <1>2 DEF Stopped, IsTerminal
  <2>2. v = w
    BY <1>2, <2>1, CompleteIfStoppedIs DEF UpdateWaiting
  <2>. QED
    BY <1>2, <2>2, ServesSelf DEF Updated
<1>3. CASE w.req[r].out = "none" /\ Stopped(w, r)
  <2>1. v = CompleteIfStopped(w, r)
    BY <1>3 DEF UpdateWaiting
  <2>. QED
    BY <1>3, <2>1, IfStopped DEF Updated
<1>4. CASE w.req[r].out = "none" /\ ~Stopped(w, r)
  <2>1. PICK l : l = IF Freed(w, r, r \in S) THEN NoReq ELSE w.req[r].leader
    OBVIOUS
  <2>2. PICK k : k = IF Overdue(w.req[r], r \in S) THEN "over" ELSE w.req[r].pub
    OBVIOUS
  <2>3. w.req[r].leader \in Req \cup {NoReq} /\ w.req[r].pub \in PubState
    BY <1>1, RequestFacts, ZenonT(60) DEF Records, PubState
  <2>4. l \in Req \cup {NoReq} /\ k \in PubState
    BY <2>1, <2>2, <2>3 DEF PubState
  <2>5. v = Reparked(w, r, l, k)
    BY <1>4, <2>1, <2>2 DEF UpdateWaiting, Reparked, Freed, Overdue
  <2>6. /\ v \in Worlds /\ Serves(w, v, r) /\ v.lost = w.lost
        /\ Level(w.req[r], v.req[r]) /\ v.req[r].lease = w.req[r].lease
    BY <2>4, <2>5, ReparkedServes
  <2>7. Stream(r, w.req[r]) => Stream(r, v.req[r])
    BY <2>6, LevelFacts
  <2>. QED
    BY <1>4, <2>6, <2>7 DEF Updated
<1>. QED
  BY <1>2, <1>3, <1>4

\* The fold of UpdateWaiting over the waiting list, by the set of places passed.
UpdateStep(g, w, s, S) ==
  g = [d \in SUBSET (DOMAIN s) |->
         IF d = {} THEN w ELSE UpdateWaiting(g[d \ {Max(d)}], s[Max(d)], s[Max(d)] \in S)]

\* UpdatedAll is that fold.
LEMMA UpdatedSeqIs ==
  ASSUME NEW w, NEW s, NEW S
  PROVE  UpdatedAll(w, s, S)
           = (CHOOSE g : UpdateStep(g, w, s, S))[DOMAIN s]
BY DEF UpdatedAll, FoldLeft, MapThenFoldSet, UpdateStep

\* UpdatedAll updates each waiting request once, and no other.
LEMMA UpdatedSeq ==
  ASSUME NEW w \in Worlds, NEW s \in Seq(Req), Distinct(s), NEW S,
         NEW v, v = UpdatedAll(w, s, S)
  PROVE  /\ v \in Worlds /\ v.lost = w.lost
         /\ \A r \in Req \ ToSet(s) : v.req[r] = w.req[r]
         /\ \A r \in ToSet(s) :
              /\ \/ w.req[r].out # "none" /\ v.req[r] = w.req[r]
                 \/ w.req[r].out = "none" /\ Ending(w.req[r], v.req[r], w.lost)
                 \/ w.req[r].out = "none" /\ Level(w.req[r], v.req[r])
                      /\ v.req[r].lease = w.req[r].lease
              /\ Stream(r, w.req[r]) => Stream(r, v.req[r])
<1>1. PICK G : G = [r \in ToSet(s) |-> [u \in Worlds |-> UpdateWaiting(u, r, r \in S)]]
  BY ZenonT(30)
<1>2. ToSet(s) \subseteq Req /\ \A i \in DOMAIN s : s[i] \in ToSet(s)
  <2>1. ToSet(s) \subseteq Req /\ ToSet(s) = {s[i] : i \in 1 .. Len(s)} /\ DOMAIN s = 1 .. Len(s)
    BY SeqFacts
  <2>. QED
    BY <2>1
<1>3. ASSUME NEW r \in ToSet(s), NEW u \in Worlds
      PROVE  G[r][u] = UpdateWaiting(u, r, r \in S) /\ Updated(u, G[r][u], r)
  BY <1>1, <1>2, UpdateWaitingIs
<1>4. Server(ToSet(s), Itself(ToSet(s)), G, TRUE)
  <2>0. PICK x : x = Itself(ToSet(s))
    OBVIOUS
  <2>1. x \in [ToSet(s) -> Req] /\ \A r \in ToSet(s) : x[r] = r
    BY <1>2, <2>0 DEF Itself
  <2>2. \A r \in ToSet(s) : \A u \in Worlds : G[r][u] \in Worlds
    BY <1>3 DEF Updated, Serves
  <2>3. G \in [ToSet(s) -> [Worlds -> Worlds]]
    BY <1>1, <2>2
  <2>4. Server(ToSet(s), x, G, TRUE)
    BY <1>3, <2>1, <2>3 DEF Server, Later, Updated
  <2>. QED
    BY <2>0, <2>4, ZenonT(30)
<1>5. \A g : UpdateStep(g, w, s, S) => SeqServing(g, s, G, w)
  <2>. SUFFICES ASSUME NEW g, UpdateStep(g, w, s, S) PROVE SeqServing(g, s, G, w)
    OBVIOUS
  <2>1. ASSUME NEW d \in SUBSET (DOMAIN s), d # {}, g[d \ {Max(d)}] \in Worlds
        PROVE  g[d] = G[s[Max(d)]][g[d \ {Max(d)}]]
    <3>1. Max(d) \in DOMAIN s
      BY <2>1, SeqFacts, MaxIn, ZenonT(30)
    <3>2. PICK k \in DOMAIN s : k = Max(d)
      BY <3>1
    <3>3. PICK u \in Worlds : u = g[d \ {k}]
      BY <2>1, <3>2
    <3>4. g[d] = UpdateWaiting(u, s[k], s[k] \in S)
      BY <2>1, <3>2, <3>3, ZenonT(30) DEF UpdateStep
    <3>. QED
      BY <1>2, <1>3, <3>2, <3>3, <3>4
  <2>2. g[{}] = w
    BY DEF UpdateStep
  <2>. QED
    BY <2>1, <2>2, ZenonT(30) DEF SeqServing
<1>6. \E g : UpdateStep(g, w, s, S)
  <2>1. PICK g \in [SUBSET (DOMAIN s) -> Worlds] : SeqServing(g, s, G, w)
    BY <1>4, SeqServingExists, ZenonT(30)
  <2>2. ASSUME NEW d \in SUBSET (DOMAIN s), d # {}
        PROVE  g[d] = UpdateWaiting(g[d \ {Max(d)}], s[Max(d)], s[Max(d)] \in S)
    <3>1. Max(d) \in DOMAIN s
      BY <2>2, SeqFacts, MaxIn, ZenonT(30)
    <3>2. PICK k \in DOMAIN s : k = Max(d)
      BY <3>1
    <3>3. PICK u \in Worlds : u = g[d \ {k}]
      BY <2>1
    <3>4. g[d] = G[s[k]][u]
      BY <2>1, <2>2, <3>2, <3>3 DEF SeqServing
    <3>. QED
      BY <1>2, <1>3, <3>2, <3>3, <3>4
  <2>3. \A d \in SUBSET (DOMAIN s) : d = {} => g[d] = w
    BY <2>1, ZenonT(30) DEF SeqServing
  <2>. QED
    BY <2>1, <2>2, <2>3, ZenonT(30) DEF UpdateStep
<1>7. PICK h : h = CHOOSE g : UpdateStep(g, w, s, S)
  OBVIOUS
<1>8. UpdateStep(h, w, s, S)
  BY <1>6, <1>7
<1>9. v = h[DOMAIN s]
  BY <1>7, UpdatedSeqIs
<1>10. PICK k : k = TRUE
  OBVIOUS
<1>11. EachServed(w, v, ToSet(s), G, k)
  BY <1>4, <1>5, <1>8, <1>9, <1>10, SeqServed, ZenonT(30)
<1>12. /\ v \in Worlds /\ v.lost = w.lost
       /\ \A r \in Req \ ToSet(s) : v.req[r] = w.req[r]
       /\ \A r \in ToSet(s) : \E u \in Worlds :
            /\ u.req[r] = w.req[r] /\ v.req[r] = G[r][u].req[r] /\ u.lost = w.lost
  BY <1>10, <1>11 DEF EachServed
<1>13. ASSUME NEW r \in ToSet(s)
       PROVE  /\ \/ w.req[r].out # "none" /\ v.req[r] = w.req[r]
                 \/ w.req[r].out = "none" /\ Ending(w.req[r], v.req[r], w.lost)
                 \/ w.req[r].out = "none" /\ Level(w.req[r], v.req[r])
                      /\ v.req[r].lease = w.req[r].lease
              /\ Stream(r, w.req[r]) => Stream(r, v.req[r])
  <2>1. PICK u \in Worlds :
          u.req[r] = w.req[r] /\ v.req[r] = G[r][u].req[r] /\ u.lost = w.lost
    BY <1>12
  <2>2. Updated(u, G[r][u], r)
    BY <1>3
  <2>. QED
    BY <2>1, <2>2 DEF Updated
<1>. QED
  BY <1>12, <1>13

-----------------------------------------------------------------------------
(* A batch that failed *)

\* The end of a live request whose batch failed with f.
Felled(w, v, r, f) ==
  /\ v.req[r].out # "none" /\ Keeps(w.req[r], v.req[r])
  /\ f # "misuse" => Ending(w.req[r], v.req[r], "no")
  /\ Stream(r, w.req[r]) => Stream(r, v.req[r])
  /\ w.req[r].lease = "held" /\ v.req[r].lease = "returned" =>
       w.lost = "no" /\ (f # "lost" \/ w.req[r].cancel \/ w.req[r].expired)

\* What FailUnlessStopped does to one request of it.
Thrown(w, v, r, f) ==
  /\ Serves(w, v, r) /\ Later(w.lost, v.lost) /\ (f # "lost" => v.lost = w.lost)
  /\ w.req[r].out = "none" => Felled(w, v, r, f)

\* FailUnlessStopped fells its request.
LEMMA ThrownIs ==
  ASSUME NEW w \in Worlds, NEW r \in Req, NEW f, NEW v, v = FailUnlessStopped(w, r, f)
  PROVE  Thrown(w, v, r, f)
<1>1. CASE w.req[r].out # "none"
  BY <1>1, FailUnlessStoppedIs, ServesSelf DEF Thrown, Later
<1>2. CASE w.req[r].out = "none"
  <2>1. Ruined(w, v, r, f)
    BY <1>2, FailUnlessStoppedIs
  <2>2. /\ Serves(w, v, r) /\ v.lost \in {w.lost, Probed(w.lost, f)}
        /\ v.req[r].out # "none"
        /\ Keeps(w.req[r], v.req[r])
        /\ f # "misuse" => Ending(w.req[r], v.req[r], v.lost)
        /\ Taken(r, w.req[r]) => Stream(r, v.req[r])
        /\ w.req[r].lease = "held" /\ v.req[r].lease = "returned" =>
             w.lost = "no" /\ (f # "lost" \/ w.req[r].cancel \/ w.req[r].expired)
    BY <1>2, <2>1, RuinedEnds
  <2>3. Stream(r, w.req[r]) => Taken(r, w.req[r])
    BY StreamTaken, WorldFacts
  <2>4. Later(w.lost, v.lost) /\ (f # "lost" => v.lost = w.lost)
    BY <2>2 DEF Later, Probed
  <2>5. f # "misuse" => Ending(w.req[r], v.req[r], "no")
    BY <2>2 DEF Ending
  <2>. QED
    BY <2>2, <2>3, <2>4, <2>5 DEF Thrown, Felled
<1>. QED
  BY <1>1, <1>2

\* The fold of FailUnlessStopped over a batch, by the set of places passed.
ThrowStep(g, w, s, f) ==
  g = [d \in SUBSET (DOMAIN s) |->
         IF d = {} THEN w ELSE FailUnlessStopped(g[d \ {Max(d)}], s[Max(d)], f)]

\* ThrownAll is that fold.
LEMMA ThrownSeqIs ==
  ASSUME NEW w, NEW s, NEW f
  PROVE  ThrownAll(w, s, f)
           = (CHOOSE g : ThrowStep(g, w, s, f))[DOMAIN s]
BY DEF ThrownAll, FoldLeft, MapThenFoldSet, ThrowStep

\* ThrownAll fells each running request of the batch, and no other.
LEMMA ThrownSeq ==
  ASSUME NEW w \in Worlds, NEW s \in Seq(Req), Distinct(s), NEW f,
         NEW v, v = ThrownAll(w, s, f)
  PROVE  /\ v \in Worlds /\ Later(w.lost, v.lost) /\ (f # "lost" => v.lost = w.lost)
         /\ \A r \in Req \ ToSet(s) : v.req[r] = w.req[r]
         /\ \A r \in ToSet(s) : w.req[r].out = "none" => Felled(w, v, r, f)
<1>0. PICK k \in BOOLEAN : k <=> f # "lost"
  BY ZenonT(30)
<1>1. PICK G : G = [r \in ToSet(s) |-> [u \in Worlds |-> FailUnlessStopped(u, r, f)]]
  BY ZenonT(30)
<1>2. ToSet(s) \subseteq Req /\ \A i \in DOMAIN s : s[i] \in ToSet(s)
  <2>1. ToSet(s) \subseteq Req /\ ToSet(s) = {s[i] : i \in 1 .. Len(s)} /\ DOMAIN s = 1 .. Len(s)
    BY SeqFacts
  <2>. QED
    BY <2>1
<1>3. ASSUME NEW r \in ToSet(s), NEW u \in Worlds
      PROVE  G[r][u] = FailUnlessStopped(u, r, f) /\ Thrown(u, G[r][u], r, f)
  BY <1>1, <1>2, ThrownIs
<1>4. Server(ToSet(s), Itself(ToSet(s)), G, k)
  <2>0. PICK x : x = Itself(ToSet(s))
    OBVIOUS
  <2>1. x \in [ToSet(s) -> Req] /\ \A r \in ToSet(s) : x[r] = r
    BY <1>2, <2>0 DEF Itself
  <2>2. \A r \in ToSet(s) : \A u \in Worlds : G[r][u] \in Worlds
    BY <1>3 DEF Thrown, Serves
  <2>3. G \in [ToSet(s) -> [Worlds -> Worlds]]
    BY <1>1, <2>2
  <2>4. Server(ToSet(s), x, G, k)
    BY <1>0, <1>3, <2>1, <2>3 DEF Server, Thrown
  <2>. QED
    BY <2>0, <2>4
<1>5. \A g : ThrowStep(g, w, s, f) => SeqServing(g, s, G, w)
  <2>. SUFFICES ASSUME NEW g, ThrowStep(g, w, s, f) PROVE SeqServing(g, s, G, w)
    OBVIOUS
  <2>1. ASSUME NEW d \in SUBSET (DOMAIN s), d # {}, g[d \ {Max(d)}] \in Worlds
        PROVE  g[d] = G[s[Max(d)]][g[d \ {Max(d)}]]
    <3>1. Max(d) \in DOMAIN s
      BY <2>1, SeqFacts, MaxIn
    <3>2. PICK m \in DOMAIN s : m = Max(d)
      BY <3>1
    <3>3. PICK u \in Worlds : u = g[d \ {m}]
      BY <2>1, <3>2
    <3>4. g[d] = FailUnlessStopped(u, s[m], f)
      BY <2>1, <3>2, <3>3, ZenonT(30) DEF ThrowStep
    <3>. QED
      BY <1>2, <1>3, <3>2, <3>3, <3>4
  <2>2. g[{}] = w
    BY DEF ThrowStep
  <2>. QED
    BY <2>1, <2>2, ZenonT(30) DEF SeqServing
<1>6. \E g : ThrowStep(g, w, s, f)
  <2>1. PICK g \in [SUBSET (DOMAIN s) -> Worlds] : SeqServing(g, s, G, w)
    BY <1>4, SeqServingExists, ZenonT(30)
  <2>2. ASSUME NEW d \in SUBSET (DOMAIN s), d # {}
        PROVE  g[d] = FailUnlessStopped(g[d \ {Max(d)}], s[Max(d)], f)
    <3>1. Max(d) \in DOMAIN s
      BY <2>2, SeqFacts, MaxIn, ZenonT(30)
    <3>2. PICK m \in DOMAIN s : m = Max(d)
      BY <3>1
    <3>3. PICK u \in Worlds : u = g[d \ {m}]
      BY <2>1
    <3>4. g[d] = G[s[m]][u]
      BY <2>1, <2>2, <3>2, <3>3, ZenonT(30) DEF SeqServing
    <3>. QED
      BY <1>2, <1>3, <3>2, <3>3, <3>4
  <2>3. \A d \in SUBSET (DOMAIN s) : d = {} => g[d] = w
    BY <2>1, ZenonT(30) DEF SeqServing
  <2>. QED
    BY <2>1, <2>2, <2>3, ZenonT(30) DEF ThrowStep
<1>7. PICK h : h = CHOOSE g : ThrowStep(g, w, s, f)
  OBVIOUS
<1>8. ThrowStep(h, w, s, f)
  BY <1>6, <1>7
<1>9. v = h[DOMAIN s]
  BY <1>7, ThrownSeqIs
<1>11. EachServed(w, v, ToSet(s), G, k)
  BY <1>4, <1>5, <1>8, <1>9, SeqServed
<1>12. /\ v \in Worlds /\ Later(w.lost, v.lost) /\ (f # "lost" => v.lost = w.lost)
       /\ \A r \in Req \ ToSet(s) : v.req[r] = w.req[r]
       /\ \A r \in ToSet(s) : \E u \in Worlds :
            /\ u.req[r] = w.req[r] /\ v.req[r] = G[r][u].req[r] /\ Later(w.lost, u.lost)
            /\ Later(G[r][u].lost, v.lost)
  BY <1>0, <1>11 DEF EachServed
<1>13. ASSUME NEW r \in ToSet(s), w.req[r].out = "none"
       PROVE  Felled(w, v, r, f)
  <2>1. PICK u \in Worlds :
          u.req[r] = w.req[r] /\ v.req[r] = G[r][u].req[r] /\ Later(w.lost, u.lost)
    BY <1>12
  <2>2. Thrown(u, G[r][u], r, f)
    BY <1>3
  <2>3. u.lost = "no" => w.lost = "no"
    BY <2>1 DEF Later
  <2>. QED
    BY <1>13, <2>1, <2>2, <2>3 DEF Thrown, Felled
<1>. QED
  BY <1>12, <1>13

-----------------------------------------------------------------------------
(* Admission *)

\* What a step beside the output of r does to a world.
Tended(w, v, r) ==
  /\ v \in Worlds /\ Serves(w, v, r) /\ v.lost = w.lost
  /\ Level(w.req[r], v.req[r]) /\ v.req[r].lease = w.req[r].lease

\* A request is tended by doing nothing.
LEMMA TendedSelf ==
  ASSUME NEW w \in Worlds, NEW r
  PROVE  Tended(w, w, r)
BY ServesSelf DEF Tended, Level, SameClient

\* Two such steps make one.
LEMMA TendedTrans ==
  ASSUME NEW w, NEW u, NEW v, NEW r, Tended(w, u, r), Tended(u, v, r)
  PROVE  Tended(w, v, r)
<1>1. Serves(w, v, r)
  BY ServesTrans DEF Tended
<1>2. Level(w.req[r], v.req[r])
  BY LevelTrans DEF Tended
<1>. QED
  BY <1>1, <1>2 DEF Tended

\* A set of requests that is not empty has one that shares the most.
LEMMA MostCommon ==
  ASSUME NEW c \in [Req -> Nat], NEW S \in SUBSET Req, S # {}
  PROVE  \E l \in S : \A m \in S : c[l] >= c[m]
<1>1. IsFiniteSet(Req)
  BY SchedulerAssumption
<1>2. PICK b \in Nat : b = SumOf(c, Req)
  BY <1>1, SumNat
<1>3. \A m \in Req : c[m] <= b
  <2>. SUFFICES ASSUME NEW m \in Req PROVE c[m] <= b
    OBVIOUS
  <2>1. PICK R \in SUBSET Req : R = Req \ {m}
    BY ZenonT(30)
  <2>2. IsFiniteSet(R)
    BY <1>1, FS_Subset
  <2>3. SumOf(c, R) \in Nat
    BY <2>2, SumNat
  <2>4. SumOf(c, Req) = c[m] + SumOf(c, R)
    BY <1>1, <2>1, SumRemove
  <2>. QED
    BY <1>2, <2>3, <2>4
<1>4. PICK T : T = {n \in Nat : \A m \in S : c[m] <= n}
  BY ZenonT(30)
<1>5. T \in SUBSET Nat /\ b \in T
  BY <1>3, <1>4
<1>6. PICK n \in T : \A k \in T : n <= k
  BY <1>5, LeastNat
<1>7. n \in Nat /\ \A m \in S : c[m] <= n
  BY <1>4, <1>6
<1>8. \E l \in S : c[l] = n
  <2>1. CASE n = 0
    BY <1>7, <2>1
  <2>2. CASE n # 0
    <3>1. n - 1 \in Nat /\ n - 1 \notin T
      BY <1>6, <1>7, <2>2
    <3>2. PICK l \in S : ~(c[l] <= n - 1)
      BY <1>4, <3>1
    <3>3. c[l] \in Nat
      OBVIOUS
    <3>. QED
      BY <1>7, <3>1, <3>2, <3>3
  <2>. QED
    BY <2>1, <2>2
<1>. QED
  BY <1>7, <1>8

\* The request it may wait for.
LEMMA PrefixLeaderIs ==
  ASSUME NEW w \in Worlds, NEW r \in Req, lists \in ListType
  PROVE  PrefixLeader(w, r) \in Req \cup {NoReq}
<1>1. PICK behind : behind =
        {l \in ToSet(lists.prefilling) \cup ToSet(lists.capturing) :
           ~PrefillComplete(w.req[l], l) /\ Common[r][l] > w.req[l].pos}
  BY ZenonT(30)
<1>2. PrefixLeader(w, r) = IF behind = {} THEN NoReq
        ELSE CHOOSE l \in behind : \A m \in behind : Common[r][l] >= Common[r][m]
  BY <1>1 DEF PrefixLeader
<1>3. behind \in SUBSET Req
  <2>1. lists.prefilling \in Seq(Req) /\ lists.capturing \in Seq(Req)
    BY DEF ListType
  <2>2. ToSet(lists.prefilling) \subseteq Req /\ ToSet(lists.capturing) \subseteq Req
    BY <2>1, SeqFacts
  <2>. QED
    BY <1>1, <2>2
<1>4. CASE behind # {}
  <2>1. PICK c \in [Req -> Nat] : c = Common[r]
    BY SchedulerAssumption
  <2>2. \E l \in behind : \A m \in behind : Common[r][l] >= Common[r][m]
    BY <1>3, <1>4, <2>1, MostCommon
  <2>. QED
    BY <1>2, <1>3, <1>4, <2>2
<1>. QED
  BY <1>2, <1>4

\* A request that follows a leader to a position.
Following(w, r, l, n) == [w EXCEPT !.req[r].leader = l, !.req[r].leadPos = n]

\* Taking up a leader tends the request.
LEMMA FollowingServes ==
  ASSUME NEW w \in Worlds, NEW r \in Req, NEW l \in Req \cup {NoReq}, NEW n \in Nat,
         NEW v, v = Following(w, r, l, n)
  PROVE  Tended(w, v, r)
<1>1. PICK u : u = LedIn(w, r, l)
  OBVIOUS
<1>2. Tended(w, u, r)
  BY <1>1, LedServes DEF Tended
<1>3. v = LedToIn(u, r, n)
  BY <1>1 DEF Following, LedIn, LedToIn
<1>4. u \in Worlds
  BY <1>2 DEF Tended
<1>5. Tended(u, v, r)
  BY <1>3, <1>4, LedToServes DEF Tended
<1>. QED
  BY <1>2, <1>5, TendedTrans

\* WaitForSharedPrefix tends its request.
LEMMA WaitForSharedPrefixIs ==
  ASSUME NEW w \in Worlds, NEW r \in Req, lists \in ListType,
         NEW s \in WaitForSharedPrefix(w, r)
  PROVE  Tended(w, s.w, r) /\ s.ok \in BOOLEAN
<1>1. PICK v : v = ConsideredIn(w, r)
  OBVIOUS
<1>2. v \in Worlds /\ Tended(w, v, r)
  BY <1>1, ConsideredServes, ZenonT(30) DEF Tended
<1>3. PICK l \in Req \cup {NoReq} : l = PrefixLeader(w, r)
  BY PrefixLeaderIs
<1>4. \/ s = No(v)
      \/ s = Yes(Following(v, r, l, Common[r][l])) /\ l # NoReq
  BY <1>1, <1>3 DEF WaitForSharedPrefix, ConsideredIn, Following
<1>5. CASE s = No(v)
  BY <1>2, <1>5 DEF No
<1>6. CASE s = Yes(Following(v, r, l, Common[r][l])) /\ l # NoReq
  <2>1. PICK n \in Nat : n = Common[r][l]
    BY <1>3, <1>6, SchedulerAssumption
  <2>2. PICK u : u = Following(v, r, l, n)
    OBVIOUS
  <2>3. Tended(v, u, r)
    BY <1>2, <2>2, FollowingServes
  <2>4. s.w = u /\ s.ok \in BOOLEAN
    BY <1>6, <2>1, <2>2 DEF Yes
  <2>. QED
    BY <1>2, <2>3, <2>4, TendedTrans
<1>. QED
  BY <1>4, <1>5, <1>6

\* A request that waits for its publication.
Publishing(w, r) == [w EXCEPT !.req[r].pub = "waiting", !.req[r].age = 0]

\* WaitForPublication tends its request.
LEMMA WaitForPublicationIs ==
  ASSUME NEW w \in Worlds, NEW r \in Req, NEW s \in WaitForPublication(w, r)
  PROVE  Tended(w, s.w, r) /\ s.ok \in BOOLEAN
<1>1. s = No(w) \/ s = Yes(Publishing(w, r))
  BY DEF WaitForPublication, Publishing
<1>2. CASE s = No(w)
  BY <1>2, TendedSelf DEF No
<1>3. CASE s = Yes(Publishing(w, r))
  <2>1. PICK k \in PubState : k = "waiting"
    BY DEF PubState
  <2>2. PICK u : u = ParkedIn(w, r, k)
    OBVIOUS
  <2>3. Tended(w, u, r) /\ u \in Worlds
    BY <2>2, ParkedServes DEF Tended
  <2>4. PICK n \in Nat : n = 0
    OBVIOUS
  <2>5. PICK v : v = AgedIn(u, r, n)
    OBVIOUS
  <2>6. Tended(u, v, r)
    BY <2>3, <2>4, <2>5, AgedServes DEF Tended
  <2>7. v = Publishing(w, r)
    BY <2>1, <2>2, <2>4, <2>5 DEF Publishing, AgedIn, ParkedIn
  <2>8. s.w = v /\ s.ok \in BOOLEAN
    BY <1>3, <2>7 DEF Yes
  <2>. QED
    BY <2>3, <2>6, <2>8, TendedTrans
<1>. QED
  BY <1>1, <1>2, <1>3

\* What AdmitNext does to a request it parks or is about to acquire.
LEMMA AdmittedIs ==
  ASSUME NEW w \in Worlds, NEW r \in Req, lists \in ListType,
         NEW s \in WaitForSharedPrefix(w, r),
         NEW p \in (IF s.ok THEN {s} ELSE WaitForPublication(s.w, r))
  PROVE  Tended(w, p.w, r) /\ p.ok \in BOOLEAN
<1>1. Tended(w, s.w, r) /\ s.ok \in BOOLEAN
  BY WaitForSharedPrefixIs
<1>2. CASE s.ok
  BY <1>1, <1>2, ZenonT(30)
<1>3. CASE ~s.ok
  <2>1. PICK u \in Worlds : u = s.w
    BY <1>1 DEF Tended
  <2>2. p \in WaitForPublication(u, r)
    BY <1>3, <2>1
  <2>3. Tended(u, p.w, r) /\ p.ok \in BOOLEAN
    BY <2>2, WaitForPublicationIs
  <2>. QED
    BY <1>1, <2>1, <2>3, TendedTrans
<1>. QED
  BY <1>1, <1>2, <1>3

-----------------------------------------------------------------------------
(* Acquiring and prefilling *)

\* A request that has acquired its lease and restored a prefix.
Leasing(w, r, n) ==
  [w EXCEPT !.req[r].lease = "held", !.req[r].pos = n, !.req[r].due = n = Prompt[r]]

\* A request whose prompt is prefilled is due.
DueIn(w, r, n) == [w EXCEPT !.req[r].due = n = Prompt[r]]

\* Setting the due flag tends the request.
LEMMA DueServes ==
  ASSUME NEW w \in Worlds, NEW r \in Req, NEW n, NEW v, v = DueIn(w, r, n)
  PROVE  Tended(w, v, r) /\ (v.req[r].due <=> n = Prompt[r])
<1>1. CASE n = Prompt[r]
  <2>1. v = MadeDueIn(w, r)
    BY <1>1, ZenonT(30) DEF DueIn, MadeDueIn
  <2>. QED
    BY <1>1, <2>1, MadeDueServes, ZenonT(30) DEF Tended
<1>2. CASE n # Prompt[r]
  <2>1. v = NotDueIn(w, r)
    BY <1>2, ZenonT(30) DEF DueIn, NotDueIn
  <2>. QED
    BY <1>2, <2>1, NotDueServes, ZenonT(30) DEF Tended
<1>. QED
  BY <1>1, <1>2

\* Acquiring the lease serves this request alone.
LEMMA LeasingServes ==
  ASSUME NEW w \in Worlds, NEW r \in Req, NEW n \in Nat, NEW v, v = Leasing(w, r, n)
  PROVE  /\ v \in Worlds /\ Serves(w, v, r) /\ v.lost = w.lost
         /\ Level(w.req[r], v.req[r]) /\ (v.req[r].due <=> n = Prompt[r])
         /\ v.req[r].lease = "held"
<1>1. PICK a : a = LeaseTakenIn(w, r)
  OBVIOUS
<1>2. a \in Worlds /\ Serves(w, a, r) /\ a.lost = w.lost /\ Level(w.req[r], a.req[r])
      /\ a.req[r].lease = "held"
  BY <1>1, LeaseTakenServes
<1>3. PICK b : b = PrefilledIn(a, r, n)
  OBVIOUS
<1>4. b \in Worlds /\ Serves(a, b, r) /\ b.lost = a.lost /\ Level(a.req[r], b.req[r])
      /\ b.req[r].lease = a.req[r].lease
  BY <1>2, <1>3, PrefilledServes
<1>5. v = DueIn(b, r, n)
  BY <1>1, <1>3 DEF DueIn, Leasing, LeaseTakenIn, PrefilledIn
<1>6. Tended(b, v, r) /\ (v.req[r].due <=> n = Prompt[r])
  BY <1>4, <1>5, DueServes
<1>7. Serves(w, v, r) /\ Level(w.req[r], v.req[r])
  BY <1>2, <1>4, <1>6, ServesTrans, LevelTrans DEF Tended
<1>. QED
  BY <1>2, <1>4, <1>6, <1>7 DEF Tended

\* A prefill chunk tends its request.
LEMMA ChunkServes ==
  ASSUME NEW w \in Worlds, NEW r \in Req, NEW n \in Nat,
         NEW v, v = Chunk(w, r, n)
  PROVE  Tended(w, v, r)
<1>1. PICK q \in Requests : q = w.req[r]
  BY WorldFacts
<1>2. q.pos \in Nat
  BY RequestFacts DEF Records
<1>3. PICK m \in Nat : m = q.pos + n
  BY <1>2
<1>4. PICK a : a = PrefilledIn(w, r, m)
  OBVIOUS
<1>5. Tended(w, a, r)
  BY <1>4, PrefilledServes DEF Tended
<1>6. v = a
  BY <1>1, <1>3, <1>4 DEF Chunk, PrefilledIn
<1>. QED
  BY <1>5, <1>6

\* A chunk, and then whether the request was stopped meanwhile.
LEMMA PrefillOutcomesIs ==
  ASSUME NEW w \in Worlds, NEW r \in Req, w.req[r].out = "none",
         NEW n \in Nat, NEW v, v = CompleteIfStopped(Chunk(w, r, n), r)
  PROVE  /\ Serves(w, v, r) /\ v.lost = w.lost
         /\ \/ Ending(w.req[r], v.req[r], w.lost)
            \/ Level(w.req[r], v.req[r]) /\ v.req[r].lease = w.req[r].lease
         /\ Stream(r, w.req[r]) => Stream(r, v.req[r])
<1>1. PICK u : u = Chunk(w, r, n)
  OBVIOUS
<1>2. Tended(w, u, r)
  BY <1>1, ChunkServes
<1>3. u \in Worlds /\ u.req[r].out = "none" /\ Serves(w, u, r) /\ u.lost = w.lost
      /\ SameClient(w.req[r], u.req[r]) /\ u.req[r].lease = w.req[r].lease
      /\ Level(w.req[r], u.req[r])
  BY <1>2 DEF Tended, Level
<1>4. Stream(r, w.req[r]) => Stream(r, u.req[r])
  BY <1>3, LevelFacts
<1>5. v = CompleteIfStopped(u, r)
  BY <1>1
<1>6. /\ Serves(u, v, r) /\ v.lost = u.lost
      /\ \/ ~Stopped(u, r) /\ v = u
         \/ Stopped(u, r) /\ Ending(u.req[r], v.req[r], u.lost)
      /\ Stream(r, u.req[r]) => Stream(r, v.req[r])
  BY <1>3, <1>5, IfStopped
<1>7. Serves(w, v, r)
  BY <1>3, <1>6, ServesTrans
<1>8. Ending(u.req[r], v.req[r], u.lost) => Ending(w.req[r], v.req[r], w.lost)
  BY <1>3 DEF Ending, SameClient
<1>. QED
  BY <1>3, <1>4, <1>6, <1>7, <1>8

-----------------------------------------------------------------------------
(* A session for a queued request *)

\* p is q with a session.
Popped(q, p) ==
  /\ SameClient(q, p) /\ p.out = q.out /\ p.lease = q.lease
  /\ p.adv = q.adv /\ p.tokens = q.tokens /\ p.held = q.held /\ p.matched = q.matched
  /\ p.pieces = q.pieces /\ p.buffered = q.buffered
  /\ p.selected = q.selected /\ p.advancing = q.advancing /\ p.preview = q.preview

\* What remains of a request popped from the queue.
LEMMA PoppedFacts ==
  ASSUME NEW q, NEW p, Popped(q, p)
  PROVE  \A r : (Stream(r, q) => Stream(r, p)) /\ (Calm(r, q) => Calm(r, p))
<1>1. \A r : Stream(r, q) => Stream(r, p)
  BY ZenonT(30) DEF Popped, Stream, Sent, SameClient
<1>2. Ahead(p) = Ahead(q)
  BY DEF Popped, Ahead
<1>3. \A r : Calm(r, q) => Calm(r, p)
  BY <1>2 DEF Popped, Calm
<1>. QED
  BY <1>1, <1>3

\* A request counted against the capacity.
Counting(q) == [q EXCEPT !.counted = TRUE]

\* A request with a session.
Seated(q, k) == [q EXCEPT !.session = k]

\* A request popped from the queue.
Popping(w, r, k) == [w EXCEPT !.req[r].counted = TRUE, !.req[r].session = k]

\* What a popped request is.
LEMMA SeatedIs ==
  ASSUME NEW q \in Requests, NEW k \in Nat, NEW p, p = Seated(Counting(q), k)
  PROVE  /\ p \in Requests /\ Counting(q) \in Requests /\ Popped(q, p)
         /\ p.counted /\ p.session = k
         /\ Counting(q).buffered = q.buffered
<1>1. q \in Records
  BY RequestFacts
<1>2. PICK a : a = Counting(q)
  OBVIOUS
<1>3. PICK t \in BOOLEAN : t = TRUE
  BY ZenonT(30)
<1>4. a = [q EXCEPT !.counted = t]
  BY <1>2, <1>3 DEF Counting
<1>5. a \in Records
  BY <1>1, <1>3, <1>4, ZenonT(60) DEF Records
<1>6. a.counted = t /\ Popped(q, a)
  BY <1>1, <1>4 DEF Records, Popped, SameClient
<1>7. p = [a EXCEPT !.session = k]
  BY <1>2 DEF Seated
<1>8. p \in Records
  BY <1>5, <1>7, ZenonT(60) DEF Records
<1>9. p.counted = a.counted /\ p.session = k /\ Popped(a, p)
  BY <1>5, <1>7 DEF Records, Popped, SameClient
<1>10. Popped(q, p)
  BY <1>6, <1>9 DEF Popped, SameClient
<1>11. a \in Requests /\ p \in Requests
  BY <1>5, <1>6, <1>8, <1>10, RequestWith DEF Popped
<1>. QED
  BY <1>2, <1>3, <1>6, <1>9, <1>10, <1>11 DEF Popped

\* Popping serves this request alone.
LEMMA PoppingServes ==
  ASSUME NEW w \in Worlds, NEW r \in Req, NEW k \in Nat, NEW v, v = Popping(w, r, k)
  PROVE  /\ v \in Worlds /\ Serves(w, v, r) /\ v.lost = w.lost
         /\ Popped(w.req[r], v.req[r]) /\ v.req[r].counted /\ v.req[r].session = k
<1>1. PICK q \in Requests : q = w.req[r]
  BY WorldFacts
<1>2. PICK a : a = Counting(q)
  OBVIOUS
<1>3. PICK p : p = Seated(a, k)
  OBVIOUS
<1>4. /\ p \in Requests /\ a \in Requests /\ Popped(q, p)
      /\ p.counted /\ p.session = k
      /\ a.buffered = q.buffered
  BY <1>2, <1>3, SeatedIs
<1>5. PICK x : x = With(w, r, a)
  OBVIOUS
<1>6. Serves(w, x, r) /\ x.req[r] = a /\ x.lost = w.lost
  BY <1>1, <1>4, <1>5, WithServes
<1>7. x \in Worlds
  BY <1>6 DEF Serves
<1>8. PICK y : y = With(x, r, p)
  OBVIOUS
<1>9. Serves(x, y, r) /\ y.req[r] = p /\ y.lost = x.lost
  <2>1. p.buffered = x.req[r].buffered
    BY <1>4, <1>6 DEF Popped
  <2>. QED
    BY <1>4, <1>7, <1>8, <2>1, WithServes
<1>10. v = y
  <2>1. x = [w EXCEPT !.req[r].counted = TRUE]
    BY <1>1, <1>2, <1>5, ZenonT(30) DEF With, Counting
  <2>2. y = [x EXCEPT !.req[r].session = k]
    BY <1>3, <1>6, <1>8, ZenonT(30) DEF With, Seated
  <2>3. v = [[w EXCEPT !.req[r].counted = TRUE] EXCEPT !.req[r].session = k]
    BY DEF Popping
  <2>. QED
    BY <2>1, <2>2, <2>3
<1>11. Serves(w, v, r)
  BY <1>6, <1>9, <1>10, ServesTrans
<1>12. v \in Worlds
  BY <1>11 DEF Serves
<1>. QED
  BY <1>1, <1>4, <1>6, <1>9, <1>10, <1>11, <1>12

-----------------------------------------------------------------------------
(* All requests at once *)

\* The requests of a set made due.
DueMarked(f, D) == [r \in Req |-> IF r \in D THEN MadeDue(f[r]) ELSE f[r]]

\* The requests of a set made not due.
DueCleared(f, D) == [r \in Req |-> IF r \in D THEN NotDue(f[r]) ELSE f[r]]

\* MarkDue makes the given requests due and changes nothing else.
LEMMA DueMarkedIs ==
  ASSUME NEW w \in Worlds, NEW D, NEW v, v = MarkDue(w, D)
  PROVE  /\ v \in Worlds /\ v.lost = w.lost
         /\ \A r \in Req :
              /\ Level(w.req[r], v.req[r]) /\ v.req[r].lease = w.req[r].lease
              /\ v.req[r].capture = w.req[r].capture /\ v.req[r].pos = w.req[r].pos
              /\ v.req[r].due <=> w.req[r].due \/ r \in ToSet(D)
              /\ r \notin ToSet(D) => v.req[r] = w.req[r]
<1>1. PICK f \in [Req -> Requests] : f = w.req
  BY WorldFacts
<1>2. PICK g : g = DueMarked(f, ToSet(D))
  OBVIOUS
<1>3. ASSUME NEW r \in Req
      PROVE  /\ g[r] \in Requests /\ Level(f[r], g[r]) /\ g[r].lease = f[r].lease
             /\ g[r].capture = f[r].capture /\ g[r].pos = f[r].pos
             /\ g[r].due <=> f[r].due \/ r \in ToSet(D)
             /\ r \notin ToSet(D) => g[r] = f[r]
  <2>1. CASE r \in ToSet(D)
    <3>1. g[r] = MadeDue(f[r])
      BY <1>2, <2>1 DEF DueMarked
    <3>. QED
      BY <2>1, <3>1, MadeDueIs, ZenonT(30)
  <2>2. CASE r \notin ToSet(D)
    <3>1. g[r] = f[r]
      BY <1>2, <2>2 DEF DueMarked
    <3>. QED
      BY <2>2, <3>1 DEF Level, SameClient
  <2>. QED
    BY <2>1, <2>2
<1>4. g \in [Req -> Requests]
  BY <1>2, <1>3 DEF DueMarked
<1>5. \A r \in Req : g[r].buffered = w.req[r].buffered
  BY <1>1, <1>3 DEF Level
<1>6. v = Redone(w, g)
  BY <1>1, <1>2 DEF MarkDue, Redone, DueMarked, MadeDue
<1>7. v \in Worlds /\ v.req = g /\ v.lost = w.lost
  BY <1>4, <1>5, <1>6, RedoneIs
<1>. QED
  BY <1>1, <1>3, <1>7

-----------------------------------------------------------------------------
(* The worker's lists *)

\* The requests in the lists.
Members(l) ==
  ToSet(l.prefilling) \cup ToSet(l.decoding) \cup ToSet(l.capturing) \cup ToSet(l.waiting)

\* Each of them is there once.
Apart(l) ==
  /\ Distinct(l.prefilling) /\ Distinct(l.decoding)
  /\ Distinct(l.capturing) /\ Distinct(l.waiting)
  /\ ToSet(l.prefilling) \cap ToSet(l.decoding) = {}
  /\ ToSet(l.prefilling) \cap ToSet(l.capturing) = {}
  /\ ToSet(l.prefilling) \cap ToSet(l.waiting) = {}
  /\ ToSet(l.decoding) \cap ToSet(l.capturing) = {}
  /\ ToSet(l.decoding) \cap ToSet(l.waiting) = {}
  /\ ToSet(l.capturing) \cap ToSet(l.waiting) = {}

\* The four lists of the worker.
LEMMA ListFacts ==
  ASSUME NEW l \in ListType
  PROVE  /\ l.prefilling \in Seq(Req) /\ l.decoding \in Seq(Req)
         /\ l.capturing \in Seq(Req) /\ l.waiting \in Seq(Req)
         /\ ToSet(l.prefilling) \subseteq Req /\ ToSet(l.decoding) \subseteq Req
         /\ ToSet(l.capturing) \subseteq Req /\ ToSet(l.waiting) \subseteq Req
         /\ Members(l) \subseteq Req
         /\ DOMAIN l = {"prefilling", "decoding", "capturing", "waiting"}
<1>1. /\ l.prefilling \in Seq(Req) /\ l.decoding \in Seq(Req)
      /\ l.capturing \in Seq(Req) /\ l.waiting \in Seq(Req)
  BY DEF ListType
<1>2. /\ ToSet(l.prefilling) \subseteq Req /\ ToSet(l.decoding) \subseteq Req
      /\ ToSet(l.capturing) \subseteq Req /\ ToSet(l.waiting) \subseteq Req
  BY <1>1, SeqFacts
<1>3. DOMAIN l = {"prefilling", "decoding", "capturing", "waiting"}
  BY DEF ListType
<1>. QED
  BY <1>1, <1>2, <1>3 DEF Members

\* A request appended to the decoding list.
ToDecoding(l, r) == [l EXCEPT !.decoding = Append(@, r)]

\* A request appended to the prefilling list.
ToPrefilling(l, r) == [l EXCEPT !.prefilling = Append(@, r)]

\* A request appended to the capturing list.
ToCapturing(l, r) == [l EXCEPT !.capturing = Append(@, r)]

\* The lists with other sequences.
Sorted(p, d, c, x) == [prefilling |-> p, decoding |-> d, capturing |-> c, waiting |-> x]

\* The worker's lists from four sequences.
LEMMA SortedIs ==
  ASSUME NEW p \in Seq(Req), NEW d \in Seq(Req), NEW c \in Seq(Req), NEW x \in Seq(Req)
  PROVE  /\ Sorted(p, d, c, x) \in ListType
         /\ Sorted(p, d, c, x).prefilling = p /\ Sorted(p, d, c, x).decoding = d
         /\ Sorted(p, d, c, x).capturing = c /\ Sorted(p, d, c, x).waiting = x
BY DEF Sorted, ListType

\* They are their four parts.
LEMMA ListIs ==
  ASSUME NEW l \in ListType
  PROVE  l = Sorted(l.prefilling, l.decoding, l.capturing, l.waiting)
BY DEF Sorted, ListType

\* One list gains r.
Gains(l, k, r) ==
  /\ k \in ListType /\ Apart(k) /\ k.waiting = l.waiting
  /\ Members(k) = Members(l) \cup {r}
  /\ ToSet(l.decoding) \subseteq ToSet(k.decoding)
  /\ ToSet(k.decoding) \subseteq ToSet(l.decoding) \cup {r}

\* The decoding list gains the request.
LEMMA ToDecodingIs ==
  ASSUME NEW l \in ListType, Apart(l), NEW r \in Req, r \notin Members(l),
         NEW k, k = ToDecoding(l, r)
  PROVE  Gains(l, k, r) /\ k.prefilling = l.prefilling /\ k.capturing = l.capturing
         /\ k.decoding = Append(l.decoding, r)
<1>1. PICK d : d = Append(l.decoding, r)
  BY ZenonT(30)
<1>2. d \in Seq(Req) /\ ToSet(d) = ToSet(l.decoding) \cup {r} /\ Distinct(d)
  BY <1>1, ListFacts, AppendMembers DEF Members, Apart
<1>3. k = Sorted(l.prefilling, d, l.capturing, l.waiting)
  BY <1>1, ListIs, ZenonT(30) DEF ToDecoding, Sorted, ListType
<1>4. /\ k \in ListType /\ k.prefilling = l.prefilling /\ k.decoding = d
      /\ k.capturing = l.capturing /\ k.waiting = l.waiting
  BY <1>2, <1>3, ListFacts DEF Sorted, ListType
<1>5. Apart(k)
  BY <1>2, <1>4 DEF Apart, Members
<1>6. Members(k) = Members(l) \cup {r}
  BY <1>2, <1>4 DEF Members
<1>. QED
  BY <1>1, <1>2, <1>4, <1>5, <1>6 DEF Gains

\* The prefilling list gains the request.
LEMMA ToPrefillingIs ==
  ASSUME NEW l \in ListType, Apart(l), NEW r \in Req, r \notin Members(l),
         NEW k, k = ToPrefilling(l, r)
  PROVE  Gains(l, k, r) /\ k.decoding = l.decoding
<1>1. PICK d : d = Append(l.prefilling, r)
  BY ZenonT(30)
<1>2. d \in Seq(Req) /\ ToSet(d) = ToSet(l.prefilling) \cup {r} /\ Distinct(d)
  BY <1>1, ListFacts, AppendMembers DEF Members, Apart
<1>3. k = Sorted(d, l.decoding, l.capturing, l.waiting)
  BY <1>1, ListIs, ZenonT(30) DEF ToPrefilling, Sorted, ListType
<1>4. /\ k \in ListType /\ k.prefilling = d /\ k.decoding = l.decoding
      /\ k.capturing = l.capturing /\ k.waiting = l.waiting
  BY <1>2, <1>3, ListFacts DEF Sorted, ListType
<1>5. Apart(k)
  BY <1>2, <1>4 DEF Apart, Members
<1>6. Members(k) = Members(l) \cup {r}
  BY <1>2, <1>4 DEF Members
<1>. QED
  BY <1>1, <1>2, <1>4, <1>5, <1>6 DEF Gains

\* The capturing list gains the request.
LEMMA ToCapturingIs ==
  ASSUME NEW l \in ListType, Apart(l), NEW r \in Req, r \notin Members(l),
         NEW k, k = ToCapturing(l, r)
  PROVE  Gains(l, k, r) /\ k.decoding = l.decoding
<1>1. PICK d : d = Append(l.capturing, r)
  BY ZenonT(30)
<1>2. d \in Seq(Req) /\ ToSet(d) = ToSet(l.capturing) \cup {r} /\ Distinct(d)
  BY <1>1, ListFacts, AppendMembers DEF Members, Apart
<1>3. k = Sorted(l.prefilling, l.decoding, d, l.waiting)
  BY <1>1, ListIs, ZenonT(30) DEF ToCapturing, Sorted, ListType
<1>4. /\ k \in ListType /\ k.prefilling = l.prefilling /\ k.decoding = l.decoding
      /\ k.capturing = d /\ k.waiting = l.waiting
  BY <1>2, <1>3, ListFacts DEF Sorted, ListType
<1>5. Apart(k)
  BY <1>2, <1>4 DEF Apart, Members
<1>6. Members(k) = Members(l) \cup {r}
  BY <1>2, <1>4 DEF Members
<1>. QED
  BY <1>1, <1>2, <1>4, <1>5, <1>6 DEF Gains

\* A live request goes back to one of the lists, an ended one to none.
LEMMA RequeuedIs ==
  ASSUME NEW l \in ListType, Apart(l), NEW r \in Req, r \notin Members(l),
         NEW w, NEW k, k = Requeued(l, w, r)
  PROVE  IF w.req[r].out = "none" THEN Gains(l, k, r) ELSE k = l
<1>1. CASE w.req[r].out # "none"
  BY <1>1 DEF Requeued, IsTerminal
<1>2. CASE w.req[r].out = "none"
  <2>1. k = ToCapturing(l, r) \/ k = ToDecoding(l, r) \/ k = ToPrefilling(l, r)
    BY <1>2 DEF Requeued, IsTerminal, ToCapturing, ToDecoding, ToPrefilling
  <2>2. Gains(l, k, r)
    BY <2>1, ToCapturingIs, ToDecodingIs, ToPrefillingIs
  <2>. QED
    BY <1>2, <2>2
<1>. QED
  BY <1>1, <1>2

\* The fold of Requeued over a batch, by the set of places passed.
RequeueStep(g, l, w, s) ==
  g = [d \in SUBSET (DOMAIN s) |->
         IF d = {} THEN l ELSE Requeued(g[d \ {Max(d)}], w, s[Max(d)])]

\* RequeuedAll is that fold.
LEMMA RequeuedSeqIs ==
  ASSUME NEW l, NEW w, NEW s
  PROVE  RequeuedAll(l, w, s) = (CHOOSE g : RequeueStep(g, l, w, s))[DOMAIN s]
BY DEF RequeuedAll, FoldLeft, MapThenFoldSet, RequeueStep

\* One request more, from any lists to lists.
LEMMA RequeuedType ==
  ASSUME NEW l \in ListType, NEW r \in Req, NEW w
  PROVE  Requeued(l, w, r) \in ListType
<1>1. PICK k : k = Requeued(l, w, r)
  OBVIOUS
<1>2. k = l \/ k = ToCapturing(l, r) \/ k = ToDecoding(l, r) \/ k = ToPrefilling(l, r)
  BY <1>1 DEF Requeued, IsTerminal, ToCapturing, ToDecoding, ToPrefilling
<1>3. /\ Append(l.decoding, r) \in Seq(Req) /\ Append(l.capturing, r) \in Seq(Req)
      /\ Append(l.prefilling, r) \in Seq(Req)
  BY ListFacts, AppendMembers
<1>4. ToCapturing(l, r) \in ListType
  BY <1>3, ZenonT(30) DEF ListType, ToCapturing
<1>5. ToDecoding(l, r) \in ListType
  BY <1>3, ZenonT(30) DEF ListType, ToDecoding
<1>6. ToPrefilling(l, r) \in ListType
  BY <1>3, ZenonT(30) DEF ListType, ToPrefilling
<1>. QED
  BY <1>1, <1>2, <1>4, <1>5, <1>6

\* The fold is defined.
LEMMA RequeuesExist ==
  ASSUME NEW l \in ListType, NEW w, NEW s \in Seq(Req)
  PROVE  \E g : RequeueStep(g, l, w, s)
<1>1. PICK n \in Nat : n = Len(s) /\ DOMAIN s = 1 .. n /\ \A i \in 1 .. n : s[i] \in Req
  BY SeqFacts
<1>2. PICK c : c = Greatest(n)
  OBVIOUS
<1>3. Picks(c, 1 .. n) /\ IsFiniteSet(1 .. n)
  BY <1>2, GreatestPicks
<1>4. \A d \in SUBSET (1 .. n) : d # {} => c[d] = Max(d) /\ c[d] \in d /\ s[c[d]] \in Req
  BY <1>1, <1>2, MaxIn, ZenonT(30) DEF Greatest
<1>5. PICK H : H = [d \in SUBSET (1 .. n) |-> [k \in ListType |->
                      IF d # {} THEN Requeued(k, w, s[c[d]]) ELSE k]]
  BY ZenonT(30)
<1>6. H \in [SUBSET (1 .. n) -> [ListType -> ListType]]
  BY <1>4, <1>5, RequeuedType
<1>7. PICK g \in [SUBSET (1 .. n) -> ListType] : IsFold(g, 1 .. n, c, l, H)
  BY <1>3, <1>6, FoldExists, ZenonT(30)
<1>8. ASSUME NEW d \in SUBSET (1 .. n)
      PROVE  g[d] = IF d = {} THEN l ELSE Requeued(g[d \ {Max(d)}], w, s[Max(d)])
  <2>1. CASE d = {}
    BY <1>7, <2>1, ZenonT(30) DEF IsFold
  <2>2. CASE d # {}
    <3>1. PICK m \in 1 .. n : m = c[d] /\ m = Max(d)
      BY <1>4, <2>2, ZenonT(30)
    <3>2. PICK k \in ListType : k = g[d \ {m}]
      BY <1>7
    <3>3. g[d] = H[d][k]
      BY <1>7, <2>2, <3>1, <3>2, ZenonT(30) DEF IsFold
    <3>4. H[d][k] = Requeued(k, w, s[m])
      BY <1>5, <2>2, <3>1, ZenonT(30)
    <3>. QED
      BY <2>2, <3>1, <3>2, <3>3, <3>4, ZenonT(30)
  <2>. QED
    BY <2>1, <2>2
<1>9. RequeueStep(g, l, w, s)
  BY <1>1, <1>7, <1>8 DEF RequeueStep
<1>. QED
  BY <1>9

\* The live requests of S were put back.
Refilled(l, k, w, S) ==
  /\ k \in ListType /\ Apart(k) /\ k.waiting = l.waiting
  /\ Members(k) = Members(l) \cup {r \in S : w.req[r].out = "none"}
  /\ ToSet(l.decoding) \subseteq ToSet(k.decoding)
  /\ ToSet(k.decoding) \subseteq ToSet(l.decoding) \cup S

\* Requeueing one more request.
LEMMA RefilledNext ==
  ASSUME NEW l, NEW k, NEW w, NEW S, Refilled(l, k, w, S),
         NEW r \in Req, r \notin S, r \notin Members(l), NEW m, m = Requeued(k, w, r)
  PROVE  Refilled(l, m, w, S \cup {r})
<1>1. k \in ListType /\ Apart(k) /\ r \notin Members(k)
  BY DEF Refilled
<1>2. IF w.req[r].out = "none" THEN Gains(k, m, r) ELSE m = k
  BY <1>1, RequeuedIs
<1>. QED
  BY <1>2 DEF Refilled, Gains

\* Every live request of a batch is put back.
LEMMA RequeuedSeq ==
  ASSUME NEW l \in ListType, Apart(l), NEW s \in Seq(Req), Distinct(s),
         Members(l) \cap ToSet(s) = {}, NEW w, NEW k, k = RequeuedAll(l, w, s)
  PROVE  Refilled(l, k, w, ToSet(s))
<1>1. PICK n \in Nat : n = Len(s) /\ DOMAIN s = 1 .. n /\ \A i \in 1 .. n : s[i] \in Req
  BY SeqFacts
<1>2. PICK c : c = Greatest(n)
  OBVIOUS
<1>3. Picks(c, 1 .. n) /\ IsFiniteSet(1 .. n)
  BY <1>2, GreatestPicks
<1>4. \A d \in SUBSET (1 .. n) : c[d] = Max(d)
  BY <1>2 DEF Greatest
<1>5. PICK h : h = CHOOSE g : RequeueStep(g, l, w, s)
  OBVIOUS
<1>6. RequeueStep(h, l, w, s)
  BY <1>5, RequeuesExist, ZenonT(30)
<1>7. k = h[1 .. n]
  BY <1>1, <1>5, RequeuedSeqIs
<1>8. PICK J : J = [d \in SUBSET (1 .. n) |->
                      {m \in ListType : Refilled(l, m, w, {s[i] : i \in d})}]
  BY ZenonT(30)
<1>9. h[{}] \in J[{}]
  <2>1. h[{}] = l
    BY <1>6 DEF RequeueStep
  <2>2. Refilled(l, l, w, {})
    BY DEF Refilled
  <2>3. {s[i] : i \in {}} = {}
    OBVIOUS
  <2>. QED
    BY <1>8, <2>1, <2>2, <2>3, ZenonT(30)
<1>10. ASSUME NEW d \in SUBSET (1 .. n), d # {}, h[d \ {c[d]}] \in J[d \ {c[d]}]
       PROVE  h[d] \in J[d]
  <2>1. PICK m \in d : m = c[d] /\ m = Max(d)
    BY <1>3, <1>4, <1>10, ZenonT(30) DEF Picks
  <2>2. PICK b \in SUBSET (1 .. n) : b = d \ {m}
    BY ZenonT(30)
  <2>3. PICK u : u = h[b]
    OBVIOUS
  <2>4. Refilled(l, u, w, {s[i] : i \in b})
    BY <1>8, <1>10, <2>1, <2>2, <2>3
  <2>5. h[d] = Requeued(u, w, s[m])
    BY <1>1, <1>6, <1>10, <2>1, <2>2, <2>3, ZenonT(30) DEF RequeueStep
  <2>6. s[m] \in Req /\ s[m] \in ToSet(s) /\ s[m] \notin Members(l)
    BY <1>1, SeqFacts
  <2>7. s[m] \notin {s[i] : i \in b}
    BY <1>1, <2>2, ZenonT(30) DEF Distinct
  <2>8. Refilled(l, h[d], w, {s[i] : i \in b} \cup {s[m]})
    BY <2>4, <2>5, <2>6, <2>7, RefilledNext
  <2>9. {s[i] : i \in b} \cup {s[m]} = {s[i] : i \in d}
    BY <2>1, <2>2
  <2>10. h[d] \in ListType
    BY <2>8 DEF Refilled
  <2>. QED
    BY <1>8, <2>8, <2>9, <2>10, ZenonT(30)
<1>11. h[1 .. n] \in J[1 .. n]
  BY <1>3, <1>9, <1>10, FoldInduction, ZenonT(30)
<1>12. ToSet(s) = {s[i] : i \in 1 .. n}
  BY <1>1, SeqFacts
<1>. QED
  BY <1>7, <1>8, <1>11, <1>12

-----------------------------------------------------------------------------
(* Every request in one place *)

\* f are the requests, Q those in the queue, l the worker's lists and B its
\* batch.  Accepted and live means in one of the three, counted means the
\* worker's, and counted requests have a session each.
Placement(f, Q, l, B) ==
  /\ Apart(l)
  /\ B \subseteq Req /\ Q \subseteq Req /\ Members(l) \subseteq Req
  /\ Members(l) \cap B = {} /\ Q \cap (Members(l) \cup B) = {}
  /\ \A r \in Q \cup Members(l) : f[r].out = "none"
  /\ \A r \in Q \cup Members(l) \cup B : f[r].handle \in {"held", "dropped"}
  /\ \A r \in Req : f[r].handle = "none" => f[r] = FreshRequest
  /\ \A r \in Req : f[r].handle = "gone" => f[r].out # "none"
  /\ \A r \in Req : f[r].handle \in {"held", "dropped"} /\ f[r].out = "none" =>
       r \in Q \cup Members(l) \cup B
  /\ \A r \in Req : f[r].counted => r \in Members(l) \cup B
  /\ \A r \in Members(l) \cup B : f[r].out = "none" => f[r].counted
  /\ \A r \in Req : f[r].out # "none" => ~f[r].counted

\* A counted request has a session of its own.
Seating(f) ==
  /\ \A r \in Req : f[r].counted <=> f[r].session # 0
  /\ \A r \in Req : f[r].session <= mode.capacity
  /\ \A r, x \in Req : f[r].counted /\ f[r].session = f[x].session => r = x

\* A step moves requests between the places, or ends them.
Moved(f, Q, l, B, g, R, k, C) ==
  /\ Apart(k) /\ Members(k) \cap C = {}
  /\ R \subseteq Q /\ Members(k) \cup C \subseteq Members(l) \cup B
  /\ \A r \in Q \cup Members(l) \cup B : g[r].out = "none" => r \in R \cup Members(k) \cup C
  /\ \A r \in R \cup Members(k) : g[r].out = "none"
  /\ \A r \in Req : f[r].handle = "none" => g[r] = f[r]
  /\ \A r \in Req : Keeps(f[r], g[r])

\* A request moved from one place to another keeps the placement.
LEMMA PlacesMoved ==
  ASSUME mode \in Modes,
         NEW f, NEW Q, NEW l, NEW B, Placement(f, Q, l, B), Seating(f),
         NEW g, NEW R, NEW k, NEW C, Moved(f, Q, l, B, g, R, k, C)
  PROVE  Placement(g, R, k, C) /\ Seating(g)
<1>1. \A r \in Req :
        /\ g[r].handle = f[r].handle
        /\ \/ g[r].out # "none" /\ ~g[r].counted /\ g[r].session = 0
           \/ g[r].out = f[r].out /\ g[r].counted = f[r].counted /\ g[r].session = f[r].session
  BY DEF Moved, Keeps
<1>2. Apart(k) /\ C \subseteq Req /\ R \subseteq Req /\ Members(k) \subseteq Req
  BY DEF Moved, Placement
<1>3. Members(k) \cap C = {} /\ R \cap (Members(k) \cup C) = {}
  BY DEF Moved, Placement
<1>4. \A r \in R \cup Members(k) : g[r].out = "none"
  BY DEF Moved
<1>5. \A r \in R \cup Members(k) \cup C : g[r].handle \in {"held", "dropped"}
  BY <1>1, <1>2 DEF Moved, Placement
<1>6. \A r \in Req : g[r].handle = "none" => g[r] = FreshRequest
  BY <1>1 DEF Moved, Placement
<1>7. \A r \in Req : g[r].handle = "gone" => g[r].out # "none"
  BY <1>1 DEF Placement
<1>8. \A r \in Req : g[r].handle \in {"held", "dropped"} /\ g[r].out = "none" =>
        r \in R \cup Members(k) \cup C
  BY <1>1 DEF Moved, Placement
<1>9. \A r \in Req : g[r].counted => r \in Members(k) \cup C
  <2>. SUFFICES ASSUME NEW r \in Req, g[r].counted PROVE r \in Members(k) \cup C
    OBVIOUS
  <2>1. f[r].counted /\ g[r].out = f[r].out
    BY <1>1
  <2>2. r \in Members(l) \cup B /\ f[r].out = "none"
    BY <2>1 DEF Placement
  <2>3. r \in R \cup Members(k) \cup C
    BY <2>1, <2>2 DEF Moved
  <2>4. r \notin R
    BY <2>2 DEF Moved, Placement
  <2>. QED
    BY <2>3, <2>4
<1>10. \A r \in Members(k) \cup C : g[r].out = "none" => g[r].counted
  <2>. SUFFICES ASSUME NEW r \in Members(k) \cup C, g[r].out = "none" PROVE g[r].counted
    OBVIOUS
  <2>1. r \in Req /\ r \in Members(l) \cup B
    BY <1>2 DEF Moved
  <2>2. f[r].out = "none" /\ g[r].counted = f[r].counted
    BY <1>1, <2>1
  <2>. QED
    BY <2>1, <2>2 DEF Placement
<1>11. \A r \in Req : g[r].out # "none" => ~g[r].counted
  BY <1>1 DEF Placement
<1>12. Placement(g, R, k, C)
  BY <1>2, <1>3, <1>4, <1>5, <1>6, <1>7, <1>8, <1>9, <1>10, <1>11 DEF Placement
<1>13. \A r \in Req : g[r].counted <=> g[r].session # 0
  BY <1>1 DEF Seating
<1>14. \A r \in Req : g[r].session <= mode.capacity
  <2>1. 0 <= mode.capacity
    BY ModeFacts
  <2>. QED
    BY <1>1, <2>1 DEF Seating
<1>15. ASSUME NEW r \in Req, NEW x \in Req, g[r].counted, g[r].session = g[x].session
       PROVE  r = x
  <2>1. f[r].counted /\ g[r].session = f[r].session /\ f[r].session # 0
    BY <1>1, <1>13, <1>15 DEF Seating
  <2>2. g[x].session = f[x].session
    BY <1>1, <1>15, <2>1, ZenonT(30)
  <2>. QED
    BY <1>15, <2>1, <2>2, ZenonT(30) DEF Seating
<1>. QED
  BY <1>12, <1>13, <1>14, <1>15 DEF Seating

-----------------------------------------------------------------------------
(* The queue *)

\* The entries of the client queue.
Entries == [id : ClientIds, requests : Seq(Req)]

\* The requests of a queue.
QueuedIn(c) == UNION {ToSet(e.requests) : e \in ToSet(c)}

\* A client's entry holds its own requests, each once, and never none.
Proper(e) ==
  /\ Distinct(e.requests) /\ e.requests # <<>>
  /\ \A r \in ToSet(e.requests) : Clients[r] = e.id

\* One entry per client.
Lined(c) ==
  /\ c \in Seq(Entries) /\ Distinct(c)
  /\ \A e \in ToSet(c) : Proper(e)
  /\ \A d, e \in ToSet(c) : d.id = e.id => d = e

\* An entry of the queue, and one with other requests.
LEMMA EntryFacts ==
  ASSUME NEW e \in Entries
  PROVE  /\ e.id \in ClientIds /\ e.requests \in Seq(Req)
         /\ ToSet(e.requests) \subseteq Req
         /\ \A x \in Seq(Req) : [id |-> e.id, requests |-> x] \in Entries
<1>1. e.id \in ClientIds /\ e.requests \in Seq(Req)
  BY DEF Entries
<1>2. \A x \in Seq(Req) : [id |-> e.id, requests |-> x] \in Entries
  BY <1>1 DEF Entries
<1>. QED
  BY <1>1, <1>2, SeqFacts

\* The model's queue.
LEMMA QueuedIs ==
  ASSUME Lined(clients)
  PROVE  Queued = QueuedIn(clients)
<1>1. ToSet(clients) = {clients[i] : i \in 1 .. Len(clients)} /\ DOMAIN clients = 1 .. Len(clients)
  BY SeqFacts DEF Lined
<1>. QED
  BY <1>1 DEF Queued, QueuedIn

-----------------------------------------------------------------------------
(* RemoveQueued *)

\* The entries without the requests of a set.
Left(S) == [i \in DOMAIN clients |->
              [id |-> clients[i].id, requests |-> Only(clients[i].requests, Req \ S)]]

\* The entries with requests.
Filled(s) == {e \in ToSet(s) : e.requests # <<>>}

\* A sequence without members is empty.
LEMMA EmptyMembers ==
  ASSUME NEW T, NEW s \in Seq(T)
  PROVE  s = <<>> <=> ToSet(s) = {}
<1>1. ToSet(s) = {s[i] : i \in 1 .. Len(s)} /\ Len(s) \in Nat
  BY SeqFacts
<1>2. s # <<>> => s[1] \in ToSet(s)
  <2>. SUFFICES ASSUME s # <<>> PROVE s[1] \in ToSet(s)
    OBVIOUS
  <2>1. 1 \in 1 .. Len(s)
    BY EmptySeq
  <2>. QED
    BY <1>1, <2>1
<1>3. ToSet(<<>>) = {}
  BY ShortMembers
<1>. QED
  BY <1>2, <1>3

\* RemoveQueued removes exactly the given requests and no entry with another.
LEMMA RemoveQueuedIs ==
  ASSUME Lined(clients), NEW S, NEW c, c = RemoveQueued(S)
  PROVE  Lined(c) /\ QueuedIn(c) = QueuedIn(clients) \ S
<1>1. PICK l : l = Left(S)
  OBVIOUS
<1>2. PICK n \in Nat : /\ n = Len(clients) /\ DOMAIN clients = 1 .. n
                       /\ ToSet(clients) = {clients[i] : i \in 1 .. n}
                       /\ \A i \in 1 .. n : clients[i] \in Entries
  BY SeqFacts DEF Lined
<1>3. ASSUME NEW i \in 1 .. n
      PROVE  /\ l[i] \in Entries /\ l[i].id = clients[i].id
             /\ l[i].requests \in Seq(Req) /\ Distinct(l[i].requests)
             /\ ToSet(l[i].requests) = ToSet(clients[i].requests) \ S
             /\ \A r \in ToSet(l[i].requests) : Clients[r] = l[i].id
  <2>1. PICK e \in Entries : e = clients[i] /\ e \in ToSet(clients)
    BY <1>2
  <2>2. PICK x : x = Only(e.requests, Req \ S)
    OBVIOUS
  <2>3. /\ x \in Seq(Req) /\ ToSet(x) = ToSet(e.requests) \cap (Req \ S)
        /\ Distinct(e.requests) => Distinct(x)
    BY <2>2, EntryFacts, OnlyMembers
  <2>4. ToSet(x) = ToSet(e.requests) \ S /\ Distinct(x)
    BY <2>1, <2>3, EntryFacts DEF Lined, Proper
  <2>5. l[i] = [id |-> e.id, requests |-> x]
    BY <1>1, <1>2, <2>1, <2>2 DEF Left
  <2>6. \A r \in ToSet(x) : Clients[r] = e.id
    BY <2>1, <2>4 DEF Lined, Proper
  <2>7. l[i] \in Entries /\ l[i].id = e.id /\ l[i].requests = x
    BY <2>3, <2>5, EntryFacts
  <2>. QED
    BY <2>1, <2>3, <2>4, <2>6, <2>7
<1>4. l \in Seq(Entries) /\ DOMAIN l = 1 .. n
  <2>1. l \in [1 .. n -> Entries]
    BY <1>1, <1>2, <1>3, ZenonT(30) DEF Left
  <2>. QED
    BY <2>1, SeqDef
<1>5. \A i, j \in 1 .. n : clients[i].id = clients[j].id => i = j
  BY <1>2 DEF Lined, Distinct
<1>6. Distinct(l)
  BY <1>3, <1>4, <1>5 DEF Distinct
<1>7. ToSet(l) = {l[i] : i \in 1 .. n}
  <2>1. ToSet(l) = {l[i] : i \in 1 .. Len(l)} /\ DOMAIN l = 1 .. Len(l)
    BY <1>4, SeqFacts
  <2>. QED
    BY <1>4, <2>1
<1>8. c = Only(l, Filled(l))
  BY <1>1 DEF RemoveQueued, Left, Filled
<1>9. /\ c \in Seq(Entries) /\ ToSet(c) = ToSet(l) \cap Filled(l) /\ Distinct(c)
  BY <1>4, <1>6, <1>8, OnlyMembers
<1>10. ToSet(c) = Filled(l)
  BY <1>9 DEF Filled
<1>11. ASSUME NEW e \in ToSet(c)
       PROVE  \E i \in 1 .. n : e = l[i] /\ e.requests # <<>>
  BY <1>7, <1>10, <1>11 DEF Filled
<1>12. \A e \in ToSet(c) : Proper(e)
  BY <1>3, <1>11 DEF Proper
<1>13. \A d, e \in ToSet(c) : d.id = e.id => d = e
  BY <1>3, <1>5, <1>11
<1>14. QueuedIn(c) = QueuedIn(clients) \ S
  <2>1. ASSUME NEW r \in QueuedIn(c) PROVE r \in QueuedIn(clients) \ S
    <3>1. PICK e \in ToSet(c) : r \in ToSet(e.requests)
      BY <2>1 DEF QueuedIn
    <3>2. PICK i \in 1 .. n : e = l[i]
      BY <1>11
    <3>3. r \in ToSet(l[i].requests)
      BY <3>1, <3>2
    <3>4. r \in ToSet(clients[i].requests) /\ r \notin S
      BY <1>3, <3>3, ZenonT(30)
    <3>5. clients[i] \in ToSet(clients)
      BY <1>2
    <3>. QED
      BY <3>4, <3>5 DEF QueuedIn
  <2>2. ASSUME NEW r \in QueuedIn(clients) \ S PROVE r \in QueuedIn(c)
    <3>9. PICK e \in ToSet(clients) : r \in ToSet(e.requests)
      BY <2>2 DEF QueuedIn
    <3>0. PICK i \in 1 .. n : e = clients[i]
      BY <1>2, <3>9
    <3>1. r \in ToSet(clients[i].requests)
      BY <3>0, <3>9
    <3>2. r \in ToSet(l[i].requests)
      BY <1>3, <2>2, <3>1
    <3>3. l[i].requests # <<>>
      BY <3>2, ShortMembers
    <3>4. l[i] \in ToSet(c)
      BY <1>7, <1>10, <3>3 DEF Filled
    <3>. QED
      BY <3>2, <3>4 DEF QueuedIn
  <2>. QED
    BY <2>1, <2>2
<1>. QED
  BY <1>9, <1>12, <1>13, <1>14 DEF Lined

-----------------------------------------------------------------------------
(* PopQueued and Submit *)

\* The entry less its first request.
Shortened(e) == [e EXCEPT !.requests = Tail(@)]

\* An entry that loses its first request.
LEMMA ShortenedIs ==
  ASSUME NEW e \in Entries, NEW d, d = Shortened(e), e.requests # <<>>
  PROVE  /\ d \in Entries /\ d.id = e.id /\ d.requests = Tail(e.requests)
         /\ Head(e.requests) \in Req
         /\ ToSet(e.requests) = {Head(e.requests)} \cup ToSet(d.requests)
         /\ Distinct(e.requests) =>
              Distinct(d.requests) /\ Head(e.requests) \notin ToSet(d.requests)
         /\ d.requests = <<>> <=> Len(e.requests) = 1
<1>1. e = [id |-> e.id, requests |-> e.requests] /\ e.requests \in Seq(Req)
  BY DEF Entries
<1>2. Tail(e.requests) \in Seq(Req)
  BY <1>1, HeadTailMembers
<1>3. d = [id |-> e.id, requests |-> Tail(e.requests)]
  BY <1>1, ZenonT(30) DEF Shortened
<1>4. d \in Entries
  BY <1>2, <1>3, EntryFacts, ZenonT(30)
<1>. QED
  BY <1>1, <1>3, <1>4, HeadTailMembers

\* The request at the front leaves the queue, its client goes to the back.
LEMMA RotatedIs ==
  ASSUME Lined(clients), clients # <<>>, NEW r, r = Head(Head(clients).requests),
         NEW c, c = Rotated
  PROVE  /\ r \in QueuedIn(clients) /\ Lined(c)
         /\ QueuedIn(c) = QueuedIn(clients) \ {r}
<1>0. PICK t : t = Tail(clients)
  BY ZenonT(30)
<1>1. PICK e : e = Head(clients)
  OBVIOUS
<1>2. PICK d : d = Shortened(e)
  OBVIOUS
<1>3. /\ e \in Entries /\ t \in Seq(Entries) /\ ToSet(clients) = {e} \cup ToSet(t)
      /\ Distinct(t) /\ e \notin ToSet(t)
  BY <1>0, <1>1, HeadTailMembers DEF Lined
<1>4. /\ Proper(e) /\ \A x \in ToSet(t) : Proper(x) /\ x.id # e.id
  BY <1>3 DEF Lined
<1>5. e.requests # <<>> /\ Distinct(e.requests) /\ r = Head(e.requests)
  BY <1>1, <1>4 DEF Proper
<1>6. /\ d \in Entries /\ d.id = e.id
      /\ r \in Req
      /\ ToSet(e.requests) = {r} \cup ToSet(d.requests)
      /\ Distinct(d.requests) /\ r \notin ToSet(d.requests)
      /\ d.requests = <<>> <=> Len(e.requests) = 1
  <2>1. /\ d \in Entries /\ d.id = e.id /\ d.requests = Tail(e.requests)
        /\ Head(e.requests) \in Req
        /\ ToSet(e.requests) = {Head(e.requests)} \cup ToSet(d.requests)
        /\ Distinct(e.requests) =>
             Distinct(d.requests) /\ Head(e.requests) \notin ToSet(d.requests)
        /\ d.requests = <<>> <=> Len(e.requests) = 1
    BY <1>2, <1>3, <1>5, ShortenedIs, ZenonT(30)
  <2>. QED
    BY <1>5, <2>1, ZenonT(30)
<1>7. r \in QueuedIn(clients)
  BY <1>3, <1>6 DEF QueuedIn
<1>8. \A x \in ToSet(t) : r \notin ToSet(x.requests)
  <2>1. Clients[r] = e.id
    BY <1>4, <1>6 DEF Proper
  <2>. QED
    BY <1>4, <2>1 DEF Proper
<1>9. d.requests # <<>> => Proper(d)
  BY <1>4, <1>6 DEF Proper
<1>10. c = IF Len(e.requests) = 1 THEN t ELSE Append(t, d)
  BY <1>0, <1>1, <1>2 DEF Rotated, Shortened
<1>11. CASE Len(e.requests) = 1
  <2>1. c = t
    BY <1>10, <1>11
  <2>2. ToSet(d.requests) = {}
    BY <1>6, <1>11, ShortMembers
  <2>3. Lined(t)
    BY <1>3, <1>4 DEF Lined
  <2>4. QueuedIn(t) = QueuedIn(clients) \ {r}
    <3>1. \A x \in QueuedIn(t) : x \in QueuedIn(clients) /\ x # r
      BY <1>3, <1>8 DEF QueuedIn
    <3>2. \A x \in QueuedIn(clients) : x # r => x \in QueuedIn(t)
      BY <1>3, <1>6, <2>2 DEF QueuedIn
    <3>. QED
      BY <3>1, <3>2
  <2>. QED
    BY <1>7, <2>1, <2>3, <2>4
<1>12. CASE Len(e.requests) # 1
  <2>1. c = Append(t, d)
    BY <1>10, <1>12
  <2>2. Proper(d) /\ d \notin ToSet(t)
    BY <1>4, <1>6, <1>9, <1>12
  <2>3. c \in Seq(Entries) /\ ToSet(c) = ToSet(t) \cup {d} /\ Distinct(c)
    BY <1>3, <1>6, <2>1, <2>2, AppendMembers
  <2>4. \A x \in ToSet(c) : Proper(x)
    BY <1>4, <2>2, <2>3
  <2>5. \A x, y \in ToSet(c) : x.id = y.id => x = y
    BY <1>3, <1>4, <1>6, <2>3 DEF Lined
  <2>6. QueuedIn(c) = QueuedIn(clients) \ {r}
    <3>1. \A x \in QueuedIn(c) : x \in QueuedIn(clients) /\ x # r
      BY <1>3, <1>6, <1>8, <2>3 DEF QueuedIn
    <3>2. \A x \in QueuedIn(clients) : x # r => x \in QueuedIn(c)
      BY <1>3, <1>6, <2>3 DEF QueuedIn
    <3>. QED
      BY <3>1, <3>2
  <2>. QED
    BY <1>7, <2>3, <2>4, <2>5, <2>6 DEF Lined
<1>. QED
  BY <1>11, <1>12

\* The entry with one request more.
Lengthened(e, r) == [e EXCEPT !.requests = Append(@, r)]

\* An entry that gains a request.
LEMMA LengthenedIs ==
  ASSUME NEW e \in Entries, NEW r \in Req, NEW d, d = Lengthened(e, r)
  PROVE  /\ d \in Entries /\ d.id = e.id /\ d.requests # <<>>
         /\ ToSet(d.requests) = ToSet(e.requests) \cup {r}
         /\ Distinct(e.requests) /\ r \notin ToSet(e.requests) => Distinct(d.requests)
<1>1. e = [id |-> e.id, requests |-> e.requests] /\ e.requests \in Seq(Req)
  BY DEF Entries
<1>2. PICK x : x = Append(e.requests, r)
  BY ZenonT(30)
<1>3. d = [id |-> e.id, requests |-> x]
  BY <1>1, <1>2, ZenonT(30) DEF Lengthened
<1>4. /\ x \in Seq(Req) /\ ToSet(x) = ToSet(e.requests) \cup {r}
      /\ Distinct(e.requests) /\ r \notin ToSet(e.requests) => Distinct(x)
  BY <1>1, <1>2, AppendMembers
<1>5. x # <<>>
  BY <1>4, ShortMembers, ZenonT(30)
<1>6. d \in Entries
  BY <1>3, <1>4, EntryFacts
<1>. QED
  BY <1>3, <1>4, <1>5, <1>6

\* The queue with a request added to its client's entry.
OwnEntry(r) ==
  [i \in DOMAIN clients |-> IF clients[i].id = Clients[r] THEN Lengthened(clients[i], r)
                            ELSE clients[i]]

\* A new client's entry.
NewEntry(r) == [id |-> Clients[r], requests |-> <<r>>]

\* A request added to its client's entry.
LEMMA OwnEntryIs ==
  ASSUME Lined(clients), NEW r \in Req, r \notin QueuedIn(clients),
         \E i \in DOMAIN clients : clients[i].id = Clients[r],
         NEW c, c = OwnEntry(r)
  PROVE  Lined(c) /\ QueuedIn(c) = QueuedIn(clients) \cup {r}
<1>1. PICK n \in Nat : /\ n = Len(clients) /\ DOMAIN clients = 1 .. n
                       /\ ToSet(clients) = {clients[i] : i \in 1 .. n}
                       /\ \A i \in 1 .. n : clients[i] \in Entries
  BY SeqFacts DEF Lined
<1>2. ASSUME NEW i \in 1 .. n
      PROVE  /\ c[i] \in Entries /\ c[i].id = clients[i].id /\ Proper(c[i])
             /\ ToSet(c[i].requests) = ToSet(clients[i].requests)
                  \cup (IF clients[i].id = Clients[r] THEN {r} ELSE {})
  <2>1. PICK e \in Entries : e = clients[i] /\ e \in ToSet(clients)
    BY <1>1
  <2>2. Proper(e) /\ r \notin ToSet(e.requests)
    BY <2>1 DEF Lined, QueuedIn
  <2>3. PICK d : d = Lengthened(e, r)
    OBVIOUS
  <2>4. /\ d \in Entries /\ d.id = e.id /\ d.requests # <<>>
        /\ ToSet(d.requests) = ToSet(e.requests) \cup {r} /\ Distinct(d.requests)
    BY <2>2, <2>3, LengthenedIs DEF Proper
  <2>5. e.id = Clients[r] => Proper(d)
    BY <2>2, <2>4 DEF Proper
  <2>6. c[i] = IF e.id = Clients[r] THEN d ELSE e
    BY <1>1, <2>1, <2>3 DEF OwnEntry
  <2>. QED
    BY <2>1, <2>2, <2>4, <2>5, <2>6
<1>3. c \in Seq(Entries) /\ DOMAIN c = 1 .. n
  <2>1. c \in [1 .. n -> Entries]
    BY <1>1, <1>2 DEF OwnEntry
  <2>. QED
    BY <2>1, SeqDef
<1>4. \A i, j \in 1 .. n : clients[i].id = clients[j].id => i = j
  BY <1>1 DEF Lined, Distinct
<1>5. Distinct(c)
  BY <1>2, <1>3, <1>4 DEF Distinct
<1>6. ToSet(c) = {c[i] : i \in 1 .. n}
  <2>1. ToSet(c) = {c[i] : i \in 1 .. Len(c)} /\ DOMAIN c = 1 .. Len(c)
    BY <1>3, SeqFacts
  <2>. QED
    BY <1>3, <2>1
<1>7. /\ \A e \in ToSet(c) : Proper(e)
      /\ \A d, e \in ToSet(c) : d.id = e.id => d = e
  BY <1>2, <1>4, <1>6
<1>8. PICK k \in 1 .. n : clients[k].id = Clients[r]
  BY <1>1
<1>9. QueuedIn(c) = QueuedIn(clients) \cup {r}
  <2>1. ASSUME NEW x \in QueuedIn(c) PROVE x \in QueuedIn(clients) \cup {r}
    <3>1. PICK e \in ToSet(c) : x \in ToSet(e.requests)
      BY <2>1 DEF QueuedIn
    <3>2. PICK i \in 1 .. n : e = c[i]
      BY <1>6, <3>1
    <3>3. x \in ToSet(clients[i].requests) \cup {r}
      BY <1>2, <3>1, <3>2
    <3>4. clients[i] \in ToSet(clients)
      BY <1>1
    <3>. QED
      BY <3>3, <3>4 DEF QueuedIn
  <2>2. ASSUME NEW x \in QueuedIn(clients) PROVE x \in QueuedIn(c)
    <3>1. PICK e \in ToSet(clients) : x \in ToSet(e.requests)
      BY <2>2 DEF QueuedIn
    <3>2. PICK i \in 1 .. n : e = clients[i]
      BY <1>1, <3>1
    <3>3. x \in ToSet(c[i].requests)
      BY <1>2, <3>1, <3>2
    <3>4. c[i] \in ToSet(c)
      BY <1>6
    <3>. QED
      BY <3>3, <3>4 DEF QueuedIn
  <2>3. r \in QueuedIn(c)
    <3>1. r \in ToSet(c[k].requests)
      BY <1>2, <1>8
    <3>2. c[k] \in ToSet(c)
      BY <1>6
    <3>. QED
      BY <3>1, <3>2 DEF QueuedIn
  <2>. QED
    BY <2>1, <2>2, <2>3
<1>. QED
  BY <1>3, <1>5, <1>7, <1>9 DEF Lined

\* A request added with a new entry for its client.
LEMMA NewEntryIs ==
  ASSUME Lined(clients), NEW r \in Req, r \notin QueuedIn(clients),
         ~\E i \in DOMAIN clients : clients[i].id = Clients[r],
         NEW c, c = Append(clients, NewEntry(r))
  PROVE  Lined(c) /\ QueuedIn(c) = QueuedIn(clients) \cup {r}
<1>1. PICK e : e = NewEntry(r)
  OBVIOUS
<1>2. <<r>> \in Seq(Req) /\ ToSet(<<r>>) = {r} /\ Distinct(<<r>>) /\ <<r>> # <<>>
  BY ShortMembers
<1>3. e.id = Clients[r] /\ e.requests = <<r>> /\ e \in Entries
  BY <1>1, <1>2 DEF NewEntry, Entries, ClientIds
<1>4. Proper(e)
  BY <1>2, <1>3 DEF Proper
<1>5. \A x \in ToSet(clients) : x.id # e.id
  <2>1. ToSet(clients) = {clients[i] : i \in DOMAIN clients}
    BY SeqFacts DEF Lined
  <2>. QED
    BY <1>3, <2>1
<1>6. c \in Seq(Entries) /\ ToSet(c) = ToSet(clients) \cup {e} /\ Distinct(c)
  BY <1>1, <1>3, <1>5, AppendMembers DEF Lined
<1>7. /\ \A x \in ToSet(c) : Proper(x)
      /\ \A x, y \in ToSet(c) : x.id = y.id => x = y
  BY <1>4, <1>5, <1>6 DEF Lined
<1>8. QueuedIn(c) = QueuedIn(clients) \cup {r}
  <2>1. \A x \in QueuedIn(c) : x \in QueuedIn(clients) \cup {r}
    BY <1>2, <1>3, <1>6, ZenonT(30) DEF QueuedIn
  <2>2. \A x \in QueuedIn(clients) : x \in QueuedIn(c)
    BY <1>6 DEF QueuedIn
  <2>3. r \in QueuedIn(c)
    BY <1>2, <1>3, <1>6, ZenonT(30) DEF QueuedIn
  <2>. QED
    BY <2>1, <2>2, <2>3
<1>. QED
  BY <1>6, <1>7, <1>8 DEF Lined

\* A new request is queued once, behind those of its client.
LEMMA EnqueuedIs ==
  ASSUME Lined(clients), NEW r \in Req, r \notin QueuedIn(clients),
         NEW c, c = Enqueued(r)
  PROVE  Lined(c) /\ QueuedIn(c) = QueuedIn(clients) \cup {r}
<1>1. CASE \E i \in DOMAIN clients : clients[i].id = Clients[r]
  <2>1. c = OwnEntry(r)
    BY <1>1, ZenonT(30) DEF Enqueued, OwnEntry, Lengthened
  <2>. QED
    BY <1>1, <2>1, OwnEntryIs
<1>2. CASE ~\E i \in DOMAIN clients : clients[i].id = Clients[r]
  <2>1. c = Append(clients, NewEntry(r))
    BY <1>2, ZenonT(30) DEF Enqueued, NewEntry
  <2>. QED
    BY <1>2, <2>1, NewEntryIs, ZenonT(30)
<1>. QED
  BY <1>1, <1>2

-----------------------------------------------------------------------------
(* Orders *)

\* h takes the members of t from s, in their order.
Taking(h, t, s, d) ==
  /\ h \in [1 .. Len(t) -> d]
  /\ \A i \in 1 .. Len(t) : t[i] = s[h[i]]
  /\ \A i, j \in 1 .. Len(t) : i < j => h[i] < h[j]

\* One more member taken from a sequence.
LEMMA TakingNext ==
  ASSUME NEW T, NEW t \in Seq(T), NEW x \in T, NEW s, NEW d \in SUBSET Nat,
         NEW m \in d, s[m] = x, \A i \in d : i <= m,
         NEW h, Taking(h, t, s, d \ {m})
  PROVE  \E k : Taking(k, Append(t, x), s, d)
<1>1. PICK n \in Nat : n = Len(t)
  BY LenProperties
<1>2. PICK u : u = Append(t, x)
  BY ZenonT(30)
<1>3. Len(u) = n + 1 /\ u[n + 1] = x /\ \A i \in 1 .. n : u[i] = t[i]
  BY <1>1, <1>2, AppendProperties
<1>4. PICK k : k = [i \in 1 .. n + 1 |-> IF i = n + 1 THEN m ELSE h[i]]
  BY ZenonT(30)
<1>5. /\ \A i \in 1 .. n : h[i] \in d /\ h[i] # m /\ t[i] = s[h[i]]
      /\ \A i, j \in 1 .. n : i < j => h[i] < h[j]
  BY <1>1 DEF Taking
<1>6. k[n + 1] = m /\ \A i \in 1 .. n : k[i] = h[i] /\ h[i] < m
  <2>1. n + 1 \in 1 .. n + 1 /\ \A i \in 1 .. n : i \in 1 .. n + 1 /\ i # n + 1
    OBVIOUS
  <2>2. k[n + 1] = m /\ \A i \in 1 .. n : k[i] = h[i]
    BY <1>4, <2>1
  <2>3. ASSUME NEW i \in 1 .. n PROVE h[i] < m
    <3>1. PICK a \in Nat : a = h[i] /\ a # m /\ a <= m
      BY <1>5, ZenonT(30)
    <3>2. m \in Nat
      OBVIOUS
    <3>. QED
      BY <3>1, <3>2
  <2>. QED
    BY <2>2, <2>3
<1>7. k \in [1 .. n + 1 -> d]
  BY <1>4, <1>5
<1>8. \A i \in 1 .. n + 1 : u[i] = s[k[i]]
  BY <1>3, <1>5, <1>6
<1>9. \A i, j \in 1 .. n + 1 : i < j => k[i] < k[j]
  BY <1>5, <1>6
<1>10. Taking(k, u, s, d)
  BY <1>3, <1>7, <1>8, <1>9 DEF Taking
<1>. QED
  BY <1>2, <1>10

\* The members of a sequence that are in a set keep their order.
LEMMA OnlyOrder ==
  ASSUME NEW T, NEW s \in Seq(T), NEW S
  PROVE  \E h : Taking(h, Only(s, S), s, 1 .. Len(s))
<1>1. PICK n \in Nat : n = Len(s) /\ DOMAIN s = 1 .. n /\ \A i \in 1 .. n : s[i] \in T
  BY SeqFacts
<1>2. PICK c : c = Greatest(n)
  OBVIOUS
<1>3. Picks(c, 1 .. n) /\ IsFiniteSet(1 .. n)
  BY <1>2, GreatestPicks
<1>4. \A d \in SUBSET (1 .. n) : d # {} => /\ c[d] = Max(d) /\ c[d] \in d /\ s[c[d]] \in T
                                          /\ \A i \in d : i <= c[d]
  BY <1>1, <1>2, MaxIn, ZenonT(30) DEF Greatest
<1>5. PICK g : g = CHOOSE h : OnlyStep(h, s, S)
  OBVIOUS
<1>6. OnlyStep(g, s, S)
  BY <1>5, OnlyExists
<1>7. Only(s, S) = g[1 .. n]
  BY <1>1, <1>5, OnlyIs, ZenonT(30)
<1>8. PICK J : J = [d \in SUBSET (1 .. n) |-> {t \in Seq(T) : \E h : Taking(h, t, s, d)}]
  BY ZenonT(30)
<1>9. g[{}] \in J[{}]
  <2>1. g[{}] = <<>>
    BY <1>6 DEF OnlyStep
  <2>2. <<>> \in Seq(T) /\ Len(<<>>) = 0
    BY EmptySeq
  <2>3. PICK h : h = [i \in 1 .. 0 |-> i]
    OBVIOUS
  <2>4. Taking(h, <<>>, s, {})
    BY <2>2, <2>3 DEF Taking
  <2>. QED
    BY <1>8, <2>1, <2>2, <2>4
<1>10. ASSUME NEW d \in SUBSET (1 .. n), d # {}, g[d \ {c[d]}] \in J[d \ {c[d]}]
       PROVE  g[d] \in J[d]
  <2>1. PICK t \in Seq(T) : t = g[d \ {c[d]}]
    BY <1>8, <1>10, ZenonT(30)
  <2>2. PICK h : Taking(h, t, s, d \ {c[d]})
    BY <1>8, <1>10, <2>1, ZenonT(30)
  <2>3. PICK x \in T : x = s[c[d]]
    BY <1>4, <1>10
  <2>4. g[d] = IF x \in S THEN Append(t, x) ELSE t
    BY <1>1, <1>4, <1>6, <1>10, <2>1, <2>3, ZenonT(30) DEF OnlyStep
  <2>6. CASE x \notin S
    <3>1. Taking(h, t, s, d)
      BY <2>2 DEF Taking
    <3>. QED
      BY <1>8, <2>4, <2>6, <3>1
  <2>7. CASE x \in S
    <3>1. PICK u : u = Append(t, x)
      BY ZenonT(30)
    <3>2. u \in Seq(T)
      BY <3>1, AppendMembers
    <3>3. d \in SUBSET Nat /\ c[d] \in d /\ \A i \in d : i <= c[d]
      BY <1>4, <1>10
    <3>4. PICK m \in d : m = c[d]
      BY <3>3
    <3>5. s[m] = x /\ (\A i \in d : i <= m) /\ Taking(h, t, s, d \ {m})
      BY <2>2, <2>3, <3>3, <3>4
    <3>6. \E k : Taking(k, u, s, d)
      BY <3>1, <3>3, <3>5, TakingNext, ZenonT(30)
    <3>. QED
      BY <1>8, <2>4, <2>7, <3>1, <3>2, <3>6
  <2>. QED
    BY <2>6, <2>7
<1>11. g[1 .. n] \in J[1 .. n]
  BY <1>3, <1>9, <1>10, FoldInduction, ZenonT(30)
<1>. QED
  BY <1>1, <1>7, <1>8, <1>11

-----------------------------------------------------------------------------
(* Two parts of a sequence *)

\* The members of a sequence of known length.
LEMMA MembersAre ==
  ASSUME NEW T, NEW a \in Seq(T), NEW k, Len(a) = k
  PROVE  ToSet(a) = {a[i] : i \in 1 .. k} /\ DOMAIN a = 1 .. k
BY SeqFacts

\* a and b are the first k members of s and the others.
Halves(s, k, a, b) == a = SubSeq(s, 1, k) /\ b = SubSeq(s, k + 1, Len(s))

\* The members of two parts of a sequence.
LEMMA SplitMembers ==
  ASSUME NEW T, NEW s \in Seq(T), NEW k \in 0 .. Len(s), NEW a, NEW b, Halves(s, k, a, b)
  PROVE  /\ a \in Seq(T) /\ b \in Seq(T) /\ Len(a) = k
         /\ \A i \in 1 .. k : a[i] = s[i]
         /\ ToSet(a) = {s[i] : i \in 1 .. k}
         /\ ToSet(b) = {s[i] : i \in k + 1 .. Len(s)}
         /\ ToSet(s) = ToSet(a) \cup ToSet(b)
         /\ Distinct(s) => Distinct(a) /\ Distinct(b) /\ ToSet(a) \cap ToSet(b) = {}
<1>1. PICK n \in Nat : n = Len(s) /\ DOMAIN s = 1 .. n /\ (\A i \in 1 .. n : s[i] \in T)
                       /\ ToSet(s) = {s[i] : i \in 1 .. n}
  BY SeqFacts
<1>2. k \in Nat /\ k <= n
  BY <1>1
<1>3. a \in Seq(T) /\ Len(a) = k /\ \A i \in 1 .. k : a[i] = s[i]
  BY <1>1, <1>2, SubSeqProperties DEF Halves
<1>4. /\ b \in Seq(T) /\ Len(b) = n - k /\ \A i \in 1 .. n - k : b[i] = s[k + i]
  <2>1. \A i \in k + 1 .. n : s[i] \in T
    BY <1>1, <1>2
  <2>2. k + 1 \in Int /\ n \in Int
    BY <1>2
  <2>3. /\ b \in Seq(T) /\ Len(b) = IF k + 1 <= n THEN n - (k + 1) + 1 ELSE 0
        /\ \A i \in 1 .. n - (k + 1) + 1 : b[i] = s[k + 1 + i - 1]
    BY <1>1, <2>1, <2>2, SubSeqProperties DEF Halves
  <2>. QED
    BY <1>2, <2>3
<1>5. ToSet(a) = {a[i] : i \in 1 .. k} /\ DOMAIN a = 1 .. k
  BY <1>3, MembersAre
<1>6. ToSet(b) = {b[i] : i \in 1 .. n - k} /\ DOMAIN b = 1 .. n - k
  BY <1>4, MembersAre
<1>7. ToSet(a) = {s[i] : i \in 1 .. k}
  BY <1>3, <1>5
<1>8. ToSet(b) = {s[i] : i \in k + 1 .. n}
  <2>1. \A x \in ToSet(b) : x \in {s[i] : i \in k + 1 .. n}
    <3>. TAKE x \in ToSet(b)
    <3>1. PICK i \in 1 .. n - k : x = b[i]
      BY <1>6
    <3>2. k + i \in k + 1 .. n /\ x = s[k + i]
      BY <1>2, <1>4, <3>1
    <3>. QED
      BY <3>2
  <2>2. ASSUME NEW j \in k + 1 .. n PROVE s[j] \in ToSet(b)
    <3>1. PICK i \in 1 .. n - k : j = k + i
      BY <1>2, <2>2
    <3>2. s[j] = b[i]
      BY <1>4, <3>1
    <3>. QED
      BY <1>6, <3>2
  <2>. QED
    BY <2>1, <2>2
<1>9. ToSet(s) = ToSet(a) \cup ToSet(b)
  BY <1>1, <1>2, <1>7, <1>8
<1>10. ASSUME Distinct(s)
       PROVE  Distinct(a) /\ Distinct(b) /\ ToSet(a) \cap ToSet(b) = {}
  <2>1. \A i, j \in 1 .. n : s[i] = s[j] => i = j
    BY <1>1, <1>10 DEF Distinct
  <2>2. Distinct(a)
    BY <1>2, <1>3, <1>5, <2>1 DEF Distinct
  <2>3. ASSUME NEW i \in 1 .. n - k, NEW j \in 1 .. n - k, b[i] = b[j] PROVE i = j
    <3>1. k + i \in 1 .. n /\ k + j \in 1 .. n /\ s[k + i] = s[k + j]
      BY <1>2, <1>4, <2>3
    <3>2. k + i = k + j
      BY <2>1, <3>1
    <3>. QED
      BY <1>2, <3>2
  <2>4. Distinct(b)
    BY <1>6, <2>3 DEF Distinct
  <2>5. \A i \in 1 .. k : \A j \in k + 1 .. n : s[i] # s[j]
    BY <1>2, <2>1
  <2>. QED
    BY <1>7, <1>8, <2>2, <2>4, <2>5
<1>. QED
  BY <1>1, <1>3, <1>4, <1>7, <1>8, <1>9, <1>10, ZenonT(30)

\* The members of a sequence and its last one.
LEMMA FrontLastMembers ==
  ASSUME NEW T, NEW s \in Seq(T), s # <<>>
  PROVE  /\ Front(s) \in Seq(T) /\ Last(s) \in T
         /\ ToSet(s) = ToSet(Front(s)) \cup {Last(s)}
         /\ Distinct(s) => Distinct(Front(s)) /\ Last(s) \notin ToSet(Front(s))
<1>1. PICK n \in Nat : n = Len(s) /\ DOMAIN s = 1 .. n /\ \A i \in 1 .. n : s[i] \in T
  BY SeqFacts
<1>2. n >= 1
  BY <1>1, HeadTailMembers
<1>3. PICK k \in 0 .. Len(s) : k = n - 1
  BY <1>1, <1>2
<1>4. PICK a, b : Halves(s, k, a, b)
  BY ZenonT(30) DEF Halves
<1>6. /\ a \in Seq(T) /\ b \in Seq(T) /\ Len(a) = k
      /\ \A i \in 1 .. k : a[i] = s[i]
      /\ ToSet(a) = {s[i] : i \in 1 .. k}
      /\ ToSet(b) = {s[i] : i \in k + 1 .. Len(s)}
      /\ ToSet(s) = ToSet(a) \cup ToSet(b)
      /\ Distinct(s) => Distinct(a) /\ Distinct(b) /\ ToSet(a) \cap ToSet(b) = {}
  BY <1>4, SplitMembers
<1>7. ToSet(b) = {s[n]}
  <2>1. k + 1 .. Len(s) = {n}
    BY <1>1, <1>2, <1>3
  <2>. QED
    BY <1>6, <2>1, ZenonT(30)
<1>8. Front(s) = a /\ Last(s) = s[n] /\ s[n] \in T
  BY <1>1, <1>2, <1>3, <1>4 DEF Front, Last, Halves
<1>. QED
  BY <1>6, <1>7, <1>8, ZenonT(30)

-----------------------------------------------------------------------------
(* What the worker's actions do to its lists *)

\* Sequences whose requests are apart are lists.
Parted(p, d, c, x) ==
  /\ p \in Seq(Req) /\ d \in Seq(Req) /\ c \in Seq(Req) /\ x \in Seq(Req)
  /\ Distinct(p) /\ Distinct(d) /\ Distinct(c) /\ Distinct(x)
  /\ ToSet(p) \cap ToSet(d) = {} /\ ToSet(p) \cap ToSet(c) = {}
  /\ ToSet(p) \cap ToSet(x) = {} /\ ToSet(d) \cap ToSet(c) = {}
  /\ ToSet(d) \cap ToSet(x) = {} /\ ToSet(c) \cap ToSet(x) = {}

\* Lists that share no request.
LEMMA PartedIs ==
  ASSUME NEW p, NEW d, NEW c, NEW x, Parted(p, d, c, x), NEW k, k = Sorted(p, d, c, x)
  PROVE  /\ k \in ListType /\ Apart(k)
         /\ k.prefilling = p /\ k.decoding = d /\ k.capturing = c /\ k.waiting = x
         /\ Members(k) = ToSet(p) \cup ToSet(d) \cup ToSet(c) \cup ToSet(x)
<1>1. /\ k \in ListType
      /\ k.prefilling = p /\ k.decoding = d /\ k.capturing = c /\ k.waiting = x
  BY SortedIs DEF Parted
<1>2. Apart(k)
  BY <1>1 DEF Apart, Parted
<1>. QED
  BY <1>1, <1>2 DEF Members

\* The lists of the worker share no request.
LEMMA ListsParted ==
  ASSUME NEW l \in ListType, Apart(l)
  PROVE  Parted(l.prefilling, l.decoding, l.capturing, l.waiting)
BY ListFacts DEF Apart, Parted

\* The lists with another prefilling list.
Prefilling(l, p) == [l EXCEPT !.prefilling = p]

\* The lists with another decoding list.
Decoding(l, d) == [l EXCEPT !.decoding = d]

\* The lists with another waiting list.
Waiting(l, x) == [l EXCEPT !.waiting = x]

\* One list replaced.
LEMMA ListChanges ==
  ASSUME NEW l \in ListType, NEW s
  PROVE  /\ Prefilling(l, s) = Sorted(s, l.decoding, l.capturing, l.waiting)
         /\ Decoding(l, s) = Sorted(l.prefilling, s, l.capturing, l.waiting)
         /\ Waiting(l, s) = Sorted(l.prefilling, l.decoding, l.capturing, s)
<1>1. Prefilling(l, s) = Sorted(s, l.decoding, l.capturing, l.waiting)
  BY DEF Prefilling, Sorted, ListType
<1>2. Decoding(l, s) = Sorted(l.prefilling, s, l.capturing, l.waiting)
  BY ListIs DEF Decoding, Sorted, ListType
<1>3. Waiting(l, s) = Sorted(l.prefilling, l.decoding, l.capturing, s)
  BY ListIs DEF Waiting, Sorted, ListType
<1>. QED
  BY <1>1, <1>2, <1>3

\* A request that acquired its runner joins the prefilling ones.
LEMMA InsertedIs ==
  ASSUME lists \in ListType, Apart(lists), NEW r \in Req, r \notin Members(lists),
         NEW k, k = Prefilling(lists, InsertPrefill(r))
  PROVE  Gains(lists, k, r) /\ k.decoding = lists.decoding
<1>1. PICK p : p = lists.prefilling
  OBVIOUS
<1>2. p \in Seq(Req) /\ Distinct(p) /\ r \notin ToSet(p)
  BY <1>1, ListFacts DEF Apart, Members
<1>3. PICK s : s = InsertPrefill(r)
  OBVIOUS
<1>4. s \in Seq(Req) /\ ToSet(s) = ToSet(p) \cup {r} /\ Distinct(s)
  <2>1. CASE p # <<>> /\ Last(p) = lastPrefill
    <3>1. s = Append(Front(p), r) \o <<Last(p)>>
      BY <1>1, <1>3, <2>1 DEF InsertPrefill
    <3>2. PICK a, b : a = Front(p) /\ b = Last(p)
      OBVIOUS
    <3>3. a \in Seq(Req) /\ b \in Req /\ ToSet(p) = ToSet(a) \cup {b} /\ Distinct(a) /\ b \notin ToSet(a)
      BY <1>2, <2>1, <3>2, FrontLastMembers
    <3>4. PICK c : c = Append(a, r)
      BY ZenonT(30)
    <3>5. c \in Seq(Req) /\ ToSet(c) = ToSet(a) \cup {r} /\ Distinct(c)
      BY <1>2, <3>3, <3>4, AppendMembers
    <3>6. PICK e : e = <<b>>
      BY ZenonT(30)
    <3>7. e \in Seq(Req) /\ ToSet(e) = {b} /\ Distinct(e)
      BY <3>3, <3>6, ShortMembers
    <3>8. s = c \o e
      BY <3>1, <3>2, <3>4, <3>6
    <3>9. ToSet(c) \cap ToSet(e) = {}
      BY <1>2, <3>3, <3>5, <3>7
    <3>10. s \in Seq(Req) /\ ToSet(s) = ToSet(c) \cup ToSet(e) /\ Distinct(s)
      BY <3>5, <3>7, <3>8, <3>9, ConcatMembers
    <3>. QED
      BY <3>3, <3>5, <3>7, <3>10
  <2>2. CASE ~(p # <<>> /\ Last(p) = lastPrefill)
    <3>1. s = Append(p, r)
      BY <1>1, <1>3, <2>2, ZenonT(30) DEF InsertPrefill
    <3>. QED
      BY <1>2, <3>1, AppendMembers
  <2>. QED
    BY <2>1, <2>2
<1>5. k = Sorted(s, lists.decoding, lists.capturing, lists.waiting)
  BY <1>3, ListChanges
<1>6. Parted(s, lists.decoding, lists.capturing, lists.waiting)
  BY <1>1, <1>4, ListsParted, ZenonT(30) DEF Parted, Members
<1>7. /\ k \in ListType /\ Apart(k)
      /\ k.decoding = lists.decoding /\ k.waiting = lists.waiting
      /\ Members(k) = ToSet(s) \cup ToSet(lists.decoding) \cup ToSet(lists.capturing)
                        \cup ToSet(lists.waiting)
  BY <1>5, <1>6, PartedIs
<1>8. Members(k) = Members(lists) \cup {r}
  BY <1>1, <1>4, <1>7 DEF Members
<1>. QED
  BY <1>7, <1>8 DEF Gains

\* The first of the prefilling requests is taken.
LEMMA PrefillTaken ==
  ASSUME NEW l \in ListType, Apart(l), l.prefilling # <<>>, NEW r, r = Head(l.prefilling),
         NEW k, k = Prefilling(l, Tail(l.prefilling))
  PROVE  /\ k \in ListType /\ Apart(k) /\ r \in Members(l)
         /\ Members(k) = Members(l) \ {r}
         /\ k.decoding = l.decoding /\ k.waiting = l.waiting
         /\ r \notin ToSet(l.decoding)
<1>1. PICK p, s : p = l.prefilling /\ s = Tail(p)
  BY ZenonT(30)
<1>2. /\ s \in Seq(Req) /\ r \in Req /\ ToSet(p) = {r} \cup ToSet(s)
      /\ Distinct(s) /\ r \notin ToSet(s)
  BY <1>1, ListFacts, HeadTailMembers DEF Apart
<1>3. k = Sorted(s, l.decoding, l.capturing, l.waiting)
  BY <1>1, ListChanges
<1>4. Parted(s, l.decoding, l.capturing, l.waiting)
  BY <1>1, <1>2, ListsParted, ZenonT(30) DEF Parted
<1>5. /\ k \in ListType /\ Apart(k)
      /\ k.decoding = l.decoding /\ k.waiting = l.waiting
      /\ Members(k) = ToSet(s) \cup ToSet(l.decoding) \cup ToSet(l.capturing)
                        \cup ToSet(l.waiting)
  BY <1>3, <1>4, PartedIs
<1>6. r \in Members(l) /\ r \notin ToSet(l.decoding) /\ Members(k) = Members(l) \ {r}
  BY <1>1, <1>2, <1>5 DEF Members, Apart
<1>. QED
  BY <1>5, <1>6

\* A request is parked, or taken from the parked ones.
LEMMA Unparked ==
  ASSUME NEW l \in ListType, Apart(l), NEW r \in Req,
         NEW k, k = Waiting(l, Only(l.waiting, Req \ {r}))
  PROVE  /\ k \in ListType /\ Apart(k) /\ k.decoding = l.decoding
         /\ r \notin ToSet(k.waiting)
         /\ r \in ToSet(l.waiting) \/ r \notin Members(l) => Members(k) = Members(l) \ {r}
<1>1. PICK s : s = Only(l.waiting, Req \ {r})
  OBVIOUS
<1>2. s \in Seq(Req) /\ ToSet(s) = ToSet(l.waiting) \ {r} /\ Distinct(s)
  <2>1. s \in Seq(Req) /\ ToSet(s) = ToSet(l.waiting) \cap (Req \ {r}) /\ Distinct(s)
    BY <1>1, ListFacts, OnlyMembers DEF Apart
  <2>. QED
    BY <2>1, ListFacts
<1>3. k = Sorted(l.prefilling, l.decoding, l.capturing, s)
  BY <1>1, ListChanges
<1>4. Parted(l.prefilling, l.decoding, l.capturing, s)
  BY <1>2, ListsParted, ZenonT(30) DEF Parted
<1>5. /\ k \in ListType /\ Apart(k) /\ k.decoding = l.decoding /\ k.waiting = s
      /\ Members(k) = ToSet(l.prefilling) \cup ToSet(l.decoding) \cup ToSet(l.capturing)
                        \cup ToSet(s)
  BY <1>3, <1>4, PartedIs
<1>6. ASSUME r \in ToSet(l.waiting) \/ r \notin Members(l)
      PROVE  Members(k) = Members(l) \ {r}
  <2>1. r \notin ToSet(l.prefilling) \cup ToSet(l.decoding) \cup ToSet(l.capturing)
    BY <1>6 DEF Members, Apart
  <2>. QED
    BY <1>2, <1>5, <2>1, ZenonT(30) DEF Members
<1>. QED
  BY <1>2, <1>5, <1>6, ZenonT(30)

\* A request parked at the end of the waiting list.
LEMMA ParkedLast ==
  ASSUME NEW l \in ListType, Apart(l), NEW r \in Req,
         r \in ToSet(l.waiting) \/ r \notin Members(l),
         NEW k, k = Waiting(l, Append(Only(l.waiting, Req \ {r}), r))
  PROVE  /\ k \in ListType /\ Apart(k) /\ k.decoding = l.decoding
         /\ Members(k) = Members(l) \cup {r}
<1>1. PICK s : s = Only(l.waiting, Req \ {r})
  OBVIOUS
<1>0. PICK t : t = Append(s, r)
  BY ZenonT(30)
<1>2. s \in Seq(Req) /\ ToSet(s) = ToSet(l.waiting) \ {r} /\ Distinct(s)
  <2>1. s \in Seq(Req) /\ ToSet(s) = ToSet(l.waiting) \cap (Req \ {r}) /\ Distinct(s)
    BY <1>1, ListFacts, OnlyMembers DEF Apart
  <2>. QED
    BY <2>1, ListFacts
<1>3. t \in Seq(Req) /\ ToSet(t) = ToSet(l.waiting) \cup {r} /\ Distinct(t)
  <2>1. t \in Seq(Req) /\ ToSet(t) = ToSet(s) \cup {r} /\ Distinct(t)
    <3>1. r \notin ToSet(s)
      BY <1>2
    <3>. QED
      BY <1>0, <1>2, <3>1, AppendMembers
  <2>. QED
    BY <1>2, <2>1
<1>4. k = Sorted(l.prefilling, l.decoding, l.capturing, t)
  BY <1>0, <1>1, ListChanges
<1>5. Parted(l.prefilling, l.decoding, l.capturing, t)
  BY <1>3, ListsParted, ZenonT(30) DEF Parted, Members
<1>6. /\ k \in ListType /\ Apart(k) /\ k.decoding = l.decoding
      /\ Members(k) = ToSet(l.prefilling) \cup ToSet(l.decoding) \cup ToSet(l.capturing)
                        \cup ToSet(t)
  BY <1>4, <1>5, PartedIs
<1>. QED
  BY <1>3, <1>6, ZenonT(30) DEF Members

-----------------------------------------------------------------------------
(* ChooseDecode *)

\* The first b members of c are taken from d, in which they are up to the
\* place of the last of them.
FirstTaken(d, S, c, b, P, n, e) ==
  /\ c = Only(d, S) /\ P = SubSeq(c, 1, b)
  /\ n = CHOOSE i \in DOMAIN d : d[i] = P[b]
  /\ e = SubSeq(d, n + 1, Len(d)) \o Only(SubSeq(d, 1, n), Req \ ToSet(P))

\* A batch of b members of c, and what is left of d.
BatchTaken(d, c, b, P, e) ==
  /\ P \in Seq(Req) /\ Distinct(P) /\ P # <<>> /\ Len(P) = b
  /\ ToSet(P) \subseteq ToSet(c)
  /\ b = Len(c) => ToSet(P) = ToSet(c)
  /\ e \in Seq(Req) /\ Distinct(e) /\ ToSet(e) = ToSet(d) \ ToSet(P)

\* The first members taken make a batch.
LEMMA TakenFirst ==
  ASSUME NEW d \in Seq(Req), Distinct(d), NEW S, NEW c, NEW b \in Nat, b >= 1, b <= Len(c),
         NEW P, NEW n, NEW e, FirstTaken(d, S, c, b, P, n, e)
  PROVE  BatchTaken(d, c, b, P, e)
<1>1. /\ c \in Seq(Req) /\ ToSet(c) = ToSet(d) \cap S /\ Distinct(c)
  BY OnlyMembers DEF FirstTaken
<1>2. PICK h : Taking(h, c, d, 1 .. Len(d))
  BY OnlyOrder DEF FirstTaken
<1>3. Len(c) \in Nat /\ Len(d) \in Nat /\ DOMAIN d = 1 .. Len(d)
  BY <1>1, SeqFacts
<1>4. PICK k \in 0 .. Len(c) : k = b
  BY <1>3
<1>5. PICK x, y : Halves(c, k, x, y)
  BY ZenonT(30) DEF Halves
<1>6. /\ x \in Seq(Req) /\ y \in Seq(Req) /\ Len(x) = k
      /\ \A i \in 1 .. k : x[i] = c[i]
      /\ ToSet(x) = {c[i] : i \in 1 .. k}
      /\ ToSet(y) = {c[i] : i \in k + 1 .. Len(c)}
      /\ ToSet(c) = ToSet(x) \cup ToSet(y)
      /\ Distinct(c) => Distinct(x) /\ Distinct(y) /\ ToSet(x) \cap ToSet(y) = {}
  BY <1>1, <1>4, <1>5, SplitMembers
<1>7. P = x
  BY <1>4, <1>5 DEF Halves, FirstTaken
<1>8. P \in Seq(Req) /\ Distinct(P) /\ Len(P) = b /\ P[b] = c[b]
      /\ ToSet(P) = {c[i] : i \in 1 .. b} /\ ToSet(P) \subseteq ToSet(c)
  BY <1>1, <1>4, <1>6, <1>7
<1>9. P # <<>>
  <2>1. Len(<<>>) = 0
    BY EmptySeq
  <2>. QED
    BY <1>8, <2>1
<1>10. b = Len(c) => ToSet(P) = ToSet(c)
  <2>1. ToSet(c) = {c[i] : i \in 1 .. Len(c)}
    BY <1>1, SeqFacts
  <2>. QED
    BY <1>8, <2>1
<1>11. /\ h \in [1 .. Len(c) -> 1 .. Len(d)]
       /\ \A i \in 1 .. Len(c) : c[i] = d[h[i]]
       /\ \A i, j \in 1 .. Len(c) : i < j => h[i] < h[j]
  BY <1>2 DEF Taking
<1>12. b \in 1 .. Len(c) /\ h[b] \in 1 .. Len(d) /\ P[b] = d[h[b]]
  BY <1>3, <1>8, <1>11
<1>13. \A i, j \in 1 .. Len(d) : d[i] = d[j] => i = j
  BY <1>3 DEF Distinct
<1>14. n = h[b] /\ n \in 0 .. Len(d)
  <2>1. n \in 1 .. Len(d) /\ d[n] = P[b]
    BY <1>3, <1>12 DEF FirstTaken
  <2>2. n = h[b]
    BY <1>12, <1>13, <2>1
  <2>. QED
    BY <1>3, <2>1, <2>2
<1>15. ASSUME NEW i \in 1 .. b
       PROVE  h[i] \in 1 .. n /\ c[i] = d[h[i]]
  <2>1. i \in 1 .. Len(c)
    BY <1>3, <1>15
  <2>2. h[i] \in 1 .. Len(d) /\ c[i] = d[h[i]]
    BY <1>11, <2>1, ZenonT(30)
  <2>3. i = b \/ i < b
    BY <1>15
  <2>4. i = b \/ h[i] < h[b]
    BY <1>11, <1>12, <2>1, <2>3
  <2>5. h[i] \in 1 .. n
    BY <1>3, <1>12, <1>14, <2>2, <2>4
  <2>. QED
    BY <2>2, <2>5
<1>16. PICK u, v : Halves(d, n, u, v)
  BY ZenonT(30) DEF Halves
<1>17. /\ u \in Seq(Req) /\ v \in Seq(Req) /\ Len(u) = n
       /\ \A i \in 1 .. n : u[i] = d[i]
       /\ ToSet(u) = {d[i] : i \in 1 .. n}
       /\ ToSet(v) = {d[i] : i \in n + 1 .. Len(d)}
       /\ ToSet(d) = ToSet(u) \cup ToSet(v)
       /\ Distinct(d) => Distinct(u) /\ Distinct(v) /\ ToSet(u) \cap ToSet(v) = {}
  BY <1>14, <1>16, SplitMembers
<1>18. ToSet(P) \subseteq ToSet(u)
  <2>1. ASSUME NEW i \in 1 .. b PROVE c[i] \in ToSet(u)
    <3>1. h[i] \in 1 .. n /\ c[i] = d[h[i]]
      BY <1>15, <2>1
    <3>. QED
      BY <1>17, <3>1
  <2>. QED
    BY <1>8, <2>1
<1>19. PICK z : z = Only(u, Req \ ToSet(P))
  OBVIOUS
<1>20. z \in Seq(Req) /\ ToSet(z) = ToSet(u) \cap (Req \ ToSet(P)) /\ Distinct(z)
  BY <1>17, <1>19, OnlyMembers, ZenonT(30)
<1>21. ToSet(z) = ToSet(u) \ ToSet(P) /\ ToSet(v) \cap ToSet(z) = {}
  <2>1. ToSet(u) \subseteq Req
    BY <1>17, SeqFacts
  <2>. QED
    BY <1>17, <1>20, <2>1, ZenonT(30)
<1>22. e = v \o z
  BY <1>16, <1>19 DEF Halves, FirstTaken
<1>23. e \in Seq(Req) /\ ToSet(e) = ToSet(v) \cup ToSet(z) /\ Distinct(e)
  <2>1. v \in Seq(Req) /\ Distinct(v) /\ z \in Seq(Req) /\ Distinct(z) /\ ToSet(v) \cap ToSet(z) = {}
    BY <1>17, <1>20, <1>21, ZenonT(30)
  <2>2. v \o z \in Seq(Req) /\ ToSet(v \o z) = ToSet(v) \cup ToSet(z) /\ Distinct(v \o z)
    BY <2>1, ConcatMembers
  <2>. QED
    BY <1>22, <2>2
<1>24. ToSet(e) = ToSet(d) \ ToSet(P)
  BY <1>17, <1>18, <1>21, <1>23, ZenonT(30)
<1>. QED
  BY <1>8, <1>9, <1>10, <1>23, <1>24 DEF BatchTaken

\* The candidates are the due decoders, or all when none is due.
LEMMA CandidatesAre ==
  ASSUME lists \in ListType, lists.decoding # <<>>, NEW c, c = Candidates
  PROVE  /\ c \in Seq(Req) /\ c # <<>> /\ Len(c) \in Nat /\ Len(c) >= 1
         /\ ToSet(c) = {r \in ToSet(lists.decoding) : HasDueDecoder => req[r].due}
<1>1. PICK d : d = lists.decoding
  OBVIOUS
<1>2. d \in Seq(Req) /\ ToSet(d) \subseteq Req /\ d # <<>>
  BY <1>1, ListFacts
<1>3. PICK S : S = {r \in Req : HasDueDecoder => req[r].due}
  BY ZenonT(30)
<1>4. c = Only(d, S)
  BY <1>1, <1>3 DEF Candidates
<1>5. c \in Seq(Req) /\ ToSet(c) = ToSet(d) \cap S
  BY <1>2, <1>4, OnlyMembers
<1>6. ToSet(c) = {r \in ToSet(d) : HasDueDecoder => req[r].due}
  BY <1>2, <1>3, <1>5
<1>7. ToSet(d) # {}
  BY <1>2, EmptyMembers
<1>8. ToSet(c) # {}
  BY <1>1, <1>6, <1>7 DEF HasDueDecoder
<1>9. c # <<>>
  BY <1>8, ShortMembers
<1>10. Len(c) \in Nat /\ Len(c) >= 1
  BY <1>5, <1>9, HeadTailMembers
<1>. QED
  BY <1>1, <1>5, <1>6, <1>9, <1>10

\* The batch is never empty, and has every candidate when they fit its width.
LEMMA BatchSizeIs ==
  ASSUME mode \in Modes, lists \in ListType, lists.decoding # <<>>,
         NEW b, b = BatchSize, NEW c, c = Candidates
  PROVE  /\ b \in Nat /\ b >= 1 /\ b <= Len(c)
         /\ Len(c) <= mode.width => b = Len(c)
<1>1. Len(c) \in Nat /\ Len(c) >= 1
  BY CandidatesAre
<1>2. PICK n \in Nat : n = Len(c)
  BY <1>1
<1>3. mode.width \in Nat /\ mode.width >= 1
  BY SchedulerAssumption
<1>4. PICK m \in Nat : m = SelectDecodePlan(n) /\ m >= 1 /\ (n <= mode.width => n <= m)
  BY <1>2, <1>3 DEF SelectDecodePlan
<1>5. b = Min({n, m})
  BY <1>2, <1>4 DEF BatchSize
<1>6. b \in {n, m} /\ b <= n /\ b <= m
  <2>1. Min({n, m}) \in {n, m} /\ Min({n, m}) <= n /\ Min({n, m}) <= m
    <3>1. n \in Int /\ m \in Int
      BY <1>2, <1>4
    <3>. QED
      BY <3>1, MinTwo, ZenonT(30)
  <2>. QED
    BY <1>5, <2>1
<1>. QED
  BY <1>1, <1>2, <1>4, <1>6

\* The batch is taken from the decoders, the others stay.
LEMMA DecodersTaken ==
  ASSUME mode \in Modes, lists \in ListType, Apart(lists), lists.decoding # <<>>,
         NEW P, P = PoppedBatch, NEW k, k = Decoding(lists, DecodersLeft)
  PROVE  /\ P \in Seq(Req) /\ Distinct(P) /\ P # <<>>
         /\ ToSet(P) \subseteq ToSet(lists.decoding)
         /\ Len(Candidates) <= mode.width => ToSet(P) = ToSet(Candidates)
         /\ k \in ListType /\ Apart(k) /\ Members(k) = Members(lists) \ ToSet(P)
         /\ ToSet(k.decoding) = ToSet(lists.decoding) \ ToSet(P)
<1>1. PICK d : d = lists.decoding
  OBVIOUS
<1>2. PICK S : S = {r \in Req : HasDueDecoder => req[r].due}
  BY ZenonT(30)
<1>3. PICK c : c = Candidates
  OBVIOUS
<1>4. c = Only(d, S)
  BY <1>1, <1>2, <1>3 DEF Candidates
<1>5. PICK b \in Nat : /\ b = BatchSize /\ b >= 1 /\ b <= Len(c)
                       /\ Len(c) <= mode.width => b = Len(c)
  BY <1>3, BatchSizeIs
<1>6. d \in Seq(Req) /\ Distinct(d)
  BY <1>1, ListFacts DEF Apart
<1>7. P = SubSeq(c, 1, b)
  BY <1>3, <1>5 DEF PoppedBatch
<1>8. PICK n : n = CHOOSE i \in DOMAIN d : d[i] = P[b]
  OBVIOUS
<1>9. PICK e : e = SubSeq(d, n + 1, Len(d)) \o Only(SubSeq(d, 1, n), Req \ ToSet(P))
  BY ZenonT(30)
<1>10. /\ P \in Seq(Req) /\ Distinct(P) /\ P # <<>> /\ Len(P) = b
       /\ ToSet(P) \subseteq ToSet(c)
       /\ b = Len(c) => ToSet(P) = ToSet(c)
       /\ e \in Seq(Req) /\ Distinct(e) /\ ToSet(e) = ToSet(d) \ ToSet(P)
  <2>1. FirstTaken(d, S, c, b, P, n, e)
    BY <1>4, <1>7, <1>8, <1>9 DEF FirstTaken
  <2>. QED
    <3>1. b \in Nat /\ b >= 1 /\ b <= Len(c) /\ d \in Seq(Req) /\ Distinct(d)
      BY <1>5, <1>6
    <3>2. BatchTaken(d, c, b, P, e)
      BY <3>1, <2>1, TakenFirst
    <3>. QED
      BY <3>2 DEF BatchTaken
<1>11. ToSet(c) \subseteq ToSet(d)
  BY <1>4, <1>6, OnlyMembers
<1>12. e = DecodersLeft
  BY <1>1, <1>5, <1>8, <1>9 DEF DecodersLeft
<1>13. k = Sorted(lists.prefilling, e, lists.capturing, lists.waiting)
  BY <1>12, ListChanges
<1>14. Parted(lists.prefilling, e, lists.capturing, lists.waiting)
  BY <1>1, <1>10, ListsParted, ZenonT(30) DEF Parted
<1>15. /\ k \in ListType /\ Apart(k) /\ k.decoding = e
       /\ Members(k) = ToSet(lists.prefilling) \cup ToSet(e) \cup ToSet(lists.capturing)
                         \cup ToSet(lists.waiting)
  BY <1>13, <1>14, PartedIs
<1>16. Members(k) = Members(lists) \ ToSet(P)
  BY <1>1, <1>10, <1>11, <1>15 DEF Members, Apart
<1>. QED
  BY <1>1, <1>3, <1>5, <1>10, <1>11, <1>15, <1>16

-----------------------------------------------------------------------------
(* BeginLoop *)

\* What BeginLoop makes of the lists.
Resumption(l, v, w, k) ==
  /\ Back(l) \in Seq(Req) /\ Distinct(Back(l))
  /\ ToSet(Back(l)) = {r \in ToSet(l.capturing) : req[r].capture # "running"}
  /\ ToDecode(l, v) \in Seq(Req)
  /\ ToSet(ToDecode(l, v)) \subseteq ToSet(Back(l))
  /\ k \in ListType /\ Apart(k)
  /\ Members(k) = (ToSet(l.prefilling) \cup ToSet(l.decoding))
       \cup {r \in ToSet(l.capturing) : req[r].capture = "running" \/ v.req[r].out = "none"}
       \cup {r \in ToSet(l.waiting) : w.req[r].out = "none"}
  /\ ToSet(k.decoding) = ToSet(l.decoding) \cup ToSet(ToDecode(l, v))

\* Resumed keeps each running request in one list.
LEMMA ResumedIs ==
  ASSUME NEW l \in ListType, Apart(l), NEW v, NEW w
  PROVE  Resumption(l, v, w, Resumed(l, v, w))
<1>0. PICK k : k = Resumed(l, v, w)
  OBVIOUS
<1>1. PICK p, d, c, x : p = l.prefilling /\ d = l.decoding /\ c = l.capturing /\ x = l.waiting
  OBVIOUS
<1>2. Parted(p, d, c, x) /\ ToSet(c) \subseteq Req /\ ToSet(x) \subseteq Req
  BY <1>1, ListsParted, ListFacts
<1>3. PICK b : b = Back(l)
  OBVIOUS
<1>4. PICK S : S = {r \in Req : req[r].capture # "running"}
  BY ZenonT(30)
<1>5. b \in Seq(Req) /\ ToSet(b) = ToSet(c) \cap S /\ Distinct(b)
  <2>1. b = Only(c, S)
    BY <1>1, <1>3, <1>4 DEF Back
  <2>. QED
    BY <1>2, <2>1, OnlyMembers DEF Parted
<1>6. PICK g : g = Going(l, v)
  OBVIOUS
<1>7. PICK V : V = {r \in Req : ~IsTerminal(v, r)}
  BY ZenonT(30)
<1>8. g \in Seq(Req) /\ ToSet(g) = ToSet(b) \cap V /\ Distinct(g)
  <2>1. g = Only(b, V)
    BY <1>3, <1>6, <1>7 DEF Going
  <2>. QED
    BY <1>5, <2>1, OnlyMembers
<1>9. PICK D, N : /\ D = {r \in Req : PrefillComplete(req[r], r)}
                  /\ N = {r \in Req : ~PrefillComplete(req[r], r)}
  BY ZenonT(30)
<1>10. PICK dd : dd = ToDecode(l, v)
  OBVIOUS
<1>11. dd \in Seq(Req) /\ ToSet(dd) = ToSet(g) \cap D /\ Distinct(dd)
  <2>1. dd = Only(g, D)
    BY <1>6, <1>9, <1>10 DEF ToDecode
  <2>. QED
    BY <1>8, <2>1, OnlyMembers
<1>12. PICK pp : pp = ToPrefill(l, v)
  OBVIOUS
<1>13. pp \in Seq(Req) /\ ToSet(pp) = ToSet(g) \cap N /\ Distinct(pp)
  <2>1. pp = Only(g, N)
    BY <1>6, <1>9, <1>12 DEF ToPrefill
  <2>. QED
    BY <1>8, <2>1, OnlyMembers
<1>14. PICK R : R = {r \in Req : req[r].capture = "running"}
  BY ZenonT(30)
<1>15. PICK cc : cc = Only(c, R)
  OBVIOUS
<1>16. cc \in Seq(Req) /\ ToSet(cc) = ToSet(c) \cap R /\ Distinct(cc)
  BY <1>2, <1>15, OnlyMembers DEF Parted
<1>17. PICK W : W = {r \in Req : ~IsTerminal(w, r)}
  BY ZenonT(30)
<1>18. PICK xx : xx = Only(x, W)
  OBVIOUS
<1>19. xx \in Seq(Req) /\ ToSet(xx) = ToSet(x) \cap W /\ Distinct(xx)
  BY <1>2, <1>18, OnlyMembers DEF Parted
<1>20. D \cap N = {} /\ D \cup N = Req /\ R \cap S = {} /\ R \cup S = Req
  BY <1>4, <1>9, <1>14
<1>21. PICK p1 : p1 = p \o pp
  BY ZenonT(30)
<1>22. p1 \in Seq(Req) /\ ToSet(p1) = ToSet(p) \cup ToSet(pp) /\ Distinct(p1)
  <2>1. p \in Seq(Req) /\ Distinct(p) /\ ToSet(p) \cap ToSet(pp) = {}
    BY <1>2, <1>5, <1>8, <1>13 DEF Parted
  <2>. QED
    BY <1>13, <1>21, <2>1, ConcatMembers
<1>23. PICK d1 : d1 = d \o dd
  BY ZenonT(30)
<1>24. d1 \in Seq(Req) /\ ToSet(d1) = ToSet(d) \cup ToSet(dd) /\ Distinct(d1)
  <2>1. d \in Seq(Req) /\ Distinct(d) /\ ToSet(d) \cap ToSet(dd) = {}
    BY <1>2, <1>5, <1>8, <1>11 DEF Parted
  <2>. QED
    BY <1>11, <1>23, <2>1, ConcatMembers
<1>25. k = Sorted(p1, d1, cc, xx)
  BY <1>0, <1>1, <1>10, <1>12, <1>14, <1>15, <1>17, <1>18, <1>21, <1>23, ZenonT(30)
  DEF Resumed, Sorted, ListType
<1>26. ToSet(dd) \subseteq ToSet(c) /\ ToSet(pp) \subseteq ToSet(c)
       /\ ToSet(dd) \cap ToSet(pp) = {} /\ ToSet(dd) \cap ToSet(cc) = {}
       /\ ToSet(pp) \cap ToSet(cc) = {}
  BY <1>5, <1>8, <1>11, <1>13, <1>16, <1>20
<1>27. Parted(p1, d1, cc, xx)
  BY <1>2, <1>16, <1>19, <1>22, <1>24, <1>26 DEF Parted
<1>28. /\ k \in ListType /\ Apart(k) /\ k.decoding = d1
       /\ Members(k) = ToSet(p1) \cup ToSet(d1) \cup ToSet(cc) \cup ToSet(xx)
  BY <1>25, <1>27, PartedIs
<1>29. ToSet(xx) = {r \in ToSet(x) : w.req[r].out = "none"}
  BY <1>2, <1>17, <1>19 DEF IsTerminal
<1>30. ToSet(dd) \cup ToSet(pp) = ToSet(c) \cap S \cap V
  BY <1>2, <1>5, <1>8, <1>11, <1>13, <1>20
<1>31. (ToSet(c) \cap S \cap V) \cup ToSet(cc)
         = {r \in ToSet(c) : req[r].capture = "running" \/ v.req[r].out = "none"}
  BY <1>2, <1>4, <1>7, <1>14, <1>16 DEF IsTerminal
<1>32. Members(k) = (ToSet(p) \cup ToSet(d))
              \cup {r \in ToSet(c) : req[r].capture = "running" \/ v.req[r].out = "none"}
              \cup {r \in ToSet(x) : w.req[r].out = "none"}
  <2>1. ToSet(p1) \cup ToSet(d1) \cup ToSet(cc)
          = (ToSet(p) \cup ToSet(d)) \cup ((ToSet(dd) \cup ToSet(pp)) \cup ToSet(cc))
    BY <1>22, <1>24
  <2>2. (ToSet(dd) \cup ToSet(pp)) \cup ToSet(cc)
          = {r \in ToSet(c) : req[r].capture = "running" \/ v.req[r].out = "none"}
    BY <1>30, <1>31
  <2>. QED
    BY <1>28, <1>29, <2>1, <2>2
<1>33. ToSet(b) = {r \in ToSet(c) : req[r].capture # "running"}
  BY <1>2, <1>4, <1>5
<1>34. ToSet(dd) \subseteq ToSet(b)
  BY <1>8, <1>11
<1>35. Resumption(l, v, w, k)
  BY <1>1, <1>3, <1>5, <1>10, <1>11, <1>24, <1>28, <1>32, <1>33, <1>34 DEF Resumption
<1>. QED
  BY <1>0, <1>35
=============================================================================
