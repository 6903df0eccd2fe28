------------------------ MODULE PersistenceQueueProofs ------------------------
(***************************************************************************)
(* The persistence queue counts exactly and strands no serving handle, for *)
(* any set of jobs and request threads, any depth and any limit.           *)
(*                                                                         *)
(* The counters are right because a job is in the queue once: TrySubmit    *)
(* refuses what is pending or active, so slots, their order and the active *)
(* job never name a job twice.  A handle is released by whoever takes its  *)
(* job out of the queue, and until then somebody owes the release: the     *)
(* thread that superseded it, or the thread whose submission failed.       *)
(***************************************************************************)
EXTENDS PersistenceQueue, SumLemmas, SequenceTheorems

\* The slots of f that hold a job.
Occupied(f) == {s \in Slot : f[s] # None}

\* The jobs in the slots of f.
Jobs(f) == {f[s] : s \in Slot} \ {None}

\* What a submitter is doing.
SubState == [pc : {"idle", "submit", "report", "refused"}, job : Job \cup {None},
             entry : {0} \cup Entry, owes : Job \cup {None}, ok : BOOLEAN]

\* The types, counters apart.
Fields ==
  /\ slots \in [Slot -> Job \cup {None}] /\ order \in Seq(Slot)
  /\ active \in Job \cup {None} /\ (active = None <=> worker \in {"wait", "exited"})
  /\ stopped \in BOOLEAN /\ closing \in BOOLEAN
  /\ worker \in {"wait", "write", "reportDone", "reportFailed", "settle", "exited"}
  /\ subs \in [Submitter -> SubState]
  /\ table \in [Entry -> Job \cup {None}]
  /\ stored \subseteq Job

\* A submission under way is about a job.
Submissions ==
  \A t \in Submitter :
    /\ subs[t].pc # "idle" => subs[t].job \in Job
    /\ subs[t].pc = "report" => subs[t].owes \in Job
    /\ subs[t].pc # "report" => subs[t].owes = None

\* No two slots of f hold the same job.
Once(f) == \A s, u \in Slot : f[s] = f[u] /\ f[s] # None => s = u

\* o lists the slots of S, each of them once.
Lists(o, S) ==
  /\ o \in Seq(Slot)
  /\ \A i, k \in DOMAIN o : o[i] = o[k] => i = k
  /\ \A s \in Slot : s \in S <=> \E i \in DOMAIN o : o[i] = s

\* A job is in the queue once, and the order lists the slots that hold one.
Distinct ==
  /\ Once(slots) /\ active \notin Pending
  /\ Lists(order, Occupied(slots))

\* The counters.
Counted ==
  /\ count = Cardinality(Live) /\ pinned = Bytes(Live)
  /\ count <= Depth /\ pinned <= MaxBytes

\* The inductive invariant of the queue.
Exact == Fields /\ Submissions /\ Distinct /\ Counted

\* Somebody will release handle e.
Owed(e) ==
  \E t \in Submitter :
    \/ subs[t].pc = "report" /\ subs[t].owes = table[e]
    \/ /\ subs[t].pc \in {"submit", "refused"} \/ (subs[t].pc = "report" /\ ~subs[t].ok)
       /\ subs[t].job = table[e] /\ subs[t].entry = e

\* A handle belongs to a job in the queue that is still to be reported, or its
\* release is owed.
Handles ==
  ~stopped => \A e \in Entry : table[e] # None =>
    \/ Owed(e)
    \/ table[e] \in Live /\ ~(worker = "settle" /\ table[e] = active)

-----------------------------------------------------------------------------
(* Sums of job sizes and numbers of jobs *)

\* Bytes is a sum in the sense of SumLemmas.
LEMMA BytesIs ==
  ASSUME NEW S
  PROVE  Bytes(S) = SumOf(Size, S)
BY DEF Bytes, SumOf, IsSum, Pick, MapThenSumSet, MapThenFoldSet

\* A number of bytes is a natural.
LEMMA BytesNat ==
  ASSUME NEW S \in SUBSET Job, IsFiniteSet(S)
  PROVE  Bytes(S) \in Nat
BY QueueAssumption, BytesIs, SumNat

\* No job has no bytes.
LEMMA BytesEmpty == Bytes({}) = 0
BY QueueAssumption, BytesIs, SumEmpty

\* A job more.
LEMMA OneMore ==
  ASSUME NEW S \in SUBSET Job, IsFiniteSet(S), NEW j \in Job, j \notin S
  PROVE  /\ IsFiniteSet(S \cup {j})
         /\ Cardinality(S \cup {j}) = Cardinality(S) + 1
         /\ Bytes(S \cup {j}) = Bytes(S) + Size[j]
         /\ Cardinality(S) \in Nat /\ Bytes(S) \in Nat /\ Size[j] \in Nat
<1>1. SumOf(Size, S \cup {j}) = Size[j] + SumOf(Size, S)
  BY QueueAssumption, SumAdd
<1>2. Bytes(S) \in Nat /\ Size[j] \in Nat
  BY QueueAssumption, BytesNat
<1>. QED
  BY <1>1, <1>2, BytesIs, FS_AddElement, FS_CardinalityType

\* A job less.
LEMMA OneLess ==
  ASSUME NEW S \in SUBSET Job, IsFiniteSet(S), NEW j \in S
  PROVE  /\ IsFiniteSet(S \ {j})
         /\ Cardinality(S \ {j}) = Cardinality(S) - 1
         /\ Bytes(S \ {j}) = Bytes(S) - Size[j]
         /\ Cardinality(S) \in Nat /\ Bytes(S) \in Nat /\ Size[j] \in Nat
         /\ Cardinality(S) > 0 /\ Bytes(S) >= Size[j]
<1>1. S \ {j} \in SUBSET Job /\ IsFiniteSet(S \ {j}) /\ j \in Job /\ j \notin S \ {j}
  BY FS_RemoveElement
<1>2. (S \ {j}) \cup {j} = S
  OBVIOUS
<1>3. PICK T : T = S \ {j}
  OBVIOUS
<1>4. /\ Cardinality(T \cup {j}) = Cardinality(T) + 1
      /\ Bytes(T \cup {j}) = Bytes(T) + Size[j]
      /\ Cardinality(T) \in Nat /\ Bytes(T) \in Nat /\ Size[j] \in Nat
  BY <1>1, <1>3, OneMore
<1>5. T \cup {j} = S
  BY <1>2, <1>3
<1>6. Cardinality(T \cup {j}) = Cardinality(S) /\ Bytes(T \cup {j}) = Bytes(S)
  BY <1>5, Zenon
<1>7. Cardinality(S \ {j}) = Cardinality(T) /\ Bytes(S \ {j}) = Bytes(T)
  BY <1>3, Zenon
<1>. QED
  BY <1>1, <1>4, <1>6, <1>7

\* The least element of a set of naturals is one of its elements.
LEMMA MinIn ==
  ASSUME NEW S \in SUBSET Nat, S # {}
  PROVE  Min(S) \in S
<1>1. \E n \in S : \A m \in S : n <= m
  BY LeastNat
<1>. QED
  BY <1>1 DEF Min

-----------------------------------------------------------------------------
(* The order of the slots *)

\* An order has no slot to list when no slot is occupied.
LEMMA ListsNone == Lists(<<>>, {})
BY DEF Lists

\* A slot is listed last.
LEMMA ListsMore ==
  ASSUME NEW o, NEW S, Lists(o, S), NEW s \in Slot, s \notin S
  PROVE  Lists(Append(o, s), S \cup {s})
<1>1. /\ o \in Seq(Slot) /\ Append(o, s) \in Seq(Slot)
      /\ Len(Append(o, s)) = Len(o) + 1
      /\ DOMAIN o = 1 .. Len(o) /\ DOMAIN Append(o, s) = 1 .. Len(o) + 1
      /\ Len(o) \in Nat
  BY DEF Lists
<1>2. \A i \in 1 .. Len(o) + 1 :
        Append(o, s)[i] = IF i \in 1 .. Len(o) THEN o[i] ELSE s
  BY <1>1
<1>3. \A i \in 1 .. Len(o) : o[i] # s
  BY <1>1 DEF Lists
<1>4. ASSUME NEW i \in 1 .. Len(o) + 1, NEW k \in 1 .. Len(o) + 1,
             Append(o, s)[i] = Append(o, s)[k]
      PROVE  i = k
  BY <1>1, <1>2, <1>3, <1>4 DEF Lists
<1>5. ASSUME NEW u \in Slot
      PROVE  u \in S \cup {s} <=> \E i \in 1 .. Len(o) + 1 : Append(o, s)[i] = u
  <2>1. u \in S <=> \E i \in 1 .. Len(o) : o[i] = u
    BY <1>1 DEF Lists
  <2>2. Len(o) + 1 \in 1 .. Len(o) + 1 /\ Append(o, s)[Len(o) + 1] = s
    BY <1>1, <1>2
  <2>3. \A i \in 1 .. Len(o) : i \in 1 .. Len(o) + 1
    BY <1>1
  <2>. QED
    BY <1>2, <2>1, <2>2, <2>3
<1>. QED
  BY <1>1, <1>4, <1>5 DEF Lists

\* A slot leaves the order.
LEMMA ListsLess ==
  ASSUME NEW S, Lists(order, S), NEW r \in S, r \in Slot
  PROVE  Lists(Waiting(r), S \ {r})
<1>. DEFINE k == CHOOSE i \in DOMAIN order : order[i] = r
            n == Len(order)
<1>1. order \in Seq(Slot) /\ n \in Nat /\ DOMAIN order = 1 .. n
  BY DEF Lists
<1>2. k \in 1 .. n /\ order[k] = r
  BY <1>1 DEF Lists
<1>. HIDE DEF k, n
<1>3. r # 0
  BY QueueAssumption DEF Slot
<1>4. PICK o : o = Waiting(r)
  OBVIOUS
<1>5. o = SubSeq(order, 1, k - 1) \o SubSeq(order, k + 1, n)
  BY <1>3, <1>4 DEF Waiting, k, n
<1>6. PICK a, b : a = SubSeq(order, 1, k - 1) /\ b = SubSeq(order, k + 1, n)
  OBVIOUS
<1>7. /\ a \in Seq(Slot) /\ Len(a) = k - 1 /\ \A i \in 1 .. k - 1 : a[i] = order[i]
  BY <1>1, <1>2, <1>6
<1>8. /\ b \in Seq(Slot) /\ Len(b) = n - k /\ \A i \in 1 .. n - k : b[i] = order[k + i]
  <2>1. b \in Seq(Slot) /\ Len(b) = n - k
    <3>1. \A i \in k + 1 .. n : order[i] \in Slot
      BY <1>1, <1>2
    <3>2. k + 1 \in Int /\ n \in Int
      BY <1>1, <1>2
    <3>3. b \in Seq(Slot) /\ Len(b) = IF k + 1 <= n THEN n - (k + 1) + 1 ELSE 0
      BY <1>6, <3>1, <3>2, SubSeqProperties
    <3>4. PICK x : x = Len(b)
      OBVIOUS
    <3>5. x = IF k + 1 <= n THEN n - (k + 1) + 1 ELSE 0
      BY <3>3, <3>4
    <3>6. x = n - k
      BY <1>1, <1>2, <3>5
    <3>. QED
      BY <3>3, <3>4, <3>6
  <2>2. ASSUME NEW i \in 1 .. n - k PROVE b[i] = order[k + i]
    <3>1. b[i] = order[k + 1 + i - 1]
      BY <1>1, <1>2, <1>6
    <3>2. k + 1 + i - 1 = k + i
      BY <1>1, <1>2
    <3>. QED
      BY <3>1, <3>2
  <2>. QED
    BY <2>1, <2>2
<1>9. /\ o \in Seq(Slot) /\ Len(o) = n - 1 /\ DOMAIN o = 1 .. n - 1
      /\ \A i \in 1 .. n - 1 : o[i] = IF i < k THEN order[i] ELSE order[i + 1]
  <2>1. o = a \o b
    BY <1>5, <1>6
  <2>2. o \in Seq(Slot) /\ Len(o) = n - 1 /\ DOMAIN o = 1 .. n - 1
    <3>1. o \in Seq(Slot) /\ Len(o) = Len(a) + Len(b)
      <4>1. a \in Seq(Slot) /\ b \in Seq(Slot)
        BY <1>7, <1>8
      <4>2. a \o b \in Seq(Slot) /\ Len(a \o b) = Len(a) + Len(b)
        BY <4>1, ConcatProperties, Zenon
      <4>. QED
        BY <2>1, <4>2, Zenon
    <3>3. DOMAIN o = 1 .. Len(o)
      BY <3>1
    <3>2. Len(a) + Len(b) = n - 1
      BY <1>1, <1>2, <1>7, <1>8
    <3>. QED
      BY <3>1, <3>2, <3>3
  <2>3. ASSUME NEW i \in 1 .. n - 1
        PROVE  o[i] = IF i < k THEN order[i] ELSE order[i + 1]
    <3>1. CASE i < k
      <4>1. i \in 1 .. k - 1 /\ i \in 1 .. Len(a)
        BY <1>1, <1>2, <1>7, <3>1
      <4>. QED
        BY <1>7, <1>8, <2>1, <3>1, <4>1
    <3>2. CASE ~(i < k)
      <4>1. i - (k - 1) \in 1 .. n - k /\ k + (i - (k - 1)) = i + 1
        BY <1>1, <1>2, <3>2
      <4>2. o[i] = b[i - (k - 1)]
        BY <1>1, <1>2, <1>7, <1>8, <2>1, <3>2
      <4>3. b[i - (k - 1)] = order[k + (i - (k - 1))]
        BY <1>8, <4>1
      <4>. QED
        BY <3>2, <4>1, <4>2, <4>3
    <3>. QED
      BY <3>1, <3>2
  <2>. QED
    BY <2>2, <2>3
<1>10. ASSUME NEW i \in 1 .. n - 1, NEW h \in 1 .. n - 1, o[i] = o[h]
       PROVE  i = h
  <2>. DEFINE P(x) == IF x < k THEN x ELSE x + 1
  <2>1. P(i) \in 1 .. n /\ P(h) \in 1 .. n /\ o[i] = order[P(i)] /\ o[h] = order[P(h)]
    BY <1>1, <1>2, <1>9
  <2>2. P(i) = P(h)
    BY <1>1, <1>10, <2>1 DEF Lists
  <2>. QED
    BY <1>1, <1>2, <2>2
<1>11. ASSUME NEW u \in Slot
       PROVE  u \in S \ {r} <=> \E i \in 1 .. n - 1 : o[i] = u
  <2>1. ASSUME u \in S \ {r} PROVE \E i \in 1 .. n - 1 : o[i] = u
    <3>1. PICK x \in 1 .. n : order[x] = u
      BY <1>1, <2>1 DEF Lists
    <3>2. x # k
      BY <1>2, <2>1, <3>1
    <3>3. CASE x < k
      BY <1>1, <1>2, <1>9, <3>1, <3>3
    <3>4. CASE x > k
      <4>1. x - 1 \in 1 .. n - 1 /\ ~(x - 1 < k) /\ x - 1 + 1 = x
        BY <1>1, <1>2, <3>4
      <4>. QED
        BY <1>9, <3>1, <4>1
    <3>. QED
      BY <1>1, <1>2, <3>2, <3>3, <3>4
  <2>2. ASSUME NEW i \in 1 .. n - 1, o[i] = u PROVE u \in S \ {r}
    <3>1. PICK x \in 1 .. n : x # k /\ o[i] = order[x]
      BY <1>1, <1>2, <1>9
    <3>2. u # r
      BY <1>1, <1>2, <2>2, <3>1 DEF Lists
    <3>3. u \in S
      BY <1>1, <2>2, <3>1 DEF Lists
    <3>. QED
      BY <3>2, <3>3
  <2>. QED
    BY <2>1, <2>2
<1>. QED
  BY <1>4, <1>9, <1>10, <1>11 DEF Lists

\* The jobs of slots that hold different jobs are as many as the order is long.
LEMMA ListsLength ==
  ASSUME NEW f \in [Slot -> Job \cup {None}], Once(f), NEW o, NEW S,
         S = Occupied(f), Lists(o, S)
  PROVE  /\ Jobs(f) \in SUBSET Job /\ IsFiniteSet(Jobs(f))
         /\ Cardinality(Jobs(f)) = Len(o) /\ Len(o) \in Nat
<1>. DEFINE g == [i \in 1 .. Len(o) |-> f[o[i]]]
<1>1. o \in Seq(Slot) /\ Len(o) \in Nat /\ DOMAIN o = 1 .. Len(o)
  BY DEF Lists
<1>2. \A i \in 1 .. Len(o) : o[i] \in Slot /\ o[i] \in S
  BY <1>1 DEF Lists
<1>3. g \in [1 .. Len(o) -> Jobs(f)]
  BY <1>2 DEF Jobs, Occupied
<1>4. ASSUME NEW i \in 1 .. Len(o), NEW k \in 1 .. Len(o), g[i] = g[k]
      PROVE  i = k
  <2>1. o[i] = o[k]
    BY <1>2, <1>4 DEF Once, Occupied
  <2>. QED
    BY <1>1, <2>1 DEF Lists
<1>5. ASSUME NEW j \in Jobs(f) PROVE \E i \in 1 .. Len(o) : g[i] = j
  <2>1. PICK s \in Slot : f[s] = j /\ s \in S
    BY DEF Jobs, Occupied
  <2>2. PICK i \in 1 .. Len(o) : o[i] = s
    BY <1>1, <2>1 DEF Lists
  <2>. QED
    BY <2>1, <2>2
<1>6. ExistsBijection(1 .. Len(o), Jobs(f))
  <2>1. g \in Bijection(1 .. Len(o), Jobs(f))
    BY <1>3, <1>4, <1>5 DEF Bijection, Injection, Surjection, IsInjective
  <2>. QED
    BY <2>1 DEF ExistsBijection
<1>7. IsFiniteSet(Jobs(f)) /\ Cardinality(Jobs(f)) = Len(o)
  BY <1>1, <1>6, FS_NatBijection, FS_CountingElements
<1>8. Jobs(f) \in SUBSET Job
  BY DEF Jobs
<1>. QED
  BY <1>1, <1>7, <1>8

-----------------------------------------------------------------------------
(* The slots *)

\* What the invariant says of the jobs in the queue.
LEMMA QueueJobs ==
  ASSUME Fields, Distinct
  PROVE  /\ Pending = Jobs(slots) /\ Pending \in SUBSET Job /\ IsFiniteSet(Pending)
         /\ Cardinality(Pending) = Len(order) /\ Len(order) \in Nat
         /\ Live \in SUBSET Job /\ IsFiniteSet(Live)
         /\ active = None => Live = Pending
         /\ active # None => Live = Pending \cup {active} /\ active \in Job
<1>1. Pending = Jobs(slots)
  BY DEF Pending, Jobs
<1>2. /\ Jobs(slots) \in SUBSET Job /\ IsFiniteSet(Jobs(slots))
      /\ Cardinality(Jobs(slots)) = Len(order) /\ Len(order) \in Nat
  <2>1. PICK f : f = slots
    OBVIOUS
  <2>2. PICK o : o = order
    OBVIOUS
  <2>3. f \in [Slot -> Job \cup {None}] /\ Once(f) /\ Lists(o, Occupied(f))
    BY <2>1, <2>2 DEF Fields, Distinct
  <2>4. /\ Jobs(f) \in SUBSET Job /\ IsFiniteSet(Jobs(f))
        /\ Cardinality(Jobs(f)) = Len(o) /\ Len(o) \in Nat
    BY <2>3, ListsLength
  <2>. QED
    BY <2>1, <2>2, <2>4
<1>3. active = None => Live = Pending
  BY DEF Live
<1>4. active # None => Live = Pending \cup {active} /\ active \in Job
  BY DEF Live, Fields
<1>5. Pending \in SUBSET Job /\ IsFiniteSet(Pending) /\ Cardinality(Pending) = Len(order)
  BY <1>1, <1>2
<1>6. Live \in SUBSET Job /\ IsFiniteSet(Live)
  BY <1>3, <1>4, <1>5, FS_AddElement
<1>. QED
  BY <1>1, <1>2, <1>3, <1>4, <1>5, <1>6

\* A job leaves its slot.
LEMMA VacateIs ==
  ASSUME NEW f \in [Slot -> Job \cup {None}], Once(f), NEW r \in Slot, f[r] # None,
         NEW g, g = [s \in Slot |-> IF s = r THEN None ELSE f[s]]
  PROVE  /\ g \in [Slot -> Job \cup {None}] /\ Once(g) /\ g[r] = None
         /\ Jobs(g) = Jobs(f) \ {f[r]} /\ Occupied(g) = Occupied(f) \ {r}
<1>1. g \in [Slot -> Job \cup {None}] /\ g[r] = None
      /\ \A s \in Slot : g[s] = IF s = r THEN None ELSE f[s]
  OBVIOUS
<1>2. Once(g)
  BY <1>1 DEF Once
<1>3. Jobs(g) = Jobs(f) \ {f[r]}
  BY <1>1 DEF Once, Jobs
<1>4. Occupied(g) = Occupied(f) \ {r}
  BY <1>1 DEF Occupied
<1>. QED
  BY <1>1, <1>2, <1>3, <1>4

\* A job that is in no slot takes an empty one.
LEMMA FillIs ==
  ASSUME NEW f \in [Slot -> Job \cup {None}], Once(f), NEW s \in Slot, f[s] = None,
         NEW j \in Job, j \notin Jobs(f), NEW g \in [Slot -> Job \cup {None}],
         \A u \in Slot : g[u] = IF u = s THEN j ELSE f[u]
  PROVE  /\ Once(g)
         /\ Jobs(g) = Jobs(f) \cup {j} /\ Occupied(g) = Occupied(f) \cup {s}
<1>1. /\ g \in [Slot -> Job \cup {None}] /\ j # None
      /\ \A u \in Slot : g[u] = IF u = s THEN j ELSE f[u]
  BY QueueAssumption
<1>2. \A u \in Slot : f[u] # j
  BY <1>1 DEF Jobs
<1>3. Once(g)
  BY <1>1, <1>2 DEF Once
<1>4. Jobs(g) = Jobs(f) \cup {j}
  <2>1. ASSUME NEW x \in Jobs(g) PROVE x \in Jobs(f) \cup {j}
    BY <1>1 DEF Jobs
  <2>2. j \in Jobs(g)
    BY <1>1 DEF Jobs
  <2>3. ASSUME NEW x \in Jobs(f) PROVE x \in Jobs(g)
    <3>1. PICK u \in Slot : f[u] = x /\ x # None
      BY DEF Jobs
    <3>2. u # s
      BY <3>1
    <3>. QED
      BY <1>1, <3>1, <3>2 DEF Jobs
  <2>. QED
    BY <2>1, <2>2, <2>3
<1>5. Occupied(g) = Occupied(f) \cup {s}
  BY <1>1 DEF Occupied
<1>. QED
  BY <1>1, <1>3, <1>4, <1>5

\* The job that makes way, if any, is a pending one.
LEMMA ReplacementIs ==
  ASSUME Fields, Distinct, NEW j \in Job
  PROVE  /\ Replacement(j) # 0 =>
              Replacement(j) \in Occupied(slots) /\ slots[Replacement(j)] \in Pending
         /\ Replacement(j) # 0 =>
              \/ Replacement(j) \in Redundant(j)
              \/ Pressed(j) /\ Replacement(j) \in Displaceable(j)
<1>1. \A S \in SUBSET Slot : S # {} => Min(S) \in S
  <2>1. Slot \subseteq Nat
    BY QueueAssumption DEF Slot
  <2>. QED
    BY <2>1, MinIn
<1>2. ASSUME Displaceable(j) # {} PROVE Oldest(Displaceable(j)) \in Displaceable(j)
  <2>1. order \in Seq(Slot) /\ DOMAIN order = 1 .. Len(order) /\ Len(order) \in Nat
    BY DEF Fields
  <2>. DEFINE I == {i \in DOMAIN order : order[i] \in Displaceable(j)}
  <2>2. PICK s \in Slot : s \in Displaceable(j) /\ s \in Occupied(slots)
    BY <1>2 DEF Displaceable, Occupied
  <2>3. \E i \in DOMAIN order : order[i] = s
    BY <2>2 DEF Distinct, Lists
  <2>4. I # {} /\ I \in SUBSET Nat
    BY <2>1, <2>2, <2>3
  <2>5. Min(I) \in I
    <3>. HIDE DEF I
    <3>. QED
      BY <2>4, MinIn
  <2>. QED
    BY <2>5 DEF Oldest
<1>3. ASSUME Redundant(j) # {} PROVE Min(Redundant(j)) \in Redundant(j)
  <2>1. Redundant(j) \in SUBSET Slot
    BY DEF Redundant
  <2>. QED
    BY <1>1, <1>3, <2>1
<1>4. Replacement(j) # 0 =>
        \/ Replacement(j) \in Redundant(j)
        \/ Pressed(j) /\ Replacement(j) \in Displaceable(j)
  BY <1>2, <1>3 DEF Replacement
<1>5. \A s \in Redundant(j) \cup Displaceable(j) :
        s \in Occupied(slots) /\ slots[s] \in Pending
  BY DEF Redundant, Displaceable, Occupied, Pending
<1>. QED
  BY <1>4, <1>5

\* The slots and their order once a job has made way.
LEMMA Discarded ==
  ASSUME Fields, Distinct, NEW r, r = 0 \/ r \in Occupied(slots)
  PROVE  /\ Vacated(r) \in [Slot -> Job \cup {None}] /\ Once(Vacated(r))
         /\ Lists(Waiting(r), Occupied(Vacated(r)))
         /\ Jobs(Vacated(r)) = IF r = 0 THEN Pending ELSE Pending \ {slots[r]}
         /\ r # 0 => Vacated(r)[r] = None /\ r \in Slot /\ slots[r] \in Pending
         /\ r = 0 => Vacated(r) = slots
<1>1. PICK f : f = slots
  OBVIOUS
<1>2. f \in [Slot -> Job \cup {None}] /\ Once(f) /\ Pending = Jobs(f)
  BY <1>1 DEF Fields, Distinct, Pending, Jobs
<1>3. PICK g : g = Vacated(r)
  OBVIOUS
<1>4. g = [s \in Slot |-> IF s = r THEN None ELSE f[s]]
  BY <1>1, <1>3 DEF Vacated
<1>5. CASE r = 0
  <2>1. r \notin Slot
    BY <1>5, QueueAssumption DEF Slot
  <2>2. g = f
    BY <1>2, <1>4, <2>1
  <2>3. Waiting(r) = order
    BY <1>5 DEF Waiting
  <2>4. Lists(order, Occupied(f))
    BY <1>1 DEF Distinct
  <2>. QED
    BY <1>1, <1>2, <1>3, <1>5, <2>2, <2>3, <2>4
<1>6. CASE r # 0
  <2>1. r \in Slot /\ f[r] # None /\ r \in Occupied(f)
    BY <1>1, <1>6 DEF Occupied
  <2>2. /\ g \in [Slot -> Job \cup {None}] /\ Once(g) /\ g[r] = None
        /\ Jobs(g) = Jobs(f) \ {f[r]} /\ Occupied(g) = Occupied(f) \ {r}
    BY <1>2, <1>4, <2>1, VacateIs
  <2>3. Lists(order, Occupied(f))
    BY <1>1 DEF Distinct
  <2>4. Lists(Waiting(r), Occupied(f) \ {r})
    BY <2>1, <2>3, ListsLess
  <2>5. f[r] \in Pending
    BY <1>1, <2>1 DEF Pending
  <2>6. Lists(Waiting(r), Occupied(g))
    BY <2>2, <2>4, Zenon
  <2>. QED
    BY <1>1, <1>2, <1>3, <1>6, <2>1, <2>2, <2>5, <2>6
<1>. QED
  BY <1>5, <1>6

-----------------------------------------------------------------------------
(* Every step keeps the queue exact *)

\* Steps that leave the queue alone.
LEMMA SameQueue ==
  ASSUME Fields, Distinct, Counted, UNCHANGED queue
  PROVE  Distinct' /\ Counted'
<1>1. UNCHANGED <<slots, order, active, count, pinned>>
  BY DEF queue
<1>2. Pending' = Pending /\ Live' = Live
  BY <1>1 DEF Pending, Live
<1>3. Distinct'
  BY <1>1, <1>2 DEF Distinct, Once, Lists, Occupied
<1>4. Bytes(Live') = Bytes(Live) /\ Cardinality(Live') = Cardinality(Live)
  BY <1>2, Zenon
<1>. QED
  BY <1>1, <1>3, <1>4 DEF Counted

\* The record of a submitter, changed in one place.
LEMMA SubIs ==
  ASSUME subs \in [Submitter -> SubState], NEW t \in Submitter, NEW x \in SubState,
         subs' = [subs EXCEPT ![t] = x]
  PROVE  /\ subs' \in [Submitter -> SubState] /\ subs'[t] = x
         /\ \A u \in Submitter \ {t} : subs'[u] = subs[u]
OBVIOUS

\* An idle submitter.
LEMMA IdleIs == Idle \in SubState /\ Idle.pc = "idle" /\ Idle.owes = None
BY DEF Idle, SubState

\* A handle is reserved for the submission.
LEMMA ExactPersistBegin ==
  ASSUME Exact, NEW t \in Submitter, NEW j \in Job, PersistBegin(t, j)
  PROVE  Exact'
<1>1. Fields /\ Submissions /\ Distinct /\ Counted
  BY DEF Exact
<1>2. PICK e \in Entry :
        /\ table' = [table EXCEPT ![e] = j]
        /\ subs' = [subs EXCEPT ![t] = [Idle EXCEPT !.pc = "submit", !.job = j,
                                                    !.entry = e]]
  BY DEF PersistBegin
<1>3. PICK x : x = [Idle EXCEPT !.pc = "submit", !.job = j, !.entry = e]
  OBVIOUS
<1>4. x \in SubState /\ x.pc = "submit" /\ x.job = j /\ x.owes = None
  BY <1>3 DEF Idle, SubState
<1>5. /\ subs' \in [Submitter -> SubState] /\ subs'[t] = x
      /\ \A u \in Submitter \ {t} : subs'[u] = subs[u]
  BY <1>1, <1>2, <1>3, <1>4, SubIs DEF Fields
<1>6. Distinct' /\ Counted'
  BY <1>1, SameQueue DEF PersistBegin
<1>7. Fields'
  BY <1>1, <1>2, <1>5 DEF Fields, PersistBegin, queue
<1>8. Submissions'
  BY <1>1, <1>4, <1>5 DEF Submissions
<1>. QED
  BY <1>6, <1>7, <1>8 DEF Exact

\* The table after the callback.
LEMMA ReleasedType ==
  ASSUME Fields, NEW j
  PROVE  Released(j) \in [Entry -> Job \cup {None}]
BY DEF Fields, Released

\* The superseded job is reported.
LEMMA ExactReportSuperseded ==
  ASSUME Exact, NEW t \in Submitter, ReportSuperseded(t)
  PROVE  Exact'
<1>1. Fields /\ Submissions /\ Distinct /\ Counted
  BY DEF Exact
<1>2. PICK x : x = IF subs[t].ok THEN Idle
                   ELSE [subs[t] EXCEPT !.pc = "refused", !.owes = None]
  OBVIOUS
<1>3. x \in SubState /\ x.owes = None /\ x.pc # "report"
      /\ (x.pc # "idle" => x.job = subs[t].job)
  BY <1>1, <1>2, IdleIs DEF Fields, SubState
<1>4. subs' = [subs EXCEPT ![t] = x]
  BY <1>1, <1>2 DEF ReportSuperseded
<1>5. /\ subs' \in [Submitter -> SubState] /\ subs'[t] = x
      /\ \A u \in Submitter \ {t} : subs'[u] = subs[u]
  BY <1>1, <1>3, <1>4, SubIs DEF Fields
<1>6. Distinct' /\ Counted'
  BY <1>1, SameQueue DEF ReportSuperseded
<1>7. Fields'
  BY <1>1, <1>5, ReleasedType DEF Fields, ReportSuperseded, queue
<1>8. Submissions'
  BY <1>1, <1>3, <1>5 DEF Submissions, ReportSuperseded
<1>. QED
  BY <1>6, <1>7, <1>8 DEF Exact

\* The handle of a refused job is given back.
LEMMA ExactPersistRefused ==
  ASSUME Exact, NEW t \in Submitter, PersistRefused(t)
  PROVE  Exact'
<1>1. Fields /\ Submissions /\ Distinct /\ Counted
  BY DEF Exact
<1>2. /\ subs' \in [Submitter -> SubState] /\ subs'[t] = Idle
      /\ \A u \in Submitter \ {t} : subs'[u] = subs[u]
  BY <1>1, SubIs, IdleIs DEF Fields, PersistRefused
<1>3. Distinct' /\ Counted'
  BY <1>1, SameQueue DEF PersistRefused
<1>4. table' \in [Entry -> Job \cup {None}]
  BY <1>1 DEF Fields, PersistRefused
<1>5. Fields'
  BY <1>1, <1>2, <1>4 DEF Fields, PersistRefused, queue
<1>6. Submissions'
  BY <1>1, <1>2, IdleIs DEF Submissions
<1>. QED
  BY <1>3, <1>5, <1>6 DEF Exact

\* What TrySubmit leaves to its caller.
LEMMA ReturnsIs ==
  ASSUME Fields, Submissions, NEW t \in Submitter, subs[t].pc = "submit",
         NEW r, NEW ok \in BOOLEAN, Returns(t, r, ok), r # 0 => slots[r] \in Job
  PROVE  /\ subs' \in [Submitter -> SubState] /\ Submissions'
         /\ \A u \in Submitter \ {t} : subs'[u] = subs[u]
         /\ r # 0 => /\ subs'[t].pc = "report" /\ subs'[t].owes = slots[r]
                     /\ subs'[t].ok = ok
         /\ r = 0 /\ ~ok => subs'[t].pc = "refused"
         /\ r = 0 /\ ok => subs'[t].pc = "idle"
         /\ r # 0 \/ ~ok => /\ subs'[t].job = subs[t].job
                            /\ subs'[t].entry = subs[t].entry
<1>1. PICK x : x = IF r # 0 THEN [subs[t] EXCEPT !.pc = "report", !.owes = slots[r],
                                                 !.ok = ok]
                   ELSE IF ok THEN Idle ELSE [subs[t] EXCEPT !.pc = "refused"]
  OBVIOUS
<1>2. subs[t] \in SubState /\ subs[t].owes = None /\ subs[t].job \in Job
  BY DEF Fields, Submissions
<1>3. subs' = [subs EXCEPT ![t] = x]
  BY <1>1 DEF Returns, Fields
<1>4. CASE r # 0
  <2>1. x = [subs[t] EXCEPT !.pc = "report", !.owes = slots[r], !.ok = ok]
    BY <1>1, <1>4
  <2>2. /\ x \in SubState /\ x.pc = "report" /\ x.owes = slots[r] /\ x.ok = ok
        /\ x.job = subs[t].job /\ x.entry = subs[t].entry
    BY <1>2, <1>4, <2>1 DEF SubState
  <2>3. /\ subs' \in [Submitter -> SubState] /\ subs'[t] = x
        /\ \A u \in Submitter \ {t} : subs'[u] = subs[u]
    BY <1>3, <2>2, SubIs DEF Fields
  <2>. QED
    BY <1>2, <1>4, <2>2, <2>3 DEF Submissions
<1>5. CASE r = 0 /\ ok
  <2>1. x = Idle
    BY <1>1, <1>5
  <2>2. /\ subs' \in [Submitter -> SubState] /\ subs'[t] = x
        /\ \A u \in Submitter \ {t} : subs'[u] = subs[u]
    BY <1>3, <2>1, SubIs, IdleIs DEF Fields
  <2>. QED
    BY <1>5, <2>1, <2>2, IdleIs DEF Submissions
<1>6. CASE r = 0 /\ ~ok
  <2>1. x = [subs[t] EXCEPT !.pc = "refused"]
    BY <1>1, <1>6
  <2>2. /\ x \in SubState /\ x.pc = "refused" /\ x.owes = None
        /\ x.job = subs[t].job /\ x.entry = subs[t].entry
    BY <1>2, <2>1 DEF SubState
  <2>3. /\ subs' \in [Submitter -> SubState] /\ subs'[t] = x
        /\ \A u \in Submitter \ {t} : subs'[u] = subs[u]
    BY <1>3, <2>2, SubIs DEF Fields
  <2>. QED
    BY <1>2, <1>6, <2>2, <2>3 DEF Submissions
<1>. QED
  BY <1>4, <1>5, <1>6

\* A submission is refused at once.
LEMMA ExactSubmitRefused ==
  ASSUME Exact, NEW t \in Submitter, SubmitRefused(t)
  PROVE  Exact'
<1>1. Fields /\ Submissions /\ Distinct /\ Counted
  BY DEF Exact
<1>2. subs' \in [Submitter -> SubState] /\ Submissions'
  BY <1>1, ReturnsIs DEF SubmitRefused
<1>3. Distinct' /\ Counted'
  BY <1>1, SameQueue DEF SubmitRefused
<1>4. Fields'
  BY <1>1, <1>2 DEF Fields, SubmitRefused, queue
<1>. QED
  BY <1>2, <1>3, <1>4 DEF Exact

\* The same, of a slot that has a name.
LEMMA MakesWay ==
  ASSUME Fields, Distinct, NEW j \in Job, NEW r, r = Replacement(j)
  PROVE  /\ r = 0 \/ r \in Occupied(slots)
         /\ r # 0 => r \in Slot /\ slots[r] \in Pending /\ slots[r] \in Job
<1>1. r # 0 => r \in Occupied(slots) /\ slots[r] \in Pending
  BY ReplacementIs, Zenon
<1>2. Pending \in SUBSET Job
  BY QueueJobs
<1>3. r \in Occupied(slots) => r \in Slot
  BY DEF Occupied
<1>. QED
  BY <1>1, <1>2, <1>3

\* What the queue counts once a job has made way.
LEMMA DiscardCounts ==
  ASSUME Fields, Distinct, Counted, NEW r, r = 0 \/ r \in Occupied(slots),
         NEW L, L = IF r = 0 THEN Live ELSE Live \ {slots[r]}
  PROVE  /\ L \in SUBSET Job /\ IsFiniteSet(L) /\ L \subseteq Live
         /\ Cardinality(L) = count - (IF r = 0 THEN 0 ELSE 1)
         /\ Bytes(L) = pinned - (IF r = 0 THEN 0 ELSE Size[slots[r]])
         /\ Cardinality(L) \in Nat /\ Bytes(L) \in Nat
         /\ count \in Nat /\ pinned \in Nat
         /\ L = Jobs(Vacated(r)) \cup ({active} \ {None})
<1>1. /\ Live \in SUBSET Job /\ IsFiniteSet(Live)
      /\ count = Cardinality(Live) /\ pinned = Bytes(Live)
  BY QueueJobs DEF Counted
<1>2. count \in Nat /\ pinned \in Nat
  BY <1>1, FS_CardinalityType, BytesNat
<1>3. CASE r = 0
  <2>1. L = Live /\ Jobs(Vacated(r)) = Pending
    BY <1>3, Discarded
  <2>2. L = Jobs(Vacated(r)) \cup ({active} \ {None})
    BY <2>1 DEF Live
  <2>3. Cardinality(L) = count /\ Bytes(L) = pinned
    BY <1>1, <2>1, Zenon
  <2>. QED
    BY <1>1, <1>2, <1>3, <2>1, <2>2, <2>3
<1>4. CASE r # 0
  <2>1. /\ slots[r] \in Pending /\ Jobs(Vacated(r)) = Pending \ {slots[r]}
        /\ active \notin Pending
    BY <1>4, Discarded DEF Distinct
  <2>2. slots[r] \in Live /\ L = Live \ {slots[r]}
    BY <1>4, <2>1 DEF Live
  <2>3. L = Jobs(Vacated(r)) \cup ({active} \ {None})
    BY <2>1, <2>2 DEF Live
  <2>4. PICK S, j : S = Live /\ j = slots[r]
    OBVIOUS
  <2>5. /\ IsFiniteSet(S \ {j}) /\ Cardinality(S \ {j}) = Cardinality(S) - 1
        /\ Bytes(S \ {j}) = Bytes(S) - Size[j]
        /\ Cardinality(S) \in Nat /\ Bytes(S) \in Nat /\ Size[j] \in Nat
        /\ Cardinality(S) > 0 /\ Bytes(S) >= Size[j]
    BY <1>1, <2>2, <2>4, OneLess
  <2>6. L = S \ {j}
    BY <2>2, <2>4
  <2>7. Cardinality(L) = Cardinality(S \ {j}) /\ Bytes(L) = Bytes(S \ {j})
        /\ IsFiniteSet(L)
    BY <2>5, <2>6, Zenon
  <2>8. count = Cardinality(S) /\ pinned = Bytes(S)
    BY <1>1, <2>4
  <2>9. /\ Cardinality(L) = count - 1 /\ Bytes(L) = pinned - Size[slots[r]]
        /\ Cardinality(L) \in Nat /\ Bytes(L) \in Nat
    BY <2>4, <2>5, <2>7, <2>8
  <2>. QED
    BY <1>1, <1>2, <1>4, <2>2, <2>3, <2>7, <2>9
<1>. QED
  BY <1>3, <1>4

\* The job that made way is gone and the new one is not there.
LEMMA ExactSubmitUnpinned ==
  ASSUME Exact, NEW t \in Submitter, SubmitUnpinned(t)
  PROVE  Exact'
<1>1. Fields /\ Submissions /\ Distinct /\ Counted
  BY DEF Exact
<1>2. subs[t].pc = "submit" /\ subs[t].job \in Job
  BY <1>1 DEF SubmitUnpinned, Submissions
<1>3. PICK r : r = Replacement(subs[t].job)
  OBVIOUS
<1>4. /\ r = 0 \/ r \in Occupied(slots)
      /\ r # 0 => r \in Slot /\ slots[r] \in Pending /\ slots[r] \in Job
  <2>1. PICK j \in Job : j = subs[t].job
    BY <1>2
  <2>2. r = Replacement(j)
    BY <1>3, <2>1
  <2>. QED
    BY <1>1, <2>2, MakesWay, Zenon
<1>5. /\ slots' = Vacated(r) /\ order' = Waiting(r) /\ active' = active
      /\ count' = count - (IF r = 0 THEN 0 ELSE 1)
      /\ pinned' = pinned - (IF r = 0 THEN 0 ELSE Size[slots[r]])
  BY <1>3 DEF SubmitUnpinned, Discard
<1>6. /\ Vacated(r) \in [Slot -> Job \cup {None}] /\ Once(Vacated(r))
      /\ Lists(Waiting(r), Occupied(Vacated(r)))
      /\ Jobs(Vacated(r)) \subseteq Pending
  BY <1>1, <1>4, Discarded
<1>7. PICK L : L = IF r = 0 THEN Live ELSE Live \ {slots[r]}
  OBVIOUS
<1>8. /\ L \in SUBSET Job /\ IsFiniteSet(L)
      /\ Cardinality(L) = count' /\ Bytes(L) = pinned'
      /\ Cardinality(L) \in Nat /\ Bytes(L) \in Nat
      /\ L = Jobs(Vacated(r)) \cup ({active} \ {None})
      /\ count \in Nat /\ pinned \in Nat
  BY <1>1, <1>4, <1>5, <1>7, DiscardCounts
<1>9. Pending' = Jobs(Vacated(r)) /\ Live' = L
  BY <1>5, <1>8 DEF Pending, Live, Jobs
<1>10. Counted'
  <2>1. Cardinality(Live') = Cardinality(L) /\ Bytes(Live') = Bytes(L)
    BY <1>9, Zenon
  <2>2. count' <= count
    BY <1>5, <1>8
  <2>3. pinned' <= pinned
    <3>1. CASE r = 0
      BY <1>5, <1>8, <3>1
    <3>2. CASE r # 0
      <4>1. Size[slots[r]] \in Nat
        BY <1>1, <1>4, <3>2, QueueJobs, QueueAssumption
      <4>. QED
        BY <1>5, <1>8, <3>2, <4>1
    <3>. QED
      BY <3>1, <3>2
  <2>. QED
    BY <1>1, <1>8, <2>1, <2>2, <2>3, QueueAssumption DEF Counted
<1>11. Distinct'
  <2>1. Once(slots') /\ Lists(order', Occupied(slots'))
    BY <1>5, <1>6
  <2>. QED
    BY <1>1, <1>5, <1>6, <1>9, <2>1 DEF Distinct
<1>12. subs' \in [Submitter -> SubState] /\ Submissions'
  <2>1. slots[r] \in Job \/ r = 0
    BY <1>1, <1>4, QueueJobs
  <2>2. CASE Returns(t, r, FALSE)
    BY <1>1, <1>2, <2>1, <2>2, ReturnsIs
  <2>3. CASE subs' = [subs EXCEPT ![t] = Idle]
    <3>1. /\ subs' \in [Submitter -> SubState] /\ subs'[t] = Idle
          /\ \A u \in Submitter \ {t} : subs'[u] = subs[u]
      BY <1>1, <2>3, SubIs, IdleIs DEF Fields
    <3>. QED
      BY <1>1, <3>1, IdleIs DEF Submissions
  <2>. QED
    BY <1>3, <2>2, <2>3 DEF SubmitUnpinned
<1>13. Fields'
  <2>1. order' \in Seq(Slot)
    BY <1>5, <1>6 DEF Lists
  <2>. QED
    BY <1>1, <1>5, <1>6, <1>12, <2>1 DEF Fields, SubmitUnpinned
<1>. QED
  BY <1>10, <1>11, <1>12, <1>13 DEF Exact

\* The queue with room for j has a slot for it.
LEMMA EmptySlot ==
  ASSUME Fields, Distinct, Counted, NEW j \in Job, Admissible(j), Replacement(j) = 0
  PROVE  /\ count < Depth
         /\ Min({e \in Slot : slots[e] = None}) \in {e \in Slot : slots[e] = None}
<1>1. count # Depth
  BY DEF Admissible, Freed
<1>2. /\ Live \in SUBSET Job /\ IsFiniteSet(Live) /\ Cardinality(Pending) = Len(order)
      /\ Len(order) \in Nat
      /\ IsFiniteSet(Pending) /\ Pending \subseteq Live
  BY QueueJobs DEF Live
<1>3. Cardinality(Pending) <= Cardinality(Live) /\ Cardinality(Live) \in Nat
  BY <1>2, FS_Subset, FS_CardinalityType
<1>4. Depth \in Nat /\ count \in Nat /\ count < Depth /\ Len(order) < Depth
  BY <1>1, <1>2, <1>3, QueueAssumption DEF Counted
<1>5. {e \in Slot : slots[e] = None} # {}
  <2>. SUFFICES ASSUME \A e \in Slot : slots[e] # None PROVE FALSE
    OBVIOUS
  <2>1. \A s \in Slot : \E i \in DOMAIN order : order[i] = s
    BY DEF Distinct, Lists, Occupied
  <2>2. order \in Seq(Slot) /\ DOMAIN order = 1 .. Len(order)
    BY DEF Fields
  <2>3. order \in Surjection(1 .. Len(order), Slot)
    BY <2>1, <2>2 DEF Surjection
  <2>4. ExistsSurjection(1 .. Len(order), Slot)
    BY <2>3 DEF ExistsSurjection
  <2>5. Cardinality(Slot) <= Len(order)
    BY <1>2, <2>4, FS_SurjCardinalityBound
  <2>6. Cardinality(Slot) = Depth
    BY <1>4, FS_Interval DEF Slot
  <2>. QED
    BY <1>2, <1>4, <2>5, <2>6
<1>6. {e \in Slot : slots[e] = None} \in SUBSET Nat
  BY <1>4 DEF Slot
<1>. QED
  BY <1>4, <1>5, <1>6, MinIn

\* The job enters the queue, in the slot of the one that made way if there was one.
LEMMA ExactSubmitAccepted ==
  ASSUME Exact, NEW t \in Submitter, SubmitAccepted(t)
  PROVE  Exact'
<1>1. Fields /\ Submissions /\ Distinct /\ Counted
  BY DEF Exact
<1>2. PICK j \in Job : j = subs[t].job
  BY <1>1 DEF SubmitAccepted, Submissions
<1>3. subs[t].pc = "submit" /\ Admissible(j) /\ j \notin Live
  BY <1>2 DEF SubmitAccepted, Admissible
<1>4. PICK r : r = Replacement(j)
  OBVIOUS
<1>5. PICK s : s = IF r # 0 THEN r ELSE Min({e \in Slot : slots[e] = None})
  OBVIOUS
<1>6. /\ slots' = [Vacated(r) EXCEPT ![s] = j] /\ order' = Append(Waiting(r), s)
      /\ count' = count + (IF r = 0 THEN 1 ELSE 0)
      /\ pinned' = pinned - Freed(j) + Size[j] /\ Returns(t, r, TRUE)
      /\ UNCHANGED <<active, stopped, worker, table, closing, stored>>
  BY <1>2, <1>4, <1>5 DEF SubmitAccepted
<1>7. /\ r = 0 \/ r \in Occupied(slots)
      /\ r # 0 => r \in Slot /\ slots[r] \in Pending /\ slots[r] \in Job
  BY <1>1, <1>4, MakesWay, Zenon
<1>8. PICK f : f = Vacated(r)
  OBVIOUS
<1>9. PICK o : o = Waiting(r)
  OBVIOUS
<1>10. /\ f \in [Slot -> Job \cup {None}] /\ Once(f) /\ Lists(o, Occupied(f))
       /\ Jobs(f) \subseteq Pending
       /\ r # 0 => f[r] = None /\ r \in Slot
       /\ r = 0 => f = slots
  BY <1>1, <1>7, <1>8, <1>9, Discarded
<1>11. s \in Slot /\ f[s] = None
  BY <1>1, <1>3, <1>4, <1>5, <1>10, EmptySlot
<1>12. j \notin Jobs(f) /\ j # active
  BY <1>3, <1>10, QueueAssumption DEF Live
<1>13. PICK g : g = [f EXCEPT ![s] = j]
  OBVIOUS
<1>14. /\ g \in [Slot -> Job \cup {None}] /\ Once(g)
       /\ Jobs(g) = Jobs(f) \cup {j} /\ Occupied(g) = Occupied(f) \cup {s}
  <2>1. f \in [Slot -> Job \cup {None}] /\ Once(f)
    BY <1>10
  <2>2. s \in Slot /\ f[s] = None /\ j \notin Jobs(f)
    BY <1>11, <1>12
  <2>3. /\ g \in [Slot -> Job \cup {None}]
        /\ \A u \in Slot : g[u] = IF u = s THEN j ELSE f[u]
    BY <1>13, <2>1, <2>2
  <2>4. Once(g) /\ Jobs(g) = Jobs(f) \cup {j} /\ Occupied(g) = Occupied(f) \cup {s}
    BY <2>1, <2>2, <2>3, FillIs
  <2>. QED
    BY <2>3, <2>4
<1>15. slots' = g /\ order' = Append(o, s)
  BY <1>6, <1>8, <1>9, <1>13
<1>16. Lists(Append(o, s), Occupied(g))
  <2>1. s \notin Occupied(f)
    BY <1>11 DEF Occupied
  <2>2. Lists(Append(o, s), Occupied(f) \cup {s})
    BY <1>10, <1>11, <2>1, ListsMore
  <2>. QED
    BY <1>14, <2>2, Zenon
<1>17. PICK L : L = IF r = 0 THEN Live ELSE Live \ {slots[r]}
  OBVIOUS
<1>18. /\ L \in SUBSET Job /\ IsFiniteSet(L) /\ j \notin L
       /\ Cardinality(L) = count - (IF r = 0 THEN 0 ELSE 1)
       /\ Bytes(L) = pinned - (IF r = 0 THEN 0 ELSE Size[slots[r]])
       /\ Cardinality(L) \in Nat /\ Bytes(L) \in Nat
       /\ count \in Nat /\ pinned \in Nat
       /\ L = Jobs(f) \cup ({active} \ {None})
  BY <1>1, <1>3, <1>7, <1>8, <1>17, DiscardCounts
<1>19. /\ IsFiniteSet(L \cup {j}) /\ Cardinality(L \cup {j}) = Cardinality(L) + 1
       /\ Bytes(L \cup {j}) = Bytes(L) + Size[j] /\ Size[j] \in Nat
  BY <1>18, OneMore
<1>20. Pending' = Jobs(g) /\ Live' = L \cup {j}
  <2>1. Pending' = Jobs(g)
    BY <1>15 DEF Pending, Jobs
  <2>2. Live' = Pending' \cup ({active} \ {None})
    BY <1>6 DEF Live
  <2>. QED
    BY <1>14, <1>18, <2>1, <2>2
<1>21. Cardinality(Live') = Cardinality(L) + 1 /\ Bytes(Live') = Bytes(L) + Size[j]
  BY <1>19, <1>20, Zenon
<1>22. Freed(j) = IF r = 0 THEN 0 ELSE Size[slots[r]]
  BY <1>4 DEF Freed
<1>23. count' = Cardinality(Live') /\ count' <= Depth
  <2>1. CASE r = 0
    <3>1. count < Depth
      BY <1>1, <1>3, <1>4, <2>1, EmptySlot
    <3>. QED
      BY <1>6, <1>18, <1>21, <2>1, <3>1, QueueAssumption
  <2>2. CASE r # 0
    BY <1>1, <1>6, <1>18, <1>21, <2>2, QueueAssumption DEF Counted
  <2>. QED
    BY <2>1, <2>2
<1>24. pinned' = Bytes(Live') /\ pinned' <= MaxBytes
  <2>1. Bytes(L) = pinned - Freed(j)
    BY <1>18, <1>22
  <2>2. Size[j] <= MaxBytes - (pinned - Freed(j))
    BY <1>3 DEF Admissible
  <2>3. pinned' = (pinned - Freed(j)) + Size[j]
    BY <1>6
  <2>. QED
    BY <1>18, <1>19, <1>21, <2>1, <2>2, <2>3, QueueAssumption
<1>25. Counted'
  BY <1>23, <1>24 DEF Counted
<1>26. Distinct'
  <2>1. Once(slots') /\ Lists(order', Occupied(slots'))
    BY <1>14, <1>15, <1>16
  <2>2. active' \notin Pending'
    BY <1>1, <1>6, <1>10, <1>12, <1>14, <1>20 DEF Distinct
  <2>. QED
    BY <2>1, <2>2 DEF Distinct
<1>27. subs' \in [Submitter -> SubState] /\ Submissions'
  <2>1. r # 0 => slots[r] \in Job
    BY <1>1, <1>7, QueueJobs
  <2>. QED
    BY <1>1, <1>3, <1>6, <2>1, ReturnsIs
<1>28. Fields'
  <2>1. order' \in Seq(Slot)
    BY <1>15, <1>16 DEF Lists
  <2>. QED
    BY <1>1, <1>6, <1>14, <1>15, <1>27, <2>1 DEF Fields
<1>. QED
  BY <1>25, <1>26, <1>27, <1>28 DEF Exact


\* The worker takes the oldest job, which stays counted.
LEMMA TakeIs ==
  ASSUME Exact, WorkerTake
  PROVE  /\ active = None /\ order[1] \in Occupied(slots)
         /\ active' = slots[order[1]] /\ slots[order[1]] \in Pending
         /\ slots' = Vacated(order[1]) /\ order' = Waiting(order[1])
         /\ Pending' = Pending \ {slots[order[1]]} /\ Live' = Live
<1>1. Fields /\ Distinct /\ Counted
  BY DEF Exact
<1>2. active = None /\ count # 0
  BY <1>1 DEF Fields, WorkerTake
<1>3. Live = Pending /\ Cardinality(Pending) = Len(order) /\ Len(order) \in Nat
  BY <1>1, <1>2, QueueJobs
<1>4. Cardinality(Live) = Cardinality(Pending)
  BY <1>3, Zenon
<1>5. Len(order) # 0 /\ 1 \in 1 .. Len(order)
  BY <1>1, <1>2, <1>3, <1>4 DEF Counted
<1>6. order[1] \in Occupied(slots)
  BY <1>1, <1>5 DEF Fields, Distinct, Lists
<1>7. PICK r : r = order[1]
  OBVIOUS
<1>8. active' = slots[r] /\ slots' = Vacated(r) /\ order' = Waiting(r)
  BY <1>7 DEF WorkerTake, NextSlot
<1>9. r \in Occupied(slots) /\ r # 0
  BY <1>6, <1>7, QueueAssumption DEF Occupied, Slot
<1>10. Jobs(Vacated(r)) = Pending \ {slots[r]} /\ slots[r] \in Pending
  BY <1>1, <1>9, Discarded
<1>11. Pending' = Jobs(Vacated(r))
  BY <1>8 DEF Pending, Jobs
<1>12. Pending' = Pending \ {slots[r]}
  BY <1>10, <1>11
<1>13. None \notin Pending
  BY DEF Pending
<1>14. Live' = Pending' \cup ({slots[r]} \ {None})
  BY <1>8 DEF Live
<1>15. Live' = Live
  BY <1>3, <1>10, <1>12, <1>13, <1>14
<1>. QED
  BY <1>2, <1>6, <1>7, <1>8, <1>10, <1>12, <1>15

\* The worker takes a job.
LEMMA ExactWorkerTake ==
  ASSUME Exact, WorkerTake
  PROVE  Exact'
<1>1. Fields /\ Submissions /\ Distinct /\ Counted
  BY DEF Exact
<1>2. PICK r : r = order[1]
  OBVIOUS
<1>3. /\ active = None /\ r \in Occupied(slots)
      /\ active' = slots[r] /\ slots[r] \in Pending
      /\ slots' = Vacated(r) /\ order' = Waiting(r)
      /\ Pending' = Pending \ {slots[r]} /\ Live' = Live
  BY <1>2, TakeIs
<1>4. /\ Vacated(r) \in [Slot -> Job \cup {None}] /\ Once(Vacated(r))
      /\ Lists(Waiting(r), Occupied(Vacated(r)))
  BY <1>1, <1>3, Discarded
<1>5. Distinct'
  <2>1. Once(slots') /\ Lists(order', Occupied(slots'))
    BY <1>3, <1>4
  <2>. QED
    BY <1>3, <2>1 DEF Distinct
<1>6. Counted'
  <2>1. Cardinality(Live') = Cardinality(Live) /\ Bytes(Live') = Bytes(Live)
    BY <1>3, Zenon
  <2>. QED
    BY <1>1, <2>1 DEF Counted, WorkerTake
<1>7. slots[r] \in Job /\ slots[r] # None
  BY <1>1, <1>3, QueueJobs, QueueAssumption
<1>8. Fields'
  <2>1. order' \in Seq(Slot)
    BY <1>3, <1>4 DEF Lists
  <2>. QED
    BY <1>1, <1>3, <1>4, <1>7, <2>1 DEF Fields, WorkerTake
<1>9. Submissions'
  BY <1>1 DEF Submissions, WorkerTake
<1>. QED
  BY <1>5, <1>6, <1>8, <1>9 DEF Exact

\* What the worker does without the queue, and the client's decision to close.
LEMMA ExactQuiet ==
  ASSUME Exact, WorkerExit \/ Write \/ WorkerReport \/ Close
  PROVE  Exact'
<1>1. Fields /\ Submissions /\ Distinct /\ Counted
  BY DEF Exact
<1>2. UNCHANGED <<queue, subs>>
  BY DEF WorkerExit, Write, WriteSucceeds, WriteFails, WriteReclaims, WorkerReport, Close
<1>3. Distinct' /\ Counted' /\ Submissions'
  BY <1>1, <1>2, SameQueue DEF Submissions
<1>4. Fields'
  <2>1. CASE WorkerExit
    BY <1>1, <2>1 DEF WorkerExit, Fields, queue
  <2>2. CASE WriteSucceeds \/ WriteFails
    BY <1>1, <2>2 DEF WriteSucceeds, WriteFails, Fields, queue
  <2>3. ASSUME NEW v \in Job, WriteReclaims(v) PROVE Fields'
    BY <1>1, <2>3 DEF WriteReclaims, Fields, queue
  <2>4. CASE WorkerReport
    <3>1. table' \in [Entry -> Job \cup {None}]
      BY <1>1, <2>4, ReleasedType DEF WorkerReport
    <3>. QED
      BY <1>1, <2>4, <3>1 DEF WorkerReport, Fields, queue
  <2>5. CASE Close
    BY <1>1, <2>5 DEF Close, Fields, queue
  <2>. QED
    BY <2>1, <2>2, <2>3, <2>4, <2>5 DEF Write
<1>. QED
  BY <1>3, <1>4 DEF Exact

\* The worker's job leaves the counters.
LEMMA SettleIs ==
  ASSUME Exact, WorkerSettle
  PROVE  /\ Pending' = Pending /\ Live' = Live \ {active} /\ active \in Live
         /\ Live' = Pending /\ active \in Job
<1>1. Fields /\ Distinct
  BY DEF Exact
<1>2. active # None
  BY <1>1 DEF Fields, WorkerSettle
<1>3. Live = Pending \cup {active} /\ active \in Job /\ active \notin Pending
  BY <1>1, <1>2, QueueJobs DEF Distinct
<1>4. Pending' = Pending
  BY DEF Pending, WorkerSettle
<1>5. Live' = Pending' \cup ({None} \ {None})
  BY DEF Live, WorkerSettle
<1>. QED
  BY <1>3, <1>4, <1>5

\* The worker settles its job.
LEMMA ExactWorkerSettle ==
  ASSUME Exact, WorkerSettle
  PROVE  Exact'
<1>1. Fields /\ Submissions /\ Distinct /\ Counted
  BY DEF Exact
<1>2. Pending' = Pending /\ Live' = Live \ {active} /\ active \in Live
  BY SettleIs
<1>3. PICK S, j : S = Live /\ j = active
  OBVIOUS
<1>4. S \in SUBSET Job /\ IsFiniteSet(S) /\ j \in S
  BY <1>1, <1>2, <1>3, QueueJobs
<1>5. /\ Cardinality(S \ {j}) = Cardinality(S) - 1
      /\ Bytes(S \ {j}) = Bytes(S) - Size[j]
      /\ Cardinality(S) \in Nat /\ Bytes(S) \in Nat /\ Size[j] \in Nat
  BY <1>4, OneLess
<1>6. Live' = S \ {j}
  BY <1>2, <1>3
<1>7. Cardinality(Live') = Cardinality(S \ {j}) /\ Bytes(Live') = Bytes(S \ {j})
  BY <1>6, Zenon
<1>8. Cardinality(S) = Cardinality(Live) /\ Bytes(S) = Bytes(Live)
  BY <1>3, Zenon
<1>9. count' = count - 1 /\ pinned' = pinned - Size[j]
  BY <1>3 DEF WorkerSettle
<1>10. Counted'
  BY <1>1, <1>5, <1>7, <1>8, <1>9, QueueAssumption DEF Counted
<1>11. Distinct'
  <2>1. None \notin Pending
    BY DEF Pending
  <2>2. Once(slots') /\ Lists(order', Occupied(slots'))
    BY <1>1 DEF Distinct, WorkerSettle
  <2>. QED
    BY <1>2, <2>1, <2>2 DEF Distinct, WorkerSettle
<1>12. Fields'
  BY <1>1 DEF Fields, WorkerSettle
<1>13. Submissions'
  BY <1>1 DEF Submissions, WorkerSettle
<1>. QED
  BY <1>10, <1>11, <1>12, <1>13 DEF Exact

\* Stop drops what is pending and keeps what the worker has.
LEMMA ExactStop ==
  ASSUME Exact, Stop
  PROVE  Exact'
<1>1. Fields /\ Submissions /\ Distinct /\ Counted
  BY DEF Exact
<1>2. /\ slots' = [s \in Slot |-> None] /\ order' = <<>> /\ active' = active
      /\ count' = count - Cardinality(Pending) /\ pinned' = pinned - Bytes(Pending)
  BY DEF Stop
<1>3. Pending' = {} /\ Live' = {active} \ {None}
  <2>1. Pending' = {}
    BY <1>2 DEF Pending
  <2>. QED
    BY <1>2, <2>1 DEF Live
<1>4. /\ Pending \in SUBSET Job /\ IsFiniteSet(Pending)
      /\ active = None => Live = Pending
      /\ active # None => Live = Pending \cup {active} /\ active \in Job
      /\ active \notin Pending
  BY <1>1, QueueJobs DEF Distinct
<1>5. Cardinality(Pending) \in Nat /\ Bytes(Pending) \in Nat
  BY <1>4, FS_CardinalityType, BytesNat
<1>6. Cardinality({}) = 0 /\ Bytes({}) = 0
  BY FS_EmptySet, BytesEmpty
<1>7. Counted'
  <2>1. CASE active = None
    <3>1. Live' = {} /\ Live = Pending
      BY <1>3, <1>4, <2>1
    <3>2. /\ Cardinality(Live') = Cardinality({}) /\ Bytes(Live') = Bytes({})
          /\ Cardinality(Live) = Cardinality(Pending) /\ Bytes(Live) = Bytes(Pending)
      BY <3>1, Zenon
    <3>. QED
      BY <1>1, <1>2, <1>5, <1>6, <3>2, QueueAssumption DEF Counted
  <2>2. CASE active # None
    <3>1. PICK S : S = Pending
      OBVIOUS
    <3>2. PICK j \in Job : j = active
      BY <1>4, <2>2
    <3>3. S \in SUBSET Job /\ IsFiniteSet(S) /\ j \notin S
      BY <1>4, <3>1, <3>2
    <3>4. /\ Cardinality(S \cup {j}) = Cardinality(S) + 1
          /\ Bytes(S \cup {j}) = Bytes(S) + Size[j] /\ Size[j] \in Nat
      BY <3>3, OneMore
    <3>5. Cardinality({j}) = 1 /\ Bytes({j}) = Size[j]
      <4>1. {} \in SUBSET Job /\ IsFiniteSet({}) /\ j \notin {}
        BY FS_EmptySet
      <4>2. PICK T : T = {}
        OBVIOUS
      <4>3. /\ Cardinality(T \cup {j}) = Cardinality(T) + 1
            /\ Bytes(T \cup {j}) = Bytes(T) + Size[j]
        BY <4>1, <4>2, OneMore
      <4>4. T \cup {j} = {j}
        BY <4>2
      <4>5. Cardinality({j}) = Cardinality(T) + 1 /\ Bytes({j}) = Bytes(T) + Size[j]
        BY <4>3, <4>4, Zenon
      <4>6. Cardinality(T) = 0 /\ Bytes(T) = 0
        BY <1>6, <4>2, Zenon
      <4>. QED
        BY <3>4, <4>5, <4>6
    <3>6. Live = S \cup {j} /\ Live' = {j}
      BY <1>3, <1>4, <2>2, <3>1, <3>2
    <3>7. /\ Cardinality(Live') = Cardinality({j}) /\ Bytes(Live') = Bytes({j})
          /\ Cardinality(Live) = Cardinality(S \cup {j})
          /\ Bytes(Live) = Bytes(S \cup {j})
          /\ Cardinality(Pending) = Cardinality(S) /\ Bytes(Pending) = Bytes(S)
      BY <3>1, <3>6, Zenon
    <3>. QED
      BY <1>1, <1>2, <1>5, <3>4, <3>5, <3>7, QueueAssumption DEF Counted
  <2>. QED
    BY <2>1, <2>2
<1>8. Distinct'
  <2>1. Occupied(slots') = {} /\ Once(slots')
    BY <1>2 DEF Occupied, Once
  <2>2. Lists(order', Occupied(slots'))
    BY <1>2, <2>1, ListsNone, Zenon
  <2>. QED
    BY <1>3, <2>1, <2>2 DEF Distinct
<1>9. Fields'
  <2>1. order' \in Seq(Slot)
    BY <1>2
  <2>. QED
    BY <1>1, <1>2, <2>1 DEF Fields, Stop
<1>10. Submissions'
  BY <1>1 DEF Submissions, Stop
<1>. QED
  BY <1>7, <1>8, <1>9, <1>10 DEF Exact

\* A step that changes nothing.
LEMMA ExactStutter ==
  ASSUME Exact, UNCHANGED vars
  PROVE  Exact'
<1>1. Fields /\ Submissions /\ Distinct /\ Counted
  BY DEF Exact
<1>2. UNCHANGED queue
  BY DEF vars
<1>3. Distinct' /\ Counted'
  BY <1>1, <1>2, SameQueue
<1>4. Fields' /\ Submissions'
  BY <1>1 DEF Fields, Submissions, vars, queue
<1>. QED
  BY <1>3, <1>4 DEF Exact

\* The empty queue is exact.
LEMMA ExactInit ==
  ASSUME Init
  PROVE  Exact
<1>1. Pending = {}
  BY DEF Init, Pending
<1>2. Live = {}
  BY <1>1 DEF Init, Live
<1>3. Cardinality(Live) = Cardinality({}) /\ Bytes(Live) = Bytes({})
  BY <1>2, Zenon
<1>4. Counted
  BY <1>3, FS_EmptySet, BytesEmpty, QueueAssumption DEF Counted, Init
<1>5. Occupied(slots) = {} /\ Once(slots)
  BY DEF Occupied, Once, Init
<1>6. Lists(order, Occupied(slots))
  BY <1>5, ListsNone, Zenon DEF Init
<1>7. Distinct
  BY <1>1, <1>5, <1>6 DEF Distinct
<1>8. subs \in [Submitter -> SubState] /\ Submissions
  BY IdleIs DEF Submissions, Init
<1>9. order \in Seq(Slot)
  BY <1>6 DEF Lists
<1>10. Fields
  BY <1>8, <1>9 DEF Fields, Init
<1>. QED
  BY <1>4, <1>7, <1>8, <1>10 DEF Exact

\* Every step keeps the queue exact.
LEMMA ExactStep ==
  ASSUME Exact, [Next]_vars
  PROVE  Exact'
<1>1. ASSUME NEW t \in Submitter, NEW j \in Job, PersistBegin(t, j) PROVE Exact'
  BY <1>1, ExactPersistBegin
<1>2. ASSUME NEW t \in Submitter, Submit(t) PROVE Exact'
  BY <1>2, ExactSubmitAccepted, ExactSubmitRefused, ExactSubmitUnpinned DEF Submit
<1>3. ASSUME NEW t \in Submitter, ReportSuperseded(t) \/ PersistRefused(t) PROVE Exact'
  BY <1>3, ExactReportSuperseded, ExactPersistRefused
<1>4. CASE WorkerTake
  BY <1>4, ExactWorkerTake
<1>5. CASE WorkerExit \/ Write \/ WorkerReport \/ Close
  BY <1>5, ExactQuiet
<1>6. CASE WorkerSettle
  BY <1>6, ExactWorkerSettle
<1>7. CASE Stop
  BY <1>7, ExactStop
<1>8. CASE Finished \/ UNCHANGED vars
  BY <1>8, ExactStutter DEF Finished
<1>. QED
  BY <1>1, <1>2, <1>3, <1>4, <1>5, <1>6, <1>7, <1>8 DEF Next

\* The inductive invariant of the queue holds, whatever is superseded, refused
\* half way, settled or stopped.
THEOREM QueueInvariant == Spec => []Exact
<1>1. Init => Exact
  BY ExactInit
<1>2. Exact /\ [Next]_vars => Exact'
  BY ExactStep
<1>. QED
  BY <1>1, <1>2, PTL DEF Spec

\* The counters of the queue, and the order its worker follows, agree with the
\* jobs in it and never exceed the queue's limits.
THEOREM QueueCountsAreExact == Spec => []CountsExact
<1>1. Exact => CountsExact
  <2>. SUFFICES ASSUME Exact PROVE CountsExact
    OBVIOUS
  <2>1. Fields /\ Submissions /\ Distinct /\ Counted
    BY DEF Exact
  <2>2. /\ Cardinality(Pending) = Len(order) /\ Live \in SUBSET Job
        /\ IsFiniteSet(Live)
    BY <2>1, QueueJobs
  <2>3. count \in Nat /\ pinned \in Nat
    BY <2>1, <2>2, FS_CardinalityType, BytesNat DEF Counted
  <2>4. TypeOK
    BY <2>1, <2>3 DEF Fields, TypeOK, SubState
  <2>5. {order[i] : i \in DOMAIN order} = {s \in Slot : slots[s] # None}
    BY <2>1 DEF Fields, Distinct, Lists, Occupied
  <2>. QED
    BY <2>1, <2>2, <2>4, <2>5 DEF CountsExact, Counted
<1>. QED
  BY <1>1, QueueInvariant, PTL

-----------------------------------------------------------------------------
(* What a submission discards *)

\* A submission takes no job out of the queue but the one that makes way.
LEMMA SubmitKeeps ==
  ASSUME Exact, NEW t \in Submitter, SubmitAccepted(t) \/ SubmitUnpinned(t),
         NEW j, j = subs[t].job, NEW r, r = Replacement(j)
  PROVE  /\ j \in Job
         /\ r # 0 => r \in Slot /\ slots[r] \in Pending /\ slots[r] \in Job
         /\ \A x \in Live : x \in Live' \/ (r # 0 /\ x = slots[r])
         /\ SubmitAccepted(t) => j \in Live' /\ j \notin Live
<1>1. Fields /\ Submissions /\ Distinct /\ Counted
  BY DEF Exact
<1>2. j \in Job /\ subs[t].pc = "submit" /\ Admissible(j)
  BY <1>1 DEF SubmitAccepted, SubmitUnpinned, Submissions
<1>3. /\ r = 0 \/ r \in Occupied(slots)
      /\ r # 0 => r \in Slot /\ slots[r] \in Pending /\ slots[r] \in Job
  BY <1>1, <1>2, MakesWay, Zenon
<1>4. active' = active
  BY DEF SubmitAccepted, SubmitUnpinned, Discard
<1>5. CASE SubmitUnpinned(t)
  <2>1. slots' = Vacated(r)
    BY <1>5 DEF SubmitUnpinned, Discard
  <2>2. ~SubmitAccepted(t) \/ j \in Live'
    <3>. SUFFICES ASSUME SubmitAccepted(t) PROVE j \in Live'
      OBVIOUS
    <3>1. PICK s : slots' = [Vacated(r) EXCEPT ![s] = j]
                   /\ s = IF r # 0 THEN r ELSE Min({e \in Slot : slots[e] = None})
      BY DEF SubmitAccepted
    <3>2. s \in Slot
      BY <1>1, <1>2, <1>3, <3>1, EmptySlot
    <3>3. slots'[s] = j
      BY <3>1, <3>2 DEF Vacated
    <3>. QED
      BY <1>2, <3>2, <3>3, QueueAssumption DEF Live, Pending
  <2>3. ASSUME NEW x \in Pending, x # slots[r] \/ r = 0 PROVE x \in Pending'
    <3>1. PICK u \in Slot : slots[u] = x /\ x # None
      BY DEF Pending
    <3>2. u # r
      BY <2>3, <3>1, QueueAssumption DEF Slot
    <3>3. slots'[u] = x
      BY <2>1, <3>1, <3>2 DEF Vacated
    <3>. QED
      BY <3>1, <3>3 DEF Pending
  <2>. QED
    BY <1>2, <1>3, <1>4, <2>2, <2>3 DEF Live, Admissible
<1>6. CASE SubmitAccepted(t)
  <2>1. PICK s : /\ slots' = [Vacated(r) EXCEPT ![s] = j]
                 /\ s = IF r # 0 THEN r ELSE Min({e \in Slot : slots[e] = None})
    BY <1>6 DEF SubmitAccepted
  <2>2. s \in Slot /\ (r = 0 => slots[s] = None) /\ (r # 0 => s = r)
    BY <1>1, <1>2, <1>3, <2>1, EmptySlot
  <2>3. j \in Live'
    <3>1. slots'[s] = j
      BY <2>1, <2>2 DEF Vacated
    <3>. QED
      BY <1>2, <2>2, <3>1, QueueAssumption DEF Live, Pending
  <2>4. ASSUME NEW x \in Pending, x # slots[r] \/ r = 0 PROVE x \in Pending'
    <3>1. PICK u \in Slot : slots[u] = x /\ x # None
      BY DEF Pending
    <3>2. u # r /\ u # s
      BY <2>2, <2>4, <3>1, QueueAssumption DEF Slot
    <3>3. slots'[u] = x
      BY <2>1, <3>1, <3>2 DEF Vacated
    <3>. QED
      BY <3>1, <3>3 DEF Pending
  <2>. QED
    BY <1>2, <1>3, <1>4, <2>3, <2>4 DEF Live, Admissible
<1>. QED
  BY <1>5, <1>6

\* Only its own submission takes a request thread out of TrySubmit.
LEMMA OnlySubmit ==
  ASSUME Exact, [Next]_vars, NEW t \in Submitter,
         subs[t].pc = "submit", subs'[t].pc # "submit"
  PROVE  Submit(t)
<1>1. subs \in [Submitter -> SubState]
  BY DEF Exact, Fields
<1>2. ASSUME NEW u \in Submitter, NEW j \in Job, PersistBegin(u, j) PROVE FALSE
  BY <1>1, <1>2 DEF PersistBegin
<1>3. ASSUME NEW u \in Submitter, ReportSuperseded(u) \/ PersistRefused(u) PROVE FALSE
  BY <1>1, <1>3 DEF ReportSuperseded, PersistRefused
<1>4. ASSUME NEW u \in Submitter, Submit(u) PROVE Submit(t)
  <2>1. u = t
    BY <1>1, <1>4 DEF Submit, SubmitAccepted, SubmitRefused, SubmitUnpinned, Returns
  <2>. QED
    BY <1>4, <2>1
<1>5. ASSUME WorkerTake \/ WorkerExit \/ Write \/ WorkerReport \/ WorkerSettle
             \/ Close \/ Stop \/ Finished \/ UNCHANGED vars
      PROVE  FALSE
  BY <1>5 DEF WorkerTake, WorkerExit, Write, WriteSucceeds, WriteFails, WriteReclaims,
              WorkerReport, WorkerSettle, Close, Stop, Finished, vars
<1>. QED
  BY <1>2, <1>3, <1>4, <1>5 DEF Next

\* A job that TrySubmit takes out of the queue without pressure extends one that
\* stays, so the first boundary of a conversation is kept; and a learned
\* boundary never makes way for an ordinary one.
THEOREM FirstBoundaryIsKept == Spec => FirstBoundaryKept
<1>1. ASSUME Exact, [Next]_vars
      PROVE  [\A t \in Submitter : subs[t].pc = "submit" /\ subs'[t].pc # "submit" =>
                \A r \in Superseded :
                  /\ Pressed(subs[t].job) \/ \E a \in Live' : a \in Prior[r]
                  /\ r \in Learned => subs[t].job \in Learned]_vars
  <2>. SUFFICES ASSUME NEW t \in Submitter,
                       subs[t].pc = "submit", subs'[t].pc # "submit",
                       NEW x \in Superseded
                PROVE  /\ Pressed(subs[t].job) \/ \E a \in Live' : a \in Prior[x]
                       /\ x \in Learned => subs[t].job \in Learned
    OBVIOUS
  <2>1. Submit(t)
    BY <1>1, OnlySubmit
  <2>2. x \in Pending /\ x \notin Live' /\ x \in Live
    BY DEF Superseded, Live
  <2>3. ~SubmitRefused(t)
    BY <2>2 DEF SubmitRefused, queue, Live, Pending
  <2>4. SubmitAccepted(t) \/ SubmitUnpinned(t)
    BY <2>1, <2>3 DEF Submit
  <2>5. PICK j : j = subs[t].job
    OBVIOUS
  <2>6. PICK r : r = Replacement(j)
    OBVIOUS
  <2>7. /\ j \in Job /\ r # 0 /\ x = slots[r]
        /\ \A y \in Live : y \in Live' \/ y = slots[r]
    BY <1>1, <2>2, <2>4, <2>5, <2>6, SubmitKeeps
  <2>8. r \in Redundant(j) \/ (Pressed(j) /\ r \in Displaceable(j))
    <3>1. Fields /\ Distinct
      BY <1>1 DEF Exact
    <3>. QED
      BY <2>6, <2>7, <3>1, ReplacementIs, Zenon
  <2>9. CASE r \in Redundant(j)
    <3>1. slots[r] \notin Learned /\ \E a \in Live : a \in Prior[slots[r]]
      BY <2>9 DEF Redundant
    <3>2. PICK a \in Live : a \in Prior[x]
      BY <2>7, <3>1
    <3>3. a # x
      <4>1. x \in Job
        BY <1>1, <2>2, QueueJobs DEF Exact
      <4>. QED
        BY <3>2, <4>1, QueueAssumption
    <3>. QED
      BY <2>7, <3>1, <3>2, <3>3
  <2>10. CASE Pressed(j) /\ r \in Displaceable(j)
    BY <2>5, <2>7, <2>10 DEF Displaceable
  <2>. QED
    BY <2>8, <2>9, <2>10
<1>. QED
  BY <1>1, QueueInvariant, PTL DEF Spec, FirstBoundaryKept

-----------------------------------------------------------------------------
(* Every handle is released *)

\* What Handles says of one entry.
Handled(e) ==
  table[e] # None =>
    \/ Owed(e)
    \/ table[e] \in Live /\ ~(worker = "settle" /\ table[e] = active)

\* A handle stays owed as long as those who owe it do not act.
LEMMA StaysOwed ==
  ASSUME NEW e \in Entry, Owed(e), table'[e] = table[e], NEW t,
         \A u \in Submitter \ {t} : subs'[u] = subs[u]
  PROVE  \/ Owed(e)'
         \/ /\ t \in Submitter
            /\ \/ subs[t].pc = "report" /\ subs[t].owes = table[e]
               \/ /\ subs[t].pc \in {"submit", "refused"}
                     \/ (subs[t].pc = "report" /\ ~subs[t].ok)
                  /\ subs[t].job = table[e] /\ subs[t].entry = e
BY DEF Owed

\* A handle whose job stays in the queue is still handled, unless its report
\* was the worker's last step.
LEMMA HandledQuiet ==
  ASSUME NEW e \in Entry, Handled(e), table'[e] # None => table'[e] = table[e],
         UNCHANGED subs, table'[e] # None /\ table[e] \in Live => table[e] \in Live',
         worker' # "settle" \/ (worker' = worker /\ active' = active)
           \/ (table'[e] # None => table'[e] # active')
  PROVE  Handled(e)'
<1>. SUFFICES ASSUME table'[e] # None
              PROVE  \/ Owed(e)'
                     \/ table'[e] \in Live' /\ ~(worker' = "settle" /\ table'[e] = active')
  BY DEF Handled
<1>1. table'[e] = table[e] /\ table[e] # None
  OBVIOUS
<1>2. CASE Owed(e)
  BY <1>1, <1>2 DEF Owed
<1>3. CASE table[e] \in Live /\ ~(worker = "settle" /\ table[e] = active)
  BY <1>1, <1>3
<1>. QED
  BY <1>1, <1>2, <1>3 DEF Handled

\* A handle is reserved: the thread that holds it is to submit its job.
LEMMA HandlesPersistBegin ==
  ASSUME Exact, NEW e \in Entry, Handled(e),
         NEW t \in Submitter, NEW j \in Job, PersistBegin(t, j)
  PROVE  Handled(e)'
<1>1. Fields
  BY DEF Exact
<1>2. PICK d \in Entry :
        /\ table' = [table EXCEPT ![d] = j]
        /\ subs' = [subs EXCEPT ![t] = [Idle EXCEPT !.pc = "submit", !.job = j,
                                                    !.entry = d]]
  BY DEF PersistBegin
<1>3. PICK x : x = [Idle EXCEPT !.pc = "submit", !.job = j, !.entry = d]
  OBVIOUS
<1>4. x \in SubState /\ x.pc = "submit" /\ x.job = j /\ x.entry = d
  BY <1>3 DEF Idle, SubState
<1>5. subs'[t] = x /\ \A u \in Submitter \ {t} : subs'[u] = subs[u]
  BY <1>1, <1>2, <1>3, <1>4, SubIs DEF Fields
<1>6. Live' = Live /\ active' = active /\ worker' = worker /\ subs[t].pc = "idle"
  BY DEF PersistBegin, queue, Live, Pending
<1>7. CASE e = d
  <2>1. table'[e] = j
    BY <1>1, <1>2, <1>7 DEF Fields
  <2>. QED
    BY <1>4, <1>5, <1>7, <2>1 DEF Handled, Owed
<1>8. CASE e # d
  <2>1. table'[e] = table[e]
    BY <1>1, <1>2, <1>8 DEF Fields
  <2>2. Owed(e) => Owed(e)'
    BY <1>5, <1>6, <2>1, StaysOwed
  <2>. QED
    BY <1>6, <2>1, <2>2 DEF Handled
<1>. QED
  BY <1>7, <1>8

\* A superseded job is reported: its handles go, and a refused thread still
\* owes its own.
LEMMA HandlesReportSuperseded ==
  ASSUME Exact, NEW e \in Entry, Handled(e), NEW t \in Submitter, ReportSuperseded(t)
  PROVE  Handled(e)'
<1>1. Fields
  BY DEF Exact
<1>2. PICK x : x = IF subs[t].ok THEN Idle
                   ELSE [subs[t] EXCEPT !.pc = "refused", !.owes = None]
  OBVIOUS
<1>3. /\ x \in SubState
      /\ ~subs[t].ok => x.pc = "refused" /\ x.job = subs[t].job /\ x.entry = subs[t].entry
  BY <1>1, <1>2, IdleIs DEF Fields, SubState
<1>4. subs' = [subs EXCEPT ![t] = x]
  BY <1>1, <1>2 DEF ReportSuperseded
<1>5. subs'[t] = x /\ \A u \in Submitter \ {t} : subs'[u] = subs[u]
  BY <1>1, <1>3, <1>4, SubIs DEF Fields
<1>6. Live' = Live /\ active' = active /\ worker' = worker /\ subs[t].pc = "report"
  BY DEF ReportSuperseded, queue, Live, Pending
<1>7. table'[e] # None => table'[e] = table[e] /\ table[e] # subs[t].owes
  BY DEF ReportSuperseded, Released
<1>8. ASSUME table'[e] # None, Owed(e) PROVE Owed(e)'
  <2>1. \/ Owed(e)'
        \/ ~subs[t].ok /\ subs[t].job = table[e] /\ subs[t].entry = e
    BY <1>5, <1>6, <1>7, <1>8, StaysOwed
  <2>2. ASSUME ~subs[t].ok, subs[t].job = table[e], subs[t].entry = e PROVE Owed(e)'
    BY <1>3, <1>5, <1>7, <1>8, <2>2 DEF Owed
  <2>. QED
    BY <2>1, <2>2
<1>. QED
  BY <1>6, <1>7, <1>8 DEF Handled

\* A refused thread gives its handle back.
LEMMA HandlesPersistRefused ==
  ASSUME Exact, NEW e \in Entry, Handled(e), NEW t \in Submitter, PersistRefused(t)
  PROVE  Handled(e)'
<1>1. Fields
  BY DEF Exact
<1>2. /\ subs'[t] = Idle /\ \A u \in Submitter \ {t} : subs'[u] = subs[u]
  BY <1>1, SubIs, IdleIs DEF Fields, PersistRefused
<1>3. Live' = Live /\ active' = active /\ worker' = worker /\ subs[t].pc = "refused"
  BY DEF PersistRefused, queue, Live, Pending
<1>4. table'[e] # None =>
        table'[e] = table[e] /\ ~(subs[t].job = table[e] /\ subs[t].entry = e)
  BY <1>1 DEF Fields, PersistRefused
<1>5. ASSUME table'[e] # None, Owed(e) PROVE Owed(e)'
  BY <1>2, <1>3, <1>4, <1>5, StaysOwed
<1>. QED
  BY <1>3, <1>4, <1>5 DEF Handled

\* A refused submission leaves the handle with its thread.
LEMMA HandlesSubmitRefused ==
  ASSUME Exact, NEW e \in Entry, Handled(e), NEW t \in Submitter, SubmitRefused(t)
  PROVE  Handled(e)'
<1>1. Fields /\ Submissions /\ subs[t].pc = "submit" /\ Returns(t, 0, FALSE)
  BY DEF Exact, SubmitRefused
<1>2. /\ \A u \in Submitter \ {t} : subs'[u] = subs[u]
      /\ subs'[t].pc = "refused"
      /\ subs'[t].job = subs[t].job /\ subs'[t].entry = subs[t].entry
  BY <1>1, ReturnsIs
<1>3. Live' = Live /\ active' = active /\ worker' = worker /\ table' = table
  BY DEF SubmitRefused, queue, Live, Pending
<1>4. ASSUME Owed(e) PROVE Owed(e)'
  <2>1. Owed(e)' \/ (subs[t].job = table[e] /\ subs[t].entry = e)
    BY <1>1, <1>2, <1>3, <1>4, StaysOwed
  <2>2. ASSUME subs[t].job = table[e], subs[t].entry = e PROVE Owed(e)'
    BY <1>2, <1>3, <2>2 DEF Owed
  <2>. QED
    BY <2>1, <2>2
<1>. QED
  BY <1>3, <1>4 DEF Handled

\* A job enters the queue, or fails on the way: whoever takes the place of
\* another owes that one's report.
LEMMA HandlesSubmit ==
  ASSUME Exact, "retired" \notin PinFaults, NEW e \in Entry, Handled(e),
         NEW t \in Submitter, SubmitAccepted(t) \/ SubmitUnpinned(t)
  PROVE  Handled(e)'
<1>1. Fields /\ Submissions /\ subs[t].pc = "submit"
  BY DEF Exact, SubmitAccepted, SubmitUnpinned
<1>2. PICK j : j = subs[t].job
  OBVIOUS
<1>3. PICK r : r = Replacement(j)
  OBVIOUS
<1>4. /\ j \in Job
      /\ r # 0 => slots[r] \in Job
      /\ \A x \in Live : x \in Live' \/ (r # 0 /\ x = slots[r])
      /\ SubmitAccepted(t) => j \in Live' /\ j \notin Live
  BY <1>2, <1>3, SubmitKeeps
<1>5. table' = table /\ active' = active /\ worker' = worker
  BY DEF SubmitAccepted, SubmitUnpinned, Discard
<1>6. PICK ok \in BOOLEAN : Returns(t, r, ok) /\ (ok => SubmitAccepted(t))
  <2>1. CASE SubmitAccepted(t)
    BY <1>2, <1>3, <2>1 DEF SubmitAccepted
  <2>2. CASE SubmitUnpinned(t)
    <3>1. PICK fault \in PinFaults :
            IF fault = "bad_alloc" THEN Returns(t, Replacement(subs[t].job), FALSE)
            ELSE subs' = [subs EXCEPT ![t] = Idle]
      BY <2>2 DEF SubmitUnpinned
    <3>2. fault = "bad_alloc"
      BY <3>1, QueueAssumption
    <3>. QED
      BY <1>2, <1>3, <3>1, <3>2
  <2>. QED
    BY <2>1, <2>2
<1>7. /\ \A u \in Submitter \ {t} : subs'[u] = subs[u]
      /\ r # 0 => /\ subs'[t].pc = "report" /\ subs'[t].owes = slots[r]
                  /\ subs'[t].ok = ok
      /\ r = 0 /\ ~ok => subs'[t].pc = "refused"
      /\ r # 0 \/ ~ok => subs'[t].job = j /\ subs'[t].entry = subs[t].entry
  BY <1>1, <1>2, <1>4, <1>6, ReturnsIs
<1>. SUFFICES ASSUME table[e] # None
              PROVE  \/ Owed(e)'
                     \/ table[e] \in Live' /\ ~(worker = "settle" /\ table[e] = active)
  BY <1>5 DEF Handled
<1>8. CASE Owed(e)
  <2>1. Owed(e)' \/ (j = table[e] /\ subs[t].entry = e)
    BY <1>1, <1>2, <1>5, <1>7, <1>8, StaysOwed
  <2>2. ASSUME j = table[e], subs[t].entry = e, ok
        PROVE  table[e] \in Live' /\ table[e] # active
    <3>1. j \in Live' /\ j \notin Live
      BY <1>4, <1>6, <2>2
    <3>2. active \in Live \/ active = None
      BY DEF Live
    <3>. QED
      BY <1>4, <2>2, <3>1, <3>2, QueueAssumption
  <2>3. ASSUME j = table[e], subs[t].entry = e, ~ok PROVE Owed(e)'
    BY <1>5, <1>7, <2>3 DEF Owed
  <2>. QED
    BY <2>1, <2>2, <2>3
<1>9. CASE table[e] \in Live /\ ~(worker = "settle" /\ table[e] = active)
  <2>1. ASSUME r # 0, table[e] = slots[r] PROVE Owed(e)'
    BY <1>5, <1>7, <2>1 DEF Owed
  <2>. QED
    BY <1>4, <1>9, <2>1
<1>. QED
  BY <1>8, <1>9 DEF Handled

\* The worker reports before it settles, so a settled job has no handle left.
LEMMA HandlesWorker ==
  ASSUME Exact, NEW e \in Entry, Handled(e),
         WorkerTake \/ WorkerExit \/ Write \/ WorkerReport \/ WorkerSettle
  PROVE  Handled(e)'
<1>1. CASE WorkerTake
  <2>1. Live' = Live
    BY <1>1, TakeIs
  <2>. QED
    BY <1>1, <2>1, HandledQuiet DEF WorkerTake
<1>2. CASE WorkerExit \/ Write
  <2>1. /\ UNCHANGED <<queue, subs, table>> /\ worker' # "settle"
    BY <1>2 DEF WorkerExit, Write, WriteSucceeds, WriteFails, WriteReclaims
  <2>2. Live' = Live
    BY <2>1 DEF queue, Live, Pending
  <2>. QED
    BY <2>1, <2>2, HandledQuiet
<1>3. CASE WorkerReport
  <2>1. /\ UNCHANGED <<queue, subs>> /\ active' = active
        /\ table'[e] # None => table'[e] = table[e] /\ table[e] # active
    BY <1>3 DEF WorkerReport, Released, queue
  <2>2. Live' = Live
    BY <2>1 DEF queue, Live, Pending
  <2>. QED
    BY <2>1, <2>2, HandledQuiet
<1>4. CASE WorkerSettle
  <2>1. /\ UNCHANGED <<subs, table>> /\ worker = "settle" /\ worker' = "wait"
    BY <1>4 DEF WorkerSettle
  <2>2. Live' = Live \ {active}
    BY <1>4, SettleIs
  <2>3. Owed(e) => Owed(e)'
    BY <2>1 DEF Owed
  <2>. QED
    BY <2>1, <2>2, <2>3 DEF Handled
<1>. QED
  BY <1>1, <1>2, <1>3, <1>4

\* Every step keeps every handle handled, until the queue is stopped.
LEMMA HandlesStep ==
  ASSUME Exact, "retired" \notin PinFaults, Handles, [Next]_vars
  PROVE  Handles'
<1>1. CASE stopped'
  BY <1>1 DEF Handles
<1>2. CASE ~stopped'
  <2>1. ~stopped
    BY <1>2 DEF Next, vars, PersistBegin, Submit, SubmitAccepted, SubmitRefused,
                SubmitUnpinned, ReportSuperseded, PersistRefused, WorkerTake, WorkerExit,
                Write, WriteSucceeds, WriteFails, WriteReclaims, WorkerReport,
                WorkerSettle, Close, Stop, Finished
  <2>2. SUFFICES ASSUME NEW e \in Entry PROVE Handled(e)'
    BY DEF Handles, Handled
  <2>3. Handled(e)
    BY <2>1 DEF Handles, Handled
  <2>4. ASSUME NEW t \in Submitter, NEW j \in Job, PersistBegin(t, j) PROVE Handled(e)'
    BY <2>3, <2>4, HandlesPersistBegin
  <2>5. ASSUME NEW t \in Submitter, Submit(t) PROVE Handled(e)'
    BY <2>3, <2>5, HandlesSubmit, HandlesSubmitRefused DEF Submit
  <2>6. ASSUME NEW t \in Submitter, ReportSuperseded(t) \/ PersistRefused(t)
        PROVE  Handled(e)'
    BY <2>3, <2>6, HandlesReportSuperseded, HandlesPersistRefused
  <2>7. CASE WorkerTake \/ WorkerExit \/ Write \/ WorkerReport \/ WorkerSettle
    BY <2>3, <2>7, HandlesWorker
  <2>8. CASE Close \/ Finished \/ UNCHANGED vars
    <3>1. UNCHANGED <<queue, subs, table, worker>>
      BY <2>8 DEF Close, Finished, vars
    <3>2. Live' = Live /\ active' = active
      BY <3>1 DEF queue, Live, Pending
    <3>. QED
      BY <2>3, <3>1, <3>2, HandledQuiet
  <2>9. ~Stop
    BY <1>2 DEF Stop
  <2>. QED
    BY <2>4, <2>5, <2>6, <2>7, <2>8, <2>9 DEF Next
<1>. QED
  BY <1>1, <1>2

\* As long as no borrowed rows are retired under a submission, a serving handle
\* is held only while its job is in the queue, on its way there, or about to be
\* reported, whichever of two threads supersedes the other's job first.
THEOREM NoHandleIsStranded ==
  ASSUME "retired" \notin PinFaults
  PROVE  Spec => []NoStrandedHandle
<1>1. Init => Handles
  BY DEF Init, Handles
<1>2. Exact /\ Handles /\ [Next]_vars => Handles'
  BY HandlesStep
<1>3. Handles => NoStrandedHandle
  <2>1. ASSUME NEW e \in Entry, Owed(e)
        PROVE  \E t \in Submitter : /\ subs[t].pc # "idle"
                                    /\ table[e] \in {subs[t].job, subs[t].owes}
    BY <2>1 DEF Owed
  <2>. QED
    BY <2>1 DEF Handles, NoStrandedHandle
<1>. QED
  BY <1>1, <1>2, <1>3, QueueInvariant, PTL DEF Spec

=============================================================================
