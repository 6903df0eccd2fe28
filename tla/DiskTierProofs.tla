--------------------------- MODULE DiskTierProofs ---------------------------
(***************************************************************************)
(* The disk tier restores what was published, condemns only what failed a  *)
(* check, indexes only what the catalog tracks, drops no write for a       *)
(* busy mutex and spares the copies in RAM, for any checkpoints, payloads, *)
(* requests, capacity and any bounds on publications and faults.           *)
(*                                                                         *)
(* The argument rests on the pins.  A candidate of a request stays in the  *)
(* store until the request has settled, so its payloads stay on disk and   *)
(* its ID leads to no other publication: what the restore opens by ID is   *)
(* what the lookup pinned, and a payload that failed is still the suspect  *)
(* one when the failure is reported.                                       *)
(***************************************************************************)
EXTENDS DiskTier, SumLemmas, SequenceTheorems, TLAPS

\* The writer's steps between the admission of a publication and its commit.
Writing == {"writing", "written"}
\* Its steps under the store's mutex.
Holding == {"locked"} \cup Writing

\* What the worker, a request and a slot can be.
WorkerType == [st : {"idle", "job", "full", "failed", "busy", "done", "tracked"} \cup Holding,
               id : Ckpt \cup {None}, epoch : Nat]
RequestType == [st : {"idle", "choose", "load", "unwind", "report", "touch",
                      "restored", "serving"},
                cands : Seq([id : Ckpt, disk : Nat]), at : Nat \ {0}, open : Nat,
                failed : SUBSET File]
SlotType == [st : {"empty", "loading", "ready"}, from : Nat,
             rows : SUBSET (File \X {"absent", "good", "bad"})]

\* The store: no two entries carry the same checkpoint, only the publication
\* under way is not durable, and the payloads of an entry are on disk, those of
\* the publication under way once it has written them.
Stored ==
  /\ pub \in Seq(Ckpt)
  /\ durable \subseteq entries /\ entries \subseteq Epoch /\ quarantined \subseteq Epoch
  /\ file \in [File -> {"absent", "good", "bad"}]
  /\ \A e, d \in entries : pub[e] = pub[d] => e = d
  /\ worker.st \in Writing =>
       worker.epoch \in entries \ durable /\ pub[worker.epoch] = worker.id
  /\ \A e \in entries \ durable : worker.st \in Writing /\ e = worker.epoch
  /\ \A e \in entries : e \in durable \/ worker.st = "written" =>
       \A f \in Needs(e) : file[f] # "absent"
  /\ NoFalseQuarantine

\* The store's mutex belongs to the writer while it publishes and to the
\* reclamation while it runs.
Locks ==
  /\ worker \in WorkerType /\ (worker.st # "idle" => worker.id \in Ckpt)
  /\ worker.st # "busy"
  /\ io \in {Nobody, "worker", "reclaimer"}
  /\ io = "worker" <=> worker.st \in Holding
  /\ io = "reclaimer" <=> reclamation = "running"

\* Whatever durable copy the index has is a valid record of the catalog.
Catalogued ==
  /\ lru \in Seq(Nat) /\ Records \subseteq Epoch
  /\ index \in [Ckpt -> [ram : BOOLEAN, disk : Nat]]
  /\ \A c \in Ckpt : index[c].disk # None =>
       index[c].disk \in Records \ invalid /\ pub[index[c].disk] = c

\* The candidate that request q tries, when it is a publication.
Tries(q) == q.at \in DOMAIN q.cands /\ q.cands[q.at].disk # None

\* A candidate is durable under the ID the lookup found it by.
Pins(q) ==
  \A i \in DOMAIN q.cands : q.cands[i].disk # None =>
    q.cands[i].disk \in durable /\ pub[q.cands[i].disk] = q.cands[i].id

\* A payload that failed belongs to the candidate and is still suspect.
Failed(q) ==
  q.failed # {} =>
    /\ q.st \in {"unwind", "report"} /\ Tries(q)
    /\ \A f \in q.failed : f \in Needs(q.cands[q.at].disk) /\ f \in suspect

\* The payloads of publication e as a verified restore leaves them.
Verified(e) == {<<f, "good">> : f \in IF e = None THEN {} ELSE Needs(e)}

\* A restore loads the candidate, and loads it into an empty slot.
Loads(q, s) ==
  /\ q.st \in {"idle", "choose", "report"} => s = EmptySlot
  /\ q.st = "load" =>
       /\ Tries(q) /\ q.open = q.cands[q.at].disk
       /\ s.st = "loading" /\ s.rows \subseteq Verified(q.open)
  /\ q.st = "touch" => Tries(q) /\ s.from = q.cands[q.at].disk
  /\ s.st = "ready" => s.from \in {None} \cup Epoch /\ s.rows = Verified(s.from)

\* What holds of a request and its slot.
Reading(q, s) == Pins(q) /\ Failed(q) /\ Loads(q, s)

\* What holds of all of them.
Requests ==
  /\ req \in [Request -> RequestType] /\ slot \in [Request -> SlotType]
  /\ \A r \in Request : Reading(req[r], slot[r])

\* The inductive invariant.
Sound == Locks /\ Stored /\ Catalogued /\ Requests

-----------------------------------------------------------------------------
(* Sequences *)

\* f holds the filtered prefixes of s, up to the one of length m.
IsKept(f, s, E, m) ==
  f = [n \in 0 .. m |->
         IF n = 0 THEN <<>>
         ELSE IF s[n] \in E THEN f[n - 1] ELSE Append(f[n - 1], s[n])]

\* The filtered prefixes exist: the shortest one that did not would have a
\* predecessor that does.
LEMMA KeptExists ==
  ASSUME NEW s, NEW E, NEW m \in Nat
  PROVE  \E f : IsKept(f, s, E, m)
<1>. DEFINE Bad == {n \in Nat : ~ \E f : IsKept(f, s, E, n)}
<1>. SUFFICES ASSUME m \in Bad PROVE FALSE
  OBVIOUS
<1>1. PICK k \in Bad : \A n \in Bad : k <= n
  <2>1. Bad \subseteq Nat /\ Bad # {}
    OBVIOUS
  <2>. HIDE DEF Bad
  <2>. QED
    BY <2>1, LeastNat
<1>2. k # 0
  <2>. SUFFICES \E f : IsKept(f, s, E, 0)
    OBVIOUS
  <2>. DEFINE f == [n \in 0 .. 0 |-> <<>>]
  <2>1. IsKept(f, s, E, 0)
    BY DEF IsKept
  <2>. QED
    BY <2>1
<1>3. k \in Nat /\ k - 1 \in Nat /\ k - 1 \notin Bad
  BY <1>1, <1>2
<1>4. PICK f : IsKept(f, s, E, k - 1)
  BY <1>3
<1>. DEFINE last == IF s[k] \in E THEN f[k - 1] ELSE Append(f[k - 1], s[k])
            g == [n \in 0 .. k |-> IF n = k THEN last ELSE f[n]]
<1>5. \A n \in 0 .. k - 1 :
        f[n] = IF n = 0 THEN <<>>
               ELSE IF s[n] \in E THEN f[n - 1] ELSE Append(f[n - 1], s[n])
  BY <1>4 DEF IsKept
<1>. HIDE DEF last
<1>6. \A n \in 0 .. k : g[n] = IF n = k THEN last ELSE f[n]
  OBVIOUS
<1>7. \A n \in 0 .. k : n # 0 => g[n - 1] = f[n - 1]
  BY <1>3, <1>6
<1>. HIDE DEF g
<1>8. ASSUME NEW n \in 0 .. k
      PROVE  g[n] = IF n = 0 THEN <<>>
                    ELSE IF s[n] \in E THEN g[n - 1] ELSE Append(g[n - 1], s[n])
  <2>1. CASE n = k
    BY <1>2, <1>6, <1>7, <2>1 DEF last
  <2>2. CASE n # k
    <3>1. n \in 0 .. k - 1
      BY <1>3, <2>2
    <3>. QED
      BY <1>5, <1>6, <1>7, <2>2, <3>1
  <2>. QED
    BY <2>1, <2>2
<1>9. IsKept(g, s, E, k)
  <2>1. g = [n \in 0 .. k |-> g[n]]
    BY DEF g
  <2>2. [n \in 0 .. k |-> g[n]] =
        [n \in 0 .. k |->
           IF n = 0 THEN <<>>
           ELSE IF s[n] \in E THEN g[n - 1] ELSE Append(g[n - 1], s[n])]
    BY <1>8
  <2>. QED
    BY <2>1, <2>2 DEF IsKept
<1>. QED
  BY <1>1, <1>9

\* What Filter leaves of a sequence.
LEMMA FilterIs ==
  ASSUME NEW S, NEW s \in Seq(S), NEW E
  PROVE  Filter(s, E) \in Seq(S) /\ ToSet(Filter(s, E)) = ToSet(s) \ E
<1>1. PICK m \in Nat : m = Len(s)
  OBVIOUS
<1>2. PICK f : f = CHOOSE g : IsKept(g, s, E, m)
  OBVIOUS
<1>3. IsKept(f, s, E, m)
  BY <1>2, KeptExists
<1>4. Filter(s, E) = f[m]
  BY <1>1, <1>2 DEF Filter, IsKept
<1>5. \A n \in 0 .. m :
        f[n] = IF n = 0 THEN <<>>
               ELSE IF s[n] \in E THEN f[n - 1] ELSE Append(f[n - 1], s[n])
  BY <1>3 DEF IsKept
<1>. DEFINE Good(n) == /\ f[n] \in Seq(S)
                       /\ ToSet(f[n]) = {s[i] : i \in 1 .. n} \ E
            Bad == {n \in 0 .. m : ~Good(n)}
<1>6. Bad = {}
  <2>. SUFFICES ASSUME Bad # {} PROVE FALSE
    OBVIOUS
  <2>1. PICK k \in Bad : \A n \in Bad : k <= n
    <3>1. Bad \subseteq Nat
      OBVIOUS
    <3>. HIDE DEF Bad
    <3>. QED
      BY <3>1, LeastNat
  <2>2. k # 0
    <3>1. f[0] = <<>>
      BY <1>5
    <3>2. Good(0)
      BY <3>1 DEF ToSet
    <3>. QED
      BY <3>2
  <2>3. k \in 1 .. m /\ k - 1 \in 0 .. m /\ k - 1 \notin Bad
    BY <2>1, <2>2
  <2>4. Good(k - 1)
    BY <2>3
  <2>5. s[k] \in S /\ {s[i] : i \in 1 .. k} = {s[i] : i \in 1 .. k - 1} \cup {s[k]}
    BY <1>1, <2>3
  <2>6. PICK t : t = f[k - 1]
    OBVIOUS
  <2>7. t \in Seq(S) /\ ToSet(t) = {s[i] : i \in 1 .. k - 1} \ E
    BY <2>4, <2>6
  <2>8. f[k] = IF s[k] \in E THEN t ELSE Append(t, s[k])
    BY <1>5, <2>3, <2>6
  <2>9. CASE s[k] \in E
    <3>1. f[k] = t
      BY <2>8, <2>9
    <3>2. Good(k)
      BY <2>5, <2>7, <2>9, <3>1
    <3>. QED
      BY <2>1, <3>2
  <2>10. CASE s[k] \notin E
    <3>1. f[k] = Append(t, s[k])
      BY <2>8, <2>10
    <3>2. /\ Append(t, s[k]) \in Seq(S) /\ Len(Append(t, s[k])) = Len(t) + 1
          /\ \A i \in 1 .. Len(t) : Append(t, s[k])[i] = t[i]
          /\ Append(t, s[k])[Len(t) + 1] = s[k]
      BY <2>5, <2>7
    <3>3. ToSet(Append(t, s[k])) = ToSet(t) \cup {s[k]}
      BY <2>7, <3>2 DEF ToSet
    <3>4. Good(k)
      BY <2>5, <2>7, <2>10, <3>1, <3>2, <3>3
    <3>. QED
      BY <2>1, <3>4
  <2>. QED
    BY <2>9, <2>10
<1>7. Good(m)
  BY <1>6
<1>8. {s[i] : i \in 1 .. m} = ToSet(s)
  BY <1>1 DEF ToSet
<1>. QED
  BY <1>4, <1>7, <1>8

\* SetToSeq lists a finite set.
LEMMA SetToSeqIs ==
  ASSUME NEW S, IsFiniteSet(S)
  PROVE  SetToSeq(S) \in Seq(S) /\ ToSet(SetToSeq(S)) = S
<1>1. PICK n \in Nat : n = Cardinality(S)
  BY FS_CardinalityType
<1>2. PICK f : f \in Bijection(1 .. n, S)
  BY <1>1, FS_CardinalityType, FS_NatBijection DEF ExistsBijection
<1>3. f \in [1 .. n -> S] /\ IsInjective(f)
  BY <1>2 DEF Bijection, Injection, IsInjective
<1>4. SetToSeq(S) \in [1 .. n -> S] /\ IsInjective(SetToSeq(S))
  BY <1>1, <1>3 DEF SetToSeq
<1>5. PICK g : g = SetToSeq(S)
  OBVIOUS
<1>6. g \in [1 .. n -> S] /\ IsInjective(g)
  BY <1>4, <1>5
<1>7. PICK T : T = ToSet(g)
  OBVIOUS
<1>8. T \subseteq S /\ g \in Bijection(1 .. n, T)
  BY <1>6, <1>7 DEF ToSet, Bijection, Injection, Surjection, IsInjective
<1>9. ToSet(g) = S
  <2>1. Cardinality(T) = n
    BY <1>8, FS_NatBijection, FS_CountingElements DEF ExistsBijection
  <2>. QED
    BY <1>1, <1>7, <1>8, <2>1, FS_Subset
<1>. QED
  BY <1>5, <1>6, <1>9

\* Ascending lists are sequences.
LEMMA AscendingIs ==
  ASSUME NEW S \in SUBSET Ckpt, NEW s \in Ascending(S)
  PROVE  /\ s \in Seq(S) /\ s \in Seq(Ckpt)
         /\ DOMAIN s = 1 .. Len(s) /\ Len(s) \in Nat
         /\ \A i, k \in DOMAIN s : s[i] = s[k] => i = k
<1>1. Cardinality(S) \in Nat
  BY TierAssumption, FS_Subset, FS_CardinalityType
<1>2. s \in [1 .. Cardinality(S) -> S]
      /\ \A i, k \in DOMAIN s : i < k => s[i] < s[k]
  BY DEF Ascending
<1>3. \A c \in S : c \in Nat
  BY TierAssumption
<1>4. ASSUME NEW i \in DOMAIN s, NEW k \in DOMAIN s, s[i] = s[k] PROVE i = k
  <2>1. i \in Nat /\ k \in Nat /\ s[i] \in Nat /\ s[k] \in Nat
    BY <1>1, <1>2, <1>3
  <2>. QED
    BY <1>2, <1>4, <2>1
<1>. QED
  BY <1>1, <1>2, <1>4

-----------------------------------------------------------------------------
(* What steps leave alone *)

\* The payload files of an entry are files.
LEMMA NeedsIs ==
  ASSUME Stored, NEW e \in Epoch
  PROVE  pub[e] \in Ckpt /\ Needs(e) \subseteq File
<1>1. pub[e] \in Ckpt
  BY DEF Stored, Epoch
<1>. QED
  BY <1>1 DEF Needs, File

\* The store, while the writer does not publish or does not move.
LEMMA StoredSame ==
  ASSUME Stored, UNCHANGED <<pub, entries, durable, quarantined, file, suspect>>,
         worker' = worker \/ (worker.st \notin Writing /\ worker'.st \notin Writing)
  PROVE  Stored'
<1>1. entries' = entries /\ durable' = durable /\ pub' = pub /\ quarantined' = quarantined
      /\ file' = file /\ suspect' = suspect
  OBVIOUS
<1>2. CASE worker' = worker
  BY <1>1, <1>2 DEF Stored, Needs, Epoch, NoFalseQuarantine
<1>3. CASE worker.st \notin Writing /\ worker'.st \notin Writing
  <2>1. entries = durable
    BY <1>3 DEF Stored
  <2>. QED
    BY <1>1, <1>3, <2>1 DEF Stored, Needs, Epoch, NoFalseQuarantine
<1>. QED
  BY <1>2, <1>3

\* A request, while its candidates stay durable and its failed payloads suspect.
LEMMA ReadingKept ==
  ASSUME Stored, NEW q \in RequestType, NEW s, Reading(q, s),
         pub' = pub,
         \A i \in DOMAIN q.cands : q.cands[i].disk \in durable =>
           /\ q.cands[i].disk \in durable'
           /\ \A f \in Needs(q.cands[i].disk) : f \in suspect => f \in suspect'
  PROVE  Reading(q, s)'
<1>1. \A e : Needs(e)' = Needs(e)
  BY DEF Needs
<1>2. Pins(q)'
  BY DEF Reading, Pins
<1>3. Failed(q)'
  BY <1>1 DEF Reading, Pins, Failed, Tries
<1>4. Verified(q.open)' = Verified(q.open) /\ Verified(s.from)' = Verified(s.from)
  BY <1>1 DEF Verified
<1>5. Loads(q, s)'
  BY <1>4 DEF Reading, Loads, Tries, Epoch
<1>. QED
  BY <1>2, <1>3, <1>5 DEF Reading

\* The requests, while none of them acts and their candidates are kept.
LEMMA RequestsKept ==
  ASSUME Stored, Requests, UNCHANGED <<pub, req, slot>>,
         \A r \in Request : \A e \in durable : e \in PinnedBy(r) =>
           /\ e \in durable'
           /\ \A f \in Needs(e) : f \in suspect => f \in suspect'
  PROVE  Requests'
<1>1. ASSUME NEW r \in Request PROVE Reading(req[r], slot[r])'
  <2>1. PICK q \in RequestType : q = req[r]
    BY DEF Requests
  <2>2. PICK s : s = slot[r]
    OBVIOUS
  <2>3. Reading(q, s)
    BY <2>1, <2>2 DEF Requests
  <2>4. \A i \in DOMAIN q.cands : q.cands[i].disk \in PinnedBy(r)
    BY <2>1 DEF PinnedBy
  <2>5. Reading(q, s)'
    BY <2>3, <2>4, ReadingKept
  <2>6. req'[r] = q /\ slot'[r] = s
    BY <2>1, <2>2
  <2>. QED
    BY <2>5, <2>6
<1>. QED
  BY <1>1 DEF Requests

\* The requests, while nothing they read of the store changes.
LEMMA RequestsSame ==
  ASSUME Stored, Requests, UNCHANGED <<pub, durable, req, slot>>, suspect \subseteq suspect'
  PROVE  Requests'
BY RequestsKept

\* One request acts, and nothing it reads of the store changes.
LEMMA RequestActs ==
  ASSUME Stored, Requests, UNCHANGED <<pub, durable>>, suspect \subseteq suspect',
         NEW r \in Request,
         NEW q \in RequestType, NEW s \in SlotType,
         req' = [req EXCEPT ![r] = q], slot' = [slot EXCEPT ![r] = s],
         Reading(q, s) \/ Reading(q, s)'
  PROVE  Requests'
<1>1. ASSUME NEW u \in RequestType, NEW v, Reading(u, v) PROVE Reading(u, v)'
  BY <1>1, ReadingKept
<1>2. req' \in [Request -> RequestType] /\ slot' \in [Request -> SlotType]
      /\ req'[r] = q /\ slot'[r] = s
      /\ \A u \in Request \ {r} : req'[u] = req[u] /\ slot'[u] = slot[u]
  BY DEF Requests
<1>3. ASSUME NEW u \in Request PROVE Reading(req[u], slot[u])'
  <2>1. CASE u = r
    <3>1. Reading(q, s)'
      BY <1>1
    <3>. QED
      BY <1>2, <2>1, <3>1
  <2>2. CASE u # r
    <3>1. PICK x \in RequestType : x = req[u]
      BY DEF Requests
    <3>2. PICK y : y = slot[u]
      OBVIOUS
    <3>3. Reading(x, y)'
      BY <1>1, <3>1, <3>2 DEF Requests
    <3>. QED
      BY <1>2, <2>2, <3>1, <3>2, <3>3
  <2>. QED
    BY <2>1, <2>2
<1>. QED
  BY <1>2, <1>3 DEF Requests

\* The catalog, while it is left alone.
LEMMA CatalogSame ==
  ASSUME Catalogued, UNCHANGED <<pub, catalog>>
  PROVE  Catalogued'
BY DEF Catalogued, catalog, Records, Epoch

-----------------------------------------------------------------------------
(* The operators of the store and the catalog *)

\* Entries that no reader pins are retired, while nothing is being published.
LEMMA RetiredKeeps ==
  ASSUME Stored, Requests, worker.st \notin Writing, worker'.st \notin Writing,
         NEW E, Retired(E), E \subseteq entries, \A e \in E : ~Pinned(e),
         UNCHANGED <<pub, quarantined, req, slot>>
  PROVE  Stored' /\ Requests' /\ entries' \subseteq entries
<1>1. entries = durable
  BY DEF Stored
<1>2. entries' = entries \ E /\ durable' = durable \ E
  BY DEF Retired
<1>3. /\ \A f \in File : file'[f] = IF Referenced(f, E) /\ ~Referenced(f, entries \ E)
                                    THEN "absent" ELSE file[f]
      /\ \A f : Referenced(f, entries \ E) => (f \in suspect <=> f \in suspect')
  BY DEF Retired, Unlinked
<1>4. file' \in [File -> {"absent", "good", "bad"}]
  BY DEF Stored, Retired, Unlinked
<1>5. \A e \in entries \ E : \A f \in Needs(e) :
        f \in File /\ file'[f] = file[f] /\ (f \in suspect <=> f \in suspect')
  <2>. SUFFICES ASSUME NEW e \in entries \ E, NEW f \in Needs(e)
                PROVE  f \in File /\ file'[f] = file[f] /\ (f \in suspect <=> f \in suspect')
    OBVIOUS
  <2>1. f \in File
    BY NeedsIs DEF Stored
  <2>2. Referenced(f, entries \ E)
    BY DEF Referenced
  <2>. QED
    BY <1>3, <2>1, <2>2
<1>6. \A e : Needs(e)' = Needs(e)
  BY DEF Needs
<1>7. NoFalseQuarantine'
  BY <1>2, <1>5, <1>6 DEF Stored, NoFalseQuarantine
<1>8. Stored'
  BY <1>1, <1>2, <1>4, <1>5, <1>6, <1>7 DEF Stored, Epoch
<1>9. ASSUME NEW r \in Request, NEW e \in durable, e \in PinnedBy(r)
      PROVE  /\ e \in durable'
             /\ \A f \in Needs(e) : f \in suspect => f \in suspect'
  <2>1. e \notin E
    BY <1>9 DEF Pinned
  <2>. QED
    BY <1>1, <1>2, <1>5, <2>1
<1>10. Requests'
  BY <1>9, RequestsKept
<1>. QED
  BY <1>2, <1>8, <1>10

\* The index without the durable copies E.
LEMMA RemoveDurableIs ==
  ASSUME NEW ix \in [Ckpt -> [ram : BOOLEAN, disk : Nat]], NEW E, NEW Bad
  PROVE  /\ RemoveDurable(ix, E, Bad) \in [Ckpt -> [ram : BOOLEAN, disk : Nat]]
         /\ \A c \in Ckpt : RemoveDurable(ix, E, Bad)[c].disk # None =>
              /\ RemoveDurable(ix, E, Bad)[c].disk = ix[c].disk
              /\ ix[c].disk \notin E
         /\ \A c \in Ckpt : ix[c].ram /\ ~RemoveDurable(ix, E, Bad)[c].ram =>
              ix[c].disk # None /\ ix[c].disk \in E \cap Bad
<1>1. PICK g : g = RemoveDurable(ix, E, Bad)
  OBVIOUS
<1>2. DOMAIN g = Ckpt /\ g = [c \in Ckpt |-> g[c]]
      /\ \A c \in Ckpt : g[c] =
           IF ix[c].disk = None \/ ix[c].disk \notin E THEN ix[c]
           ELSE IF ix[c].disk \in Bad \/ ~ix[c].ram THEN NoCopy
           ELSE [ix[c] EXCEPT !.disk = None]
  BY <1>1 DEF RemoveDurable
<1>3. ASSUME NEW c \in Ckpt
      PROVE  /\ g[c] \in [ram : BOOLEAN, disk : Nat]
             /\ g[c].disk # None => g[c].disk = ix[c].disk /\ ix[c].disk \notin E
             /\ ix[c].ram /\ ~g[c].ram =>
                  ix[c].disk # None /\ ix[c].disk \in E \cap Bad
  <2>1. ix[c] \in [ram : BOOLEAN, disk : Nat] /\ NoCopy \in [ram : BOOLEAN, disk : Nat]
        /\ NoCopy.disk = None
    BY DEF NoCopy, None
  <2>2. CASE ix[c].disk = None \/ ix[c].disk \notin E
    BY <1>2, <2>1, <2>2
  <2>3. CASE ix[c].disk # None /\ ix[c].disk \in E /\ (ix[c].disk \in Bad \/ ~ix[c].ram)
    BY <1>2, <2>1, <2>3
  <2>4. CASE ix[c].disk # None /\ ix[c].disk \in E /\ ~(ix[c].disk \in Bad \/ ~ix[c].ram)
    <3>1. g[c] = [ix[c] EXCEPT !.disk = None]
      BY <1>2, <2>4
    <3>2. /\ g[c] \in [ram : BOOLEAN, disk : Nat] /\ g[c].disk = None
          /\ g[c].ram = ix[c].ram
      BY <2>1, <3>1 DEF None
    <3>. QED
      BY <2>4, <3>2
  <2>. QED
    BY <2>2, <2>3, <2>4
<1>. QED
  BY <1>1, <1>2, <1>3

\* The order of the records without E.
LEMMA WithoutIs ==
  ASSUME Catalogued, NEW E
  PROVE  Without(E) \in Seq(Nat) /\ ToSet(Without(E)) = Records \ E
BY FilterIs DEF Catalogued, Without, Records

\* The records E leave the catalog, and the index with them.
LEMMA CatalogLess ==
  ASSUME Catalogued, NEW E, NEW F, pub' = pub, lru' = Without(E) \/ (E = {} /\ lru' = lru),
         index' \in [Ckpt -> [ram : BOOLEAN, disk : Nat]],
         \A c \in Ckpt : index'[c].disk # None =>
           index'[c].disk = index[c].disk /\ index[c].disk \notin F,
         E \cup (invalid' \ invalid) \subseteq F \cup invalid
  PROVE  Catalogued'
<1>1. lru' \in Seq(Nat) /\ Records' = Records \ E
  BY WithoutIs DEF Records, Catalogued
<1>. QED
  BY <1>1 DEF Catalogued, Epoch

\* Reconcile takes the condemned publications out of the index.
LEMMA ReconciledIs ==
  ASSUME Catalogued
  PROVE  /\ Reconciled \in [Ckpt -> [ram : BOOLEAN, disk : Nat]]
         /\ \A c \in Ckpt : Reconciled[c].disk # None =>
              Reconciled[c].disk = index[c].disk /\ index[c].disk \notin Condemned
         /\ \A c \in Ckpt : index[c].ram /\ ~Reconciled[c].ram =>
              index[c].disk \in Condemned
BY RemoveDurableIs DEF Reconciled, Catalogued

\* Reconcile alone.
LEMMA CatalogReconciled ==
  ASSUME Catalogued, pub' = pub, lru' = lru, index' = Reconciled,
         invalid' = invalid \cup Condemned
  PROVE  Catalogued'
BY ReconciledIs, CatalogLess

\* The records E leave the catalog after a reconciliation.
LEMMA ErasedKeeps ==
  ASSUME Catalogued, pub' = pub, NEW E, Erased(E, Reconciled)
  PROVE  /\ Catalogued'
         /\ \A c \in Ckpt : index[c].ram /\ ~index'[c].ram =>
              index[c].disk \in Condemned \cup quarantined
<1>1. PICK ix : ix = Reconciled
  OBVIOUS
<1>2. /\ ix \in [Ckpt -> [ram : BOOLEAN, disk : Nat]]
      /\ \A c \in Ckpt : ix[c].disk # None =>
           ix[c].disk = index[c].disk /\ index[c].disk \notin Condemned
      /\ \A c \in Ckpt : index[c].ram /\ ~ix[c].ram => index[c].disk \in Condemned
  BY <1>1, ReconciledIs
<1>3. /\ lru' = Without(E) /\ invalid' = (invalid \cup Condemned) \ E
      /\ index' = RemoveDurable(ix, E, E \cap quarantined)
  BY <1>1 DEF Erased
<1>4. /\ index' \in [Ckpt -> [ram : BOOLEAN, disk : Nat]]
      /\ \A c \in Ckpt : index'[c].disk # None =>
           index'[c].disk = ix[c].disk /\ ix[c].disk \notin E
      /\ \A c \in Ckpt : ix[c].ram /\ ~index'[c].ram =>
           ix[c].disk # None /\ ix[c].disk \in E \cap quarantined
  BY <1>2, <1>3, RemoveDurableIs
<1>5. \A c \in Ckpt : index'[c].disk # None =>
        index'[c].disk = index[c].disk /\ index[c].disk \notin E \cup Condemned
  BY <1>2, <1>4
<1>6. Catalogued'
  BY <1>3, <1>4, <1>5, CatalogLess
<1>7. ASSUME NEW c \in Ckpt, index[c].ram, ~index'[c].ram
      PROVE  index[c].disk \in Condemned \cup quarantined
  <2>1. CASE ~ix[c].ram
    BY <1>2, <1>7, <2>1
  <2>2. CASE ix[c].ram
    BY <1>2, <1>4, <1>7, <2>2
  <2>. QED
    BY <2>1, <2>2
<1>. QED
  BY <1>6, <1>7

-----------------------------------------------------------------------------
(* The store's own steps *)

\* DiskStore::Retire
LEMMA SoundRetire ==
  ASSUME Sound, NEW c \in Ckpt, Retire(c)
  PROVE  Sound'
<1>1. Stored /\ Requests /\ Locks /\ Catalogued
  BY DEF Sound
<1>2. PICK e \in entries : ~Pinned(e) /\ Retired({e})
  BY DEF Retire
<1>3. worker.st \notin Writing /\ worker' = worker
  BY <1>1 DEF Locks, Retire, Holding, Nobody
<1>4. UNCHANGED <<io, pub, quarantined, catalog, reclamation, req, slot>>
  BY DEF Retire
<1>5. Stored' /\ Requests'
  <2>1. PICK E : E = {e}
    OBVIOUS
  <2>. QED
    BY <1>1, <1>2, <1>3, <1>4, <2>1, RetiredKeeps
<1>6. Catalogued'
  BY <1>1, <1>4, CatalogSame
<1>7. Locks'
  BY <1>1, <1>3, <1>4 DEF Locks
<1>. QED
  BY <1>5, <1>6, <1>7 DEF Sound

\* ReclaimOrphans
LEMMA SoundReclaimOrphans ==
  ASSUME Sound, ReclaimLock \/ ReclaimOrphans
  PROVE  Sound'
<1>1. Stored /\ Requests /\ Locks /\ Catalogued
  BY DEF Sound
<1>2. UNCHANGED <<pub, entries, durable, quarantined, catalog, worker, req, slot>>
  BY DEF ReclaimLock, ReclaimOrphans
<1>3. Catalogued'
  BY <1>1, <1>2, CatalogSame
<1>4. Locks'
  BY <1>1, <1>2 DEF Locks, ReclaimLock, ReclaimOrphans, Nobody, Holding, Writing
<1>5. CASE ReclaimLock
  <2>1. file' = file /\ suspect' = suspect
    BY <1>5 DEF ReclaimLock
  <2>2. Stored' /\ Requests'
    BY <1>1, <1>2, <2>1, StoredSame, RequestsSame
  <2>. QED
    BY <1>3, <1>4, <2>2 DEF Sound
<1>6. CASE ReclaimOrphans
  <2>1. /\ file' \in [File -> {"absent", "good", "bad"}]
        /\ \A f \in File : Referenced(f, entries) =>
             file'[f] = file[f] /\ (f \in suspect <=> f \in suspect')
    BY <1>1, <1>6 DEF ReclaimOrphans, Unlinked, Stored
  <2>2. \A e \in entries : \A f \in Needs(e) :
          file'[f] = file[f] /\ (f \in suspect <=> f \in suspect')
    <3>. SUFFICES ASSUME NEW e \in entries, NEW f \in Needs(e)
                  PROVE  file'[f] = file[f] /\ (f \in suspect <=> f \in suspect')
      OBVIOUS
    <3>1. f \in File /\ Referenced(f, entries)
      BY <1>1, NeedsIs DEF Stored, Referenced
    <3>. QED
      BY <2>1, <3>1
  <2>3. \A e : Needs(e)' = Needs(e)
    BY <1>2 DEF Needs
  <2>4. Stored'
    BY <1>1, <1>2, <2>1, <2>2, <2>3 DEF Stored, NoFalseQuarantine, Epoch
  <2>5. Requests'
    BY <1>1, <1>2, <2>2, RequestsKept DEF Stored
  <2>. QED
    BY <1>3, <1>4, <2>4, <2>5 DEF Sound
<1>. QED
  BY <1>5, <1>6

\* A file is damaged.
LEMMA SoundDamage ==
  ASSUME Sound, NEW f \in File, Damage(f)
  PROVE  Sound'
<1>1. Stored /\ Requests /\ Locks /\ Catalogued
  BY DEF Sound
<1>2. UNCHANGED <<io, pub, entries, durable, quarantined, suspect, catalog, worker,
                  reclamation, req, slot>>
  BY DEF Damage
<1>3. /\ file' \in [File -> {"absent", "good", "bad"}]
      /\ \A g \in File : file[g] # "absent" => file'[g] # "absent"
  BY <1>1 DEF Damage, Stored
<1>4. \A e \in entries : Needs(e) \subseteq File
  BY <1>1, NeedsIs DEF Stored
<1>5. \A e : Needs(e)' = Needs(e)
  BY <1>2 DEF Needs
<1>6. Stored'
  BY <1>1, <1>2, <1>3, <1>4, <1>5 DEF Stored, NoFalseQuarantine, Epoch
<1>7. Requests'
  BY <1>1, <1>2, <1>3, <1>4, RequestsKept DEF Stored
<1>8. Catalogued'
  BY <1>1, <1>2, CatalogSame
<1>9. Locks'
  BY <1>1, <1>2 DEF Locks
<1>. QED
  BY <1>6, <1>7, <1>8, <1>9 DEF Sound

\* ReclaimInvalid
LEMMA SoundReclaimInvalid ==
  ASSUME Sound, ReclaimInvalid
  PROVE  Sound'
<1>1. Stored /\ Requests /\ Locks /\ Catalogued
  BY DEF Sound
<1>2. PICK out : /\ out \subseteq invalid \cup Condemned
                 /\ \A e \in out : ~(e \in entries /\ Pinned(e))
                 /\ Retired(out \cap entries)
                 /\ lru' = Without(out) /\ invalid' = (invalid \cup Condemned) \ out
  BY DEF ReclaimInvalid
<1>3. /\ io = Nobody /\ index' = Reconciled
      /\ UNCHANGED <<io, pub, quarantined, worker, reclamation, req, slot>>
  BY DEF ReclaimInvalid
<1>4. worker.st \notin Writing
  BY <1>1, <1>3 DEF Locks, Holding, Nobody
<1>5. Stored' /\ Requests'
  <2>1. PICK E : E = out \cap entries
    OBVIOUS
  <2>2. Retired(E) /\ E \subseteq entries /\ \A e \in E : ~Pinned(e)
    BY <1>2, <2>1
  <2>. QED
    BY <1>1, <1>3, <1>4, <2>2, RetiredKeeps
<1>6. Catalogued'
  BY <1>1, <1>2, <1>3, ReconciledIs, CatalogLess
<1>7. Locks'
  BY <1>1, <1>3 DEF Locks
<1>. QED
  BY <1>5, <1>6, <1>7 DEF Sound

\* A checkpoint is captured, or its copy in RAM is given up.
LEMMA SoundResident ==
  ASSUME Sound, NEW c \in Ckpt, Capture(c) \/ DropResident(c)
  PROVE  Sound'
<1>1. Stored /\ Requests /\ Locks /\ Catalogued
  BY DEF Sound
<1>2. UNCHANGED <<store, lru, invalid, reclamation, req, slot>>
  BY DEF Capture, DropResident
<1>3. /\ UNCHANGED <<io, pub, entries, durable, quarantined, file, suspect>>
      /\ worker' = worker \/ (worker.st \notin Writing /\ worker'.st \notin Writing)
      /\ Locks'
  <2>1. CASE Capture(c)
    <3>1. worker' = [worker EXCEPT !.st = "job", !.id = c] /\ worker.st = "idle"
      BY <2>1 DEF Capture
    <3>2. worker' \in WorkerType /\ worker'.st = "job" /\ worker'.id = c
      BY <1>1, <3>1 DEF Locks, WorkerType
    <3>. QED
      BY <1>1, <1>2, <3>1, <3>2 DEF store, Locks, Holding, Writing
  <2>2. CASE DropResident(c)
    BY <1>1, <2>2 DEF DropResident, store, Locks
  <2>. QED
    BY <2>1, <2>2
<1>4. Stored' /\ Requests'
  BY <1>1, <1>2, <1>3, StoredSame, RequestsSame
<1>5. /\ index' \in [Ckpt -> [ram : BOOLEAN, disk : Nat]]
      /\ \A d \in Ckpt : index'[d].disk # None => index'[d].disk = index[d].disk
  <2>1. PICK x : x = IF Capture(c) THEN [index[c] EXCEPT !.ram = TRUE]
                     ELSE IF Readable(index[c].disk) THEN [index[c] EXCEPT !.ram = FALSE]
                     ELSE NoCopy
    OBVIOUS
  <2>2. x \in [ram : BOOLEAN, disk : Nat] /\ (x.disk # None => x.disk = index[c].disk)
    <3>1. index[c] \in [ram : BOOLEAN, disk : Nat] /\ NoCopy \in [ram : BOOLEAN, disk : Nat]
          /\ NoCopy.disk = None
      BY <1>1 DEF Catalogued, NoCopy, None
    <3>. QED
      BY <2>1, <3>1
  <2>3. index' = [index EXCEPT ![c] = x]
    <3>1. CASE Capture(c)
      <4>1. index' = [index EXCEPT ![c] = [index[c] EXCEPT !.ram = TRUE]]
        BY <3>1, Zenon DEF Capture
      <4>. QED
        BY <2>1, <3>1, <4>1, Zenon
    <3>2. CASE ~Capture(c)
      <4>1. index' = [index EXCEPT ![c] =
              IF Readable(index[c].disk) THEN [index[c] EXCEPT !.ram = FALSE] ELSE NoCopy]
        BY <3>2, Zenon DEF DropResident
      <4>. QED
        BY <2>1, <3>2, <4>1, Zenon
    <3>. QED
      BY <3>1, <3>2
  <2>. QED
    BY <1>1, <2>2, <2>3 DEF Catalogued
<1>6. Catalogued'
  <2>1. PICK E : E = {}
    OBVIOUS
  <2>2. /\ pub' = pub /\ lru' = lru /\ E \cup (invalid' \ invalid) \subseteq E \cup invalid
        /\ index' \in [Ckpt -> [ram : BOOLEAN, disk : Nat]]
        /\ \A d \in Ckpt : index'[d].disk # None =>
             index'[d].disk = index[d].disk /\ index[d].disk \notin E
    BY <1>2, <1>3, <1>5, <2>1
  <2>. QED
    BY <1>1, <2>1, <2>2, CatalogLess
<1>. QED
  BY <1>3, <1>4, <1>6 DEF Sound

-----------------------------------------------------------------------------
(* The writer *)

\* The writer moves on.
LEMMA AtIs ==
  ASSUME Locks, NEW x \in {"idle", "job", "full", "failed", "done", "tracked"} \cup Holding,
         worker.st # "idle", At(x)
  PROVE  /\ worker' \in WorkerType /\ worker'.st = x
         /\ worker'.id = worker.id /\ worker'.epoch = worker.epoch
         /\ worker'.id \in Ckpt
BY DEF Locks, WorkerType, At

\* The writer rests.
LEMMA RestingIs ==
  Resting \in WorkerType /\ Resting.st = "idle"
BY DEF Resting, WorkerType, None

\* A publication is added: what is known of the others stays.
LEMMA PublishingKeeps ==
  ASSUME Stored, Requests, Catalogued, NEW c \in Ckpt, pub' = Append(pub, c),
         UNCHANGED <<durable, suspect, catalog, req, slot>>
  PROVE  /\ Requests' /\ Catalogued'
         /\ Len(pub) \in Nat /\ Epoch' = Epoch \cup {Len(pub) + 1}
         /\ \A e \in Epoch : pub'[e] = pub[e] /\ Needs(e)' = Needs(e) /\ e # Len(pub) + 1
         /\ pub' \in Seq(Ckpt) /\ pub'[Len(pub) + 1] = c
<1>1. /\ Len(pub) \in Nat /\ Len(pub') = Len(pub) + 1 /\ pub' \in Seq(Ckpt)
      /\ \A e \in 1 .. Len(pub) : pub'[e] = pub[e]
      /\ pub'[Len(pub) + 1] = c
  BY DEF Stored
<1>2. Epoch' = Epoch \cup {Len(pub) + 1}
  BY <1>1 DEF Epoch
<1>3. \A e \in Epoch : pub'[e] = pub[e] /\ Needs(e)' = Needs(e) /\ e # Len(pub) + 1
  BY <1>1 DEF Epoch, Needs
<1>4. durable \subseteq Epoch
  BY DEF Stored
<1>5. ASSUME NEW q \in RequestType, NEW s \in SlotType, Reading(q, s)
      PROVE  Reading(q, s)'
  <2>1. \A i \in DOMAIN q.cands : q.cands[i].disk # None => q.cands[i].disk \in durable
    BY <1>5 DEF Reading, Pins
  <2>2. Pins(q)'
    BY <1>3, <1>4, <1>5 DEF Reading, Pins
  <2>3. Failed(q)'
    BY <1>3, <1>4, <1>5, <2>1 DEF Reading, Failed, Tries
  <2>4. q.st = "load" => Verified(q.open)' = Verified(q.open)
    <3>1. q.st = "load" => q.open \in Epoch
      BY <1>4, <1>5, <2>1 DEF Reading, Loads, Tries
    <3>. QED
      BY <1>3, <3>1 DEF Verified
  <2>5. s.from \in {None} \cup Epoch => Verified(s.from)' = Verified(s.from)
    BY <1>3 DEF Verified
  <2>6. Loads(q, s)'
    BY <1>2, <1>5, <2>4, <2>5 DEF Reading, Loads, Tries
  <2>. QED
    BY <2>2, <2>3, <2>6 DEF Reading
<1>6. Requests'
  <2>1. ASSUME NEW r \in Request PROVE Reading(req[r], slot[r])'
    <3>1. PICK q \in RequestType : q = req[r]
      BY DEF Requests
    <3>2. PICK s \in SlotType : s = slot[r]
      BY DEF Requests
    <3>3. Reading(q, s)'
      BY <1>5, <3>1, <3>2 DEF Requests
    <3>4. req'[r] = q /\ slot'[r] = s
      BY <3>1, <3>2
    <3>. QED
      BY <3>3, <3>4
  <2>. QED
    BY <2>1 DEF Requests
<1>7. Catalogued'
  BY <1>2, <1>3 DEF Catalogued, catalog, Records
<1>. QED
  BY <1>1, <1>2, <1>3, <1>6, <1>7

\* Entries that need a suspect file are condemned.
LEMMA QuarantineKeeps ==
  ASSUME Stored, quarantined' \subseteq Epoch,
         \A e \in quarantined' \ quarantined :
           \E f \in Needs(e) : f \in suspect',
         suspect \subseteq suspect', UNCHANGED <<pub, entries, durable, file>>,
         worker' = worker \/ (worker.st \notin Writing /\ worker'.st \notin Writing)
  PROVE  Stored'
<1>1. \A e : Needs(e)' = Needs(e)
  BY DEF Needs
<1>2. NoFalseQuarantine'
  BY <1>1 DEF Stored, NoFalseQuarantine
<1>3. CASE worker' = worker
  BY <1>1, <1>2, <1>3 DEF Stored, Epoch
<1>4. CASE worker.st \notin Writing /\ worker'.st \notin Writing
  <2>1. entries = durable
    BY <1>4 DEF Stored
  <2>. QED
    BY <1>1, <1>2, <1>4, <2>1 DEF Stored, Epoch
<1>. QED
  BY <1>3, <1>4

\* Publish, up to the index.
LEMMA SoundAdmit ==
  ASSUME Sound, Admit
  PROVE  Sound'
<1>1. Stored /\ Requests /\ Locks /\ Catalogued
  BY DEF Sound
<1>2. worker.st = "locked" /\ worker.id \in Ckpt /\ entries = durable
      /\ worker.st \notin Writing
  BY <1>1 DEF Admit, Locks, Stored, Writing
<1>3. UNCHANGED <<durable, file, catalog, reclamation, req, slot>>
  BY DEF Admit
<1>4. ASSUME NEW x \in {"full", "failed"}, At(x), io' = Nobody,
             UNCHANGED <<pub, entries>>,
             \/ UNCHANGED <<quarantined, suspect>>
             \/ \E f \in Old(worker.id) : DependencyFailure(f)
      PROVE  Sound'
  <2>1. worker' \in WorkerType /\ worker'.st = x /\ worker'.id \in Ckpt
        /\ worker'.st \notin Writing
    BY <1>1, <1>2, <1>4, AtIs DEF Writing
  <2>2. Locks'
    BY <1>1, <1>2, <1>3, <1>4, <2>1 DEF Locks, Holding, Nobody
  <2>3. Requests' /\ Catalogued'
    <3>1. suspect \subseteq suspect'
      BY <1>4 DEF DependencyFailure
    <3>. QED
      BY <1>1, <1>3, <1>4, <3>1, RequestsSame, CatalogSame
  <2>4. Stored'
    <3>1. CASE UNCHANGED <<quarantined, suspect>>
      BY <1>1, <1>2, <1>3, <1>4, <2>1, <3>1, StoredSame
    <3>2. ASSUME NEW f, DependencyFailure(f) PROVE Stored'
      <4>1. /\ suspect \subseteq suspect' /\ quarantined' \subseteq Epoch
            /\ \A d \in quarantined' \ quarantined : \E g \in Needs(d) : g \in suspect'
        BY <1>1, <3>2 DEF Stored, Quarantine, DependencyFailure
      <4>. QED
        BY <1>1, <1>2, <1>3, <1>4, <2>1, <4>1, QuarantineKeeps
    <3>. QED
      BY <1>4, <3>1, <3>2
  <2>. QED
    BY <2>2, <2>3, <2>4 DEF Sound
<1>5. ASSUME ~Refused(worker.id), pub' = Append(pub, worker.id),
             entries' = entries \cup {Len(pub) + 1},
             worker' = [worker EXCEPT !.st = "writing", !.epoch = Len(pub) + 1],
             UNCHANGED <<io, quarantined, suspect>>
      PROVE  Sound'
  <2>1. PICK n : n = Len(pub) + 1
    OBVIOUS
  <2>2. PICK c \in Ckpt : c = worker.id
    BY <1>2
  <2>3. /\ Requests' /\ Catalogued'
        /\ Len(pub) \in Nat /\ Epoch' = Epoch \cup {n}
        /\ \A e \in Epoch : pub'[e] = pub[e] /\ Needs(e)' = Needs(e) /\ e # n
        /\ pub' \in Seq(Ckpt) /\ pub'[n] = c
    BY <1>1, <1>3, <1>5, <2>1, <2>2, PublishingKeeps
  <2>4. /\ worker' \in WorkerType /\ worker'.st = "writing"
        /\ worker'.epoch = n /\ worker'.id = c
    <3>1. worker \in WorkerType /\ n \in Nat
      BY <1>1, <2>1, <2>3 DEF Locks
    <3>2. worker' = [worker EXCEPT !.st = "writing", !.epoch = n]
      BY <1>5, <2>1
    <3>3. /\ worker'.st = "writing" /\ worker'.epoch = n /\ worker'.id = worker.id
          /\ worker' \in WorkerType
      BY <3>1, <3>2 DEF WorkerType, Holding, Writing
    <3>. QED
      BY <2>2, <3>3
  <2>5. Locks'
    BY <1>1, <1>2, <1>3, <1>5, <2>4 DEF Locks, Holding, Writing
  <2>6. entries \subseteq Epoch /\ entries' = entries \cup {n} /\ n \notin entries
        /\ n \notin quarantined /\ quarantined' = quarantined
    BY <1>1, <1>5, <2>1, <2>3 DEF Stored
  <2>7. \A e, d \in entries' : pub'[e] = pub'[d] => e = d
    <3>1. \A e \in entries : pub[e] # c
      BY <1>5, <2>2 DEF Refused
    <3>. QED
      BY <1>1, <2>3, <2>6, <3>1 DEF Stored
  <2>8. NoFalseQuarantine'
    BY <1>1, <1>5, <2>3, <2>6 DEF Stored, NoFalseQuarantine
  <2>9. \A e \in entries' : e \in durable' \/ worker'.st = "written" =>
          \A f \in Needs(e)' : file'[f] # "absent"
    BY <1>1, <1>3, <2>3, <2>4, <2>6 DEF Stored
  <2>10. Stored'
    BY <1>1, <1>2, <1>3, <2>3, <2>4, <2>6, <2>7, <2>8, <2>9 DEF Stored, Writing
  <2>. QED
    BY <2>3, <2>5, <2>10 DEF Sound
<1>. QED
  BY <1>4, <1>5 DEF Admit

\* The payloads are written, all of them or some.
LEMMA SoundWritePayloads ==
  ASSUME Sound, WritePayloads
  PROVE  Sound'
<1>1. Stored /\ Requests /\ Locks /\ Catalogued
  BY DEF Sound
<1>2. /\ worker.st = "writing" /\ worker.epoch \in entries \ durable
      /\ pub[worker.epoch] = worker.id
  BY <1>1 DEF WritePayloads, Stored, Writing
<1>3. PICK W \in SUBSET (Deps[worker.id] \ OnDisk) :
        /\ file' = [f \in File |-> IF f \in W THEN "good" ELSE file[f]]
        /\ IF W = Deps[worker.id] \ OnDisk
           THEN At("written") /\ UNCHANGED <<io, entries>>
           ELSE At("failed") /\ io' = Nobody /\ entries' = entries \ {worker.epoch}
  BY DEF WritePayloads
<1>4. UNCHANGED <<pub, durable, quarantined, suspect, catalog, reclamation, req, slot>>
  BY DEF WritePayloads
<1>5. /\ file' \in [File -> {"absent", "good", "bad"}]
      /\ \A f \in File : f \in W => file[f] = "absent" /\ file'[f] = "good"
      /\ \A f \in File : f \notin W => file'[f] = file[f]
  BY <1>1, <1>3 DEF Stored, OnDisk
<1>6. \A e : Needs(e)' = Needs(e)
  BY <1>4 DEF Needs
<1>7. \A e \in entries : Needs(e) \subseteq File
  BY <1>1, NeedsIs DEF Stored
<1>8. Requests' /\ Catalogued'
  BY <1>1, <1>4, RequestsSame, CatalogSame
<1>9. CASE W = Deps[worker.id] \ OnDisk
  <2>1. At("written") /\ UNCHANGED <<io, entries>>
    BY <1>3, <1>9
  <2>2. /\ worker' \in WorkerType /\ worker'.st = "written" /\ worker'.id = worker.id
        /\ worker'.epoch = worker.epoch /\ worker'.id \in Ckpt
    BY <1>1, <1>2, <2>1, AtIs DEF Holding, Writing
  <2>3. Locks'
    BY <1>1, <1>2, <1>4, <2>1, <2>2 DEF Locks, Holding, Writing
  <2>4. \A f \in Needs(worker.epoch) : f \in File /\ file'[f] # "absent"
    BY <1>2, <1>5, <1>7, <1>9 DEF Needs, OnDisk
  <2>5. Stored'
    BY <1>1, <1>2, <1>4, <1>5, <1>6, <1>7, <2>1, <2>2, <2>4
       DEF Stored, NoFalseQuarantine, Epoch, Writing
  <2>. QED
    BY <1>8, <2>3, <2>5 DEF Sound
<1>10. CASE W # Deps[worker.id] \ OnDisk
  <2>1. At("failed") /\ io' = Nobody /\ entries' = entries \ {worker.epoch}
    BY <1>3, <1>10
  <2>2. worker' \in WorkerType /\ worker'.st = "failed" /\ worker'.id \in Ckpt
    BY <1>1, <1>2, <2>1, AtIs
  <2>3. Locks'
    BY <1>1, <1>2, <1>4, <2>1, <2>2 DEF Locks, Holding, Writing, Nobody
  <2>4. entries' = durable
    BY <1>1, <1>2, <2>1 DEF Stored
  <2>5. Stored'
    BY <1>1, <1>2, <1>4, <1>5, <1>6, <1>7, <2>2, <2>4
       DEF Stored, NoFalseQuarantine, Epoch, Writing
  <2>. QED
    BY <1>8, <2>3, <2>5 DEF Sound
<1>. QED
  BY <1>9, <1>10

\* The publication is committed, or refused.
LEMMA SoundCommit ==
  ASSUME Sound, Commit
  PROVE  Sound'
<1>1. Stored /\ Requests /\ Locks /\ Catalogued
  BY DEF Sound
<1>2. worker.st = "written" /\ worker.epoch \in entries \ durable
  BY <1>1 DEF Commit, Stored, Writing
<1>3. /\ UNCHANGED <<pub, quarantined, file, suspect, catalog, reclamation, req, slot>>
      /\ io' = Nobody
  BY DEF Commit
<1>4. \A e : Needs(e)' = Needs(e)
  BY <1>3 DEF Needs
<1>5. \/ At("done") /\ durable' = durable \cup {worker.epoch} /\ entries' = entries
      \/ At("failed") /\ entries' = entries \ {worker.epoch} /\ durable' = durable
  BY DEF Commit
<1>6. /\ worker' \in WorkerType /\ worker'.st \in {"done", "failed"} /\ worker'.id \in Ckpt
  BY <1>1, <1>2, <1>5, AtIs
<1>7. entries' = durable' /\ durable \subseteq durable' /\ entries' \subseteq entries
  <2>1. entries = durable \cup {worker.epoch} /\ worker.epoch \notin durable
    BY <1>1, <1>2 DEF Stored
  <2>. QED
    BY <1>5, <2>1
<1>8. Stored'
  BY <1>1, <1>2, <1>3, <1>4, <1>6, <1>7 DEF Stored, NoFalseQuarantine, Epoch, Writing
<1>9. Requests' /\ Catalogued'
  BY <1>1, <1>3, <1>7, RequestsKept, CatalogSame
<1>10. Locks'
  BY <1>1, <1>2, <1>3, <1>6 DEF Locks, Holding, Writing, Nobody
<1>. QED
  BY <1>8, <1>9, <1>10 DEF Sound

\* The writer evicts to make room.
LEMMA SoundReclaim ==
  ASSUME Sound, Reclaim
  PROVE  Sound'
<1>1. Stored /\ Requests /\ Locks /\ Catalogued
  BY DEF Sound
<1>2. worker.st = "full" /\ worker.st \notin Writing
      /\ UNCHANGED <<reclamation, req, slot>>
  BY DEF Reclaim, Writing
<1>3. ASSUME NEW x \in {"job", "failed"}, At(x)
      PROVE  /\ worker' \in WorkerType /\ worker'.st = x /\ worker'.id \in Ckpt
             /\ worker'.st \notin Writing
  BY <1>1, <1>2, <1>3, AtIs DEF Writing
<1>4. CASE Cardinality(Deps[worker.id]) > Capacity
  <2>1. At("failed") /\ UNCHANGED <<store, catalog>>
    BY <1>4 DEF Reclaim
  <2>2. Stored' /\ Requests' /\ Catalogued'
    BY <1>1, <1>2, <1>3, <2>1, StoredSame, RequestsSame, CatalogSame DEF store
  <2>3. Locks'
    BY <1>1, <1>2, <1>3, <2>1 DEF Locks, Holding, Writing, store
  <2>. QED
    BY <2>2, <2>3 DEF Sound
<1>5. CASE ~(Cardinality(Deps[worker.id]) > Capacity)
  <2>1. io = Nobody
    BY <1>1, <1>2, <1>5 DEF Reclaim, Joined, Locks, Holding, Writing
  <2>2. /\ EvictOne /\ UNCHANGED <<io, pub, quarantined>>
        /\ At(IF Victims.retired # {} THEN "job" ELSE "failed")
    BY <1>5, <2>1 DEF Reclaim
  <2>3. PICK x \in {"job", "failed"} : At(x)
    BY <2>2
  <2>4. PICK E, out : Retired(E) /\ Erased(out, Reconciled) /\ E = Victims.retired
    BY <2>2 DEF EvictOne
  <2>5. E \subseteq entries /\ \A e \in E : ~Pinned(e)
    BY <2>4 DEF Victims
  <2>6. Stored' /\ Requests'
    BY <1>1, <1>2, <1>3, <2>2, <2>3, <2>4, <2>5, RetiredKeeps
  <2>7. Catalogued'
    BY <1>1, <2>2, <2>4, ErasedKeeps
  <2>8. Locks'
    BY <1>1, <1>2, <1>3, <2>2, <2>3 DEF Locks, Holding, Writing
  <2>. QED
    BY <2>6, <2>7, <2>8 DEF Sound
<1>. QED
  BY <1>4, <1>5

\* What an ID leads to.
LEMMA FoundIs ==
  ASSUME Stored, NEW c, Found(c) # None
  PROVE  Found(c) \in durable /\ Found(c) \in Epoch /\ pub[Found(c)] = c
<1>1. \E e \in durable : pub[e] = c /\ Readable(e)
  BY DEF Found
<1>2. Found(c) \in durable /\ pub[Found(c)] = c
  BY <1>1 DEF Found
<1>. QED
  BY <1>2 DEF Stored

\* The writer takes the mutex, or settles a failed write.
LEMMA SoundWorkerQuiet ==
  ASSUME Sound, LockStore \/ SettleFailed
  PROVE  Sound'
<1>1. Stored /\ Requests /\ Locks /\ Catalogued
  BY DEF Sound
<1>2. /\ UNCHANGED <<pub, entries, durable, quarantined, file, suspect, catalog,
                     reclamation, req, slot>>
      /\ worker.st \notin Writing
  BY DEF LockStore, SettleFailed, store, Writing
<1>3. Locks' /\ worker'.st \notin Writing
  <2>1. CASE LockStore
    <3>1. worker' \in WorkerType /\ worker'.st = "locked" /\ worker'.id \in Ckpt
      BY <1>1, <2>1, AtIs DEF LockStore, Holding
    <3>. QED
      BY <1>1, <2>1, <3>1 DEF Locks, LockStore, Holding, Writing, Nobody
  <2>2. CASE SettleFailed
    BY <1>1, <2>2, RestingIs DEF Locks, SettleFailed, Holding, Writing, store
  <2>. QED
    BY <2>1, <2>2
<1>4. Stored' /\ Requests' /\ Catalogued'
  BY <1>1, <1>2, <1>3, StoredSame, RequestsSame, CatalogSame
<1>. QED
  BY <1>3, <1>4 DEF Sound

\* Tracking a checkpoint keeps the catalog, and loses no copy in RAM but one
\* bound to a condemned publication.
LEMMA TrackKeeps ==
  ASSUME Stored, Catalogued, NEW c, NEW memory, Track(c, memory), pub' = pub
  PROVE  /\ Catalogued'
         /\ \A d \in Ckpt : index[d].ram /\ ~index'[d].ram =>
              index[d].disk \in quarantined
<1>1. PICK e : e = Found(c)
  OBVIOUS
<1>2. CASE e = None \/ e \in Records
  <2>1. UNCHANGED catalog
    BY <1>1, <1>2 DEF Track
  <2>2. index' = index
    BY <2>1 DEF catalog
  <2>. QED
    BY <2>1, <2>2, CatalogSame
<1>3. CASE ~(e = None \/ e \in Records)
  <2>1. PICK old : old = {x \in Records : pub[x] = c /\ x # e}
    OBVIOUS
  <2>2. /\ index' = RemoveDurable(index, old, old \cap (invalid \cup quarantined))
        /\ lru' = (IF memory THEN Append(Without(old), e) ELSE Without(old))
        /\ invalid' = invalid \ old
    BY <1>1, <1>3, <2>1 DEF Track
  <2>3. /\ index' \in [Ckpt -> [ram : BOOLEAN, disk : Nat]]
        /\ \A d \in Ckpt : index'[d].disk # None =>
             index'[d].disk = index[d].disk /\ index[d].disk \notin old
        /\ \A d \in Ckpt : index[d].ram /\ ~index'[d].ram =>
             index[d].disk # None /\ index[d].disk \in old \cap (invalid \cup quarantined)
    BY <2>2, RemoveDurableIs DEF Catalogued
  <2>4. e \in Epoch /\ e \in Nat
    BY <1>1, <1>3, FoundIs DEF Epoch
  <2>5. PICK t : t = Without(old)
    OBVIOUS
  <2>6. t \in Seq(Nat) /\ ToSet(t) = Records \ old
    BY <2>5, WithoutIs
  <2>7. lru' \in Seq(Nat) /\ Records' \subseteq (Records \ old) \cup {e}
        /\ Records \ old \subseteq Records'
    <3>1. CASE ~memory
      <4>1. lru' = t
        BY <2>2, <2>5, <3>1
      <4>2. Records' = ToSet(t)
        BY <4>1 DEF Records
      <4>. QED
        BY <2>6, <4>1, <4>2
    <3>2. CASE memory
      <4>1. lru' = Append(t, e)
        BY <2>2, <2>5, <3>2
      <4>2. /\ Append(t, e) \in Seq(Nat) /\ Len(Append(t, e)) = Len(t) + 1
            /\ Len(t) \in Nat
            /\ \A i \in 1 .. Len(t) : Append(t, e)[i] = t[i]
            /\ Append(t, e)[Len(t) + 1] = e
        BY <2>4, <2>6
      <4>3. ToSet(Append(t, e)) = ToSet(t) \cup {e}
        BY <2>6, <4>2 DEF ToSet
      <4>4. Records' = ToSet(Append(t, e))
        BY <4>1 DEF Records
      <4>. QED
        BY <2>6, <4>1, <4>2, <4>3, <4>4
    <3>. QED
      BY <3>1, <3>2
  <2>8. Catalogued'
    BY <2>2, <2>3, <2>4, <2>7 DEF Catalogued, Epoch
  <2>9. \A d \in Ckpt : index[d].ram /\ ~index'[d].ram => index[d].disk \in quarantined
    BY <2>3 DEF Catalogued
  <2>. QED
    BY <2>8, <2>9
<1>. QED
  BY <1>2, <1>3

\* A successful write is tracked.
LEMMA SoundSettleTrack ==
  ASSUME Sound, SettleTrack
  PROVE  Sound'
<1>1. Stored /\ Requests /\ Locks /\ Catalogued
  BY DEF Sound
<1>2. PICK memory \in BOOLEAN :
        /\ Track(worker.id, memory)
        /\ At("tracked") \/ worker' = Resting
  BY DEF SettleTrack
<1>3. worker.st = "done" /\ worker.st \notin Writing
      /\ UNCHANGED <<io, pub, entries, durable, quarantined, file, suspect, reclamation, req,
                     slot>>
  BY DEF SettleTrack, store, Writing
<1>4. /\ worker' \in WorkerType /\ worker'.st \in {"tracked", "idle"}
      /\ worker'.st # "idle" => worker'.id \in Ckpt
  <2>1. CASE At("tracked")
    BY <1>1, <1>3, <2>1, AtIs
  <2>2. CASE worker' = Resting
    BY <2>2, RestingIs
  <2>. QED
    BY <1>2, <2>1, <2>2
<1>5. worker'.st \notin Writing
  BY <1>4 DEF Writing
<1>6. Locks'
  BY <1>1, <1>3, <1>4 DEF Locks, Holding, Writing
<1>7. Catalogued'
  BY <1>1, <1>2, <1>3, TrackKeeps
<1>8. Stored' /\ Requests'
  BY <1>1, <1>3, <1>5, StoredSame, RequestsSame
<1>. QED
  BY <1>6, <1>7, <1>8 DEF Sound

\* The tracked publication is attached to the index.
LEMMA SoundSettleAttach ==
  ASSUME Sound, SettleAttach
  PROVE  Sound'
<1>1. Stored /\ Requests /\ Locks /\ Catalogued
  BY DEF Sound
<1>2. worker.st = "tracked" /\ worker.st \notin Writing /\ worker' = Resting
      /\ UNCHANGED <<io, pub, entries, durable, quarantined, file, suspect, lru, invalid,
                     reclamation, req, slot>>
  BY DEF SettleAttach, store, Writing
<1>3. worker' \in WorkerType /\ worker'.st = "idle" /\ worker'.st \notin Writing
  BY <1>2, RestingIs DEF Writing
<1>4. Locks'
  BY <1>1, <1>2, <1>3 DEF Locks, Holding, Writing
<1>5. Stored' /\ Requests'
  BY <1>1, <1>2, <1>3, StoredSame, RequestsSame
<1>6. Catalogued'
  <2>1. CASE index' = index
    BY <1>1, <1>2, <2>1, CatalogSame DEF catalog
  <2>2. CASE index' # index
    <3>1. PICK c \in Ckpt : c = worker.id
      BY <1>1, <1>2 DEF Locks
    <3>2. PICK e : e = Find(c)
      OBVIOUS
    <3>3. e # None /\ index' = [index EXCEPT ![c] = [index[c] EXCEPT !.disk = e]]
      BY <2>2, <3>1, <3>2 DEF SettleAttach
    <3>4. e \in Records \ invalid /\ pub[e] = c
      BY <3>2, <3>3 DEF Find
    <3>5. e \in Nat /\ Records \subseteq Epoch
      BY <1>1, <3>4 DEF Catalogued, Epoch
    <3>6. PICK x : x = [index[c] EXCEPT !.disk = e]
      OBVIOUS
    <3>7. x \in [ram : BOOLEAN, disk : Nat] /\ x.disk = e
      BY <1>1, <3>5, <3>6 DEF Catalogued
    <3>8. /\ index' \in [Ckpt -> [ram : BOOLEAN, disk : Nat]] /\ index'[c] = x
          /\ \A d \in Ckpt \ {c} : index'[d] = index[d]
      BY <1>1, <3>3, <3>6, <3>7 DEF Catalogued
    <3>9. Records' = Records /\ Epoch' = Epoch
      BY <1>2 DEF Records, Epoch
    <3>. QED
      BY <1>1, <1>2, <3>4, <3>7, <3>8, <3>9 DEF Catalogued
  <2>. QED
    BY <2>1, <2>2
<1>. QED
  BY <1>4, <1>5, <1>6 DEF Sound

-----------------------------------------------------------------------------
(* The requests *)

\* An idle request and an empty slot.
LEMMA FinishedIs ==
  /\ Finished \in RequestType /\ Finished.st = "idle" /\ Finished.cands = <<>>
  /\ Finished.failed = {}
  /\ EmptySlot \in SlotType /\ EmptySlot.st = "empty" /\ EmptySlot.from = None
  /\ EmptySlot.rows = {} /\ None \in Nat
BY DEF Finished, EmptySlot, RequestType, SlotType, None

\* What the invariant says of one request.
LEMMA RequestIs ==
  ASSUME Requests, NEW r \in Request
  PROVE  /\ req[r] \in RequestType /\ slot[r] \in SlotType
         /\ Pins(req[r]) /\ Failed(req[r]) /\ Loads(req[r], slot[r])
         /\ slot' = slot => slot' = [slot EXCEPT ![r] = slot[r]]
         /\ req[r].st \notin {"unwind", "report"} => req[r].failed = {}
<1>1. /\ req[r] \in RequestType /\ slot[r] \in SlotType
      /\ Pins(req[r]) /\ Failed(req[r]) /\ Loads(req[r], slot[r])
  BY DEF Requests, Reading
<1>2. slot' = slot => slot' = [slot EXCEPT ![r] = slot[r]]
  BY DEF Requests
<1>3. req[r].st \notin {"unwind", "report"} => req[r].failed = {}
  BY <1>1 DEF Failed
<1>. QED
  BY <1>1, <1>2, <1>3

\* A request starts to wait, to serve, or anew.
LEMMA ReadingRests ==
  ASSUME NEW x \in {"idle", "serving"}, NEW q, q = [Finished EXCEPT !.st = x],
         NEW s, s = EmptySlot \/ (x = "serving" /\ (s.st = "ready" =>
                                     s.from \in {None} \cup Epoch
                                     /\ s.rows = Verified(s.from)))
  PROVE  q \in RequestType /\ Reading(q, s)
<1>1. q \in RequestType /\ q.st = x /\ q.cands = <<>> /\ q.failed = {}
  BY FinishedIs DEF RequestType, Finished, None
<1>2. Pins(q) /\ Failed(q)
  BY <1>1 DEF Pins, Failed
<1>3. Loads(q, s)
  BY <1>1, FinishedIs DEF Loads
<1>. QED
  BY <1>1, <1>2, <1>3 DEF Reading

\* What a request does without the store and the catalog.
Reads(r) == /\ UNCHANGED <<io, pub, entries, durable, file, worker, reclamation>>
            /\ suspect \subseteq suspect'

\* A request acts, and keeps what it reads.
LEMMA SoundActs ==
  ASSUME Sound, NEW r \in Request, Reads(r), Stored', Catalogued',
         NEW q \in RequestType, NEW s \in SlotType,
         req' = [req EXCEPT ![r] = q], slot' = [slot EXCEPT ![r] = s],
         Pins(q), Failed(q), Loads(q, s)
  PROVE  Sound'
<1>1. Requests'
  BY RequestActs DEF Sound, Reads, Reading
<1>2. Locks'
  BY DEF Sound, Locks, Reads
<1>. QED
  BY <1>1, <1>2 DEF Sound

\* The lookup pins what it offers.
LEMMA SoundAcquire ==
  ASSUME Sound, NEW r \in Request, Acquire(r)
  PROVE  Sound'
<1>1. Stored /\ Requests /\ Locks /\ Catalogued
  BY DEF Sound
<1>2. PICK ix : ix = Reconciled
  OBVIOUS
<1>3. PICK ids \in Ascending(Offered(ix)) :
        req' = [req EXCEPT ![r].st = "choose",
                  ![r].cands = [i \in DOMAIN ids |->
                                  Candidate(ix, ids[Len(ids) + 1 - i])]]
  <2>. DEFINE Chosen(x) ==
         \E ids \in Ascending(Offered(x)) :
           req' = [req EXCEPT ![r].st = "choose",
                     ![r].cands = [i \in DOMAIN ids |->
                                     Candidate(x, ids[Len(ids) + 1 - i])]]
  <2>1. Chosen(Reconciled)
    BY Zenon DEF Acquire
  <2>2. Chosen(ix)
    <3>. HIDE DEF Chosen
    <3>. QED
      BY <1>2, <2>1, Zenon
  <2>. QED
    BY <2>2
<1>4. /\ req[r].st = "idle" /\ Reads(r) /\ UNCHANGED <<pub, lru, quarantined, suspect, slot>>
      /\ invalid' = invalid \cup Condemned /\ index' = Reconciled
  BY DEF Acquire, store, Reads
<1>5. Catalogued' /\ Stored'
  BY <1>1, <1>4, CatalogReconciled, StoredSame DEF Reads
<1>6. /\ ix \in [Ckpt -> [ram : BOOLEAN, disk : Nat]]
      /\ \A c \in Ckpt : ix[c].disk # None => ix[c].disk = index[c].disk
  BY <1>1, <1>2, ReconciledIs
<1>7. Offered(ix) \in SUBSET Ckpt
  BY DEF Offered
<1>8. /\ ids \in Seq(Offered(ix)) /\ DOMAIN ids = 1 .. Len(ids) /\ Len(ids) \in Nat
  BY <1>3, <1>7, AscendingIs
<1>9. PICK cands : cands = [i \in DOMAIN ids |-> Candidate(ix, ids[Len(ids) + 1 - i])]
  OBVIOUS
<1>10. ASSUME NEW c \in Offered(ix)
       PROVE  /\ Candidate(ix, c) \in [id : Ckpt, disk : Nat]
              /\ Candidate(ix, c).disk # None =>
                   Candidate(ix, c).disk \in durable /\ pub[Candidate(ix, c).disk] = c
              /\ Candidate(ix, c).id = c
  <2>1. c \in Ckpt /\ ix[c] \in [ram : BOOLEAN, disk : Nat]
    BY <1>6, <1>7
  <2>2. /\ Candidate(ix, c).id = c /\ Candidate(ix, c) \in [id : Ckpt, disk : Nat]
        /\ Candidate(ix, c).disk = IF ix[c].ram THEN None ELSE ix[c].disk
    BY <2>1 DEF Candidate, None
  <2>3. ~ix[c].ram => ix[c].disk \in durable
    BY DEF Offered, Readable
  <2>4. ix[c].disk # None => pub[ix[c].disk] = c
    BY <1>1, <1>6, <2>1 DEF Catalogued
  <2>. QED
    BY <2>2, <2>3, <2>4
<1>11. \A i \in 1 .. Len(ids) : Len(ids) + 1 - i \in 1 .. Len(ids)
  BY <1>8
<1>12. \A i \in 1 .. Len(ids) : ids[Len(ids) + 1 - i] \in Offered(ix)
  BY <1>8, <1>11
<1>13. /\ DOMAIN cands = 1 .. Len(ids)
       /\ cands = [i \in 1 .. Len(ids) |-> cands[i]]
       /\ \A i \in 1 .. Len(ids) : cands[i] = Candidate(ix, ids[Len(ids) + 1 - i])
  BY <1>8, <1>9
<1>14. /\ cands \in Seq([id : Ckpt, disk : Nat])
       /\ \A i \in DOMAIN cands : cands[i].disk # None =>
            cands[i].disk \in durable /\ pub[cands[i].disk] = cands[i].id
  <2>1. ASSUME NEW i \in 1 .. Len(ids)
        PROVE  /\ cands[i] \in [id : Ckpt, disk : Nat]
               /\ cands[i].disk # None =>
                    cands[i].disk \in durable /\ pub[cands[i].disk] = cands[i].id
    <3>1. PICK c \in Offered(ix) : c = ids[Len(ids) + 1 - i]
      BY <1>12
    <3>2. cands[i] = Candidate(ix, c)
      BY <1>13, <3>1
    <3>. QED
      BY <1>10, <3>2
  <2>2. PICK n \in Nat : n = Len(ids)
    BY <1>8
  <2>3. cands \in [1 .. n -> [id : Ckpt, disk : Nat]]
    BY <1>13, <2>1, <2>2
  <2>. QED
    BY <1>13, <2>1, <2>3
<1>15. PICK q : q = [req[r] EXCEPT !.st = "choose", !.cands = cands]
  OBVIOUS
<1>16. req' = [req EXCEPT ![r] = q]
  BY <1>3, <1>9, <1>15, Zenon
<1>17. /\ q \in RequestType /\ q.st = "choose" /\ q.cands = cands /\ q.failed = {}
  BY <1>1, <1>4, <1>14, <1>15, RequestIs DEF RequestType
<1>18. Pins(q) /\ Failed(q) /\ Loads(q, slot[r])
  <2>1. slot[r] = EmptySlot
    BY <1>1, <1>4, RequestIs DEF Loads
  <2>. QED
    BY <1>14, <1>17, <2>1, FinishedIs DEF Pins, Failed, Loads
<1>. QED
  BY <1>1, <1>4, <1>5, <1>16, <1>17, <1>18, RequestIs, SoundActs

\* The store and the catalog are left alone.
LEMMA OnlyReads ==
  ASSUME Sound, NEW r \in Request, UNCHANGED <<store, catalog, worker, reclamation>>
  PROVE  Reads(r) /\ Stored' /\ Catalogued'
BY StoredSame, CatalogSame DEF Sound, store, catalog, Reads

\* A copy in RAM is restored.
LEMMA SoundRestoreRam ==
  ASSUME Sound, NEW r \in Request, RestoreRam(r)
  PROVE  Sound'
<1>1. Stored /\ Requests /\ Locks /\ Catalogued
  BY DEF Sound
<1>2. Reads(r) /\ Stored' /\ Catalogued'
  BY OnlyReads DEF RestoreRam
<1>3. /\ req[r].st = "choose" /\ slot[r] = EmptySlot
      /\ req[r] \in RequestType /\ Pins(req[r]) /\ req[r].failed = {}
  BY <1>1, RequestIs DEF RestoreRam, Pending, Loads
<1>4. CASE slot' = [slot EXCEPT ![r].st = "ready"] /\ req' = [req EXCEPT ![r].st = "restored"]
  <2>1. PICK q, s : q = [req[r] EXCEPT !.st = "restored"] /\ s = [slot[r] EXCEPT !.st = "ready"]
    OBVIOUS
  <2>2. /\ q \in RequestType /\ q.st = "restored" /\ q.cands = req[r].cands
        /\ q.failed = {}
    BY <1>3, <2>1 DEF RequestType
  <2>3. /\ s \in SlotType /\ s.st = "ready" /\ s.from = None /\ s.rows = {}
    BY <1>3, <2>1 DEF EmptySlot, SlotType, None
  <2>4. req' = [req EXCEPT ![r] = q] /\ slot' = [slot EXCEPT ![r] = s]
    BY <1>4, <2>1, Zenon
  <2>5. Verified(None) = {}
    BY DEF Verified
  <2>6. Pins(q) /\ Failed(q) /\ Loads(q, s)
    BY <1>3, <2>2, <2>3, <2>5 DEF Pins, Failed, Loads
  <2>. QED
    BY <1>2, <2>2, <2>3, <2>4, <2>6, SoundActs
<1>5. CASE slot' = [slot EXCEPT ![r] = EmptySlot] /\ req' = [req EXCEPT ![r].at = @ + 1]
  <2>1. PICK q : q = [req[r] EXCEPT !.at = req[r].at + 1]
    OBVIOUS
  <2>2. /\ q \in RequestType /\ q.st = "choose" /\ q.cands = req[r].cands
        /\ q.failed = {}
    BY <1>3, <2>1 DEF RequestType
  <2>3. req' = [req EXCEPT ![r] = q]
    BY <1>5, <2>1, Zenon
  <2>4. Pins(q) /\ Failed(q) /\ Loads(q, EmptySlot)
    BY <1>3, <2>2, FinishedIs DEF Pins, Failed, Loads
  <2>. QED
    BY <1>2, <1>5, <2>2, <2>3, <2>4, FinishedIs, SoundActs
<1>. QED
  BY <1>4, <1>5 DEF RestoreRam

\* What is opened by its ID is the candidate that was pinned.
LEMMA SoundBeginRestore ==
  ASSUME Sound, NEW r \in Request, BeginRestore(r)
  PROVE  Sound'
<1>1. Stored /\ Requests /\ Locks /\ Catalogued
  BY DEF Sound
<1>2. Reads(r) /\ Stored' /\ Catalogued'
  BY OnlyReads DEF BeginRestore
<1>3. /\ req[r].st = "choose" /\ slot[r] = EmptySlot
      /\ req[r] \in RequestType /\ Pins(req[r]) /\ req[r].failed = {}
  BY <1>1, RequestIs DEF BeginRestore, Pending, Loads
<1>4. Tries(req[r])
  <2>1. req[r].at \in Nat \ {0} /\ req[r].cands \in Seq([id : Ckpt, disk : Nat])
    BY <1>3 DEF RequestType
  <2>2. req[r].at <= Len(req[r].cands) /\ Current(r).disk # None
    BY DEF BeginRestore, Pending
  <2>. QED
    BY <2>1, <2>2 DEF Tries, Current
<1>5. PICK d, c : d = req[r].cands[req[r].at].disk /\ c = Current(r).id
  OBVIOUS
<1>6. d \in durable /\ pub[d] = c /\ d # None /\ d \in Nat
  <2>1. req[r].at \in DOMAIN req[r].cands /\ d # None
    BY <1>4, <1>5 DEF Tries
  <2>2. c = req[r].cands[req[r].at].id
    BY <1>5 DEF Current
  <2>3. d \in durable /\ pub[d] = c
    BY <1>3, <1>5, <2>1, <2>2 DEF Pins
  <2>4. durable \subseteq Nat
    BY <1>1 DEF Stored, Epoch
  <2>. QED
    BY <2>1, <2>3, <2>4
<1>7. PICK e : e = Found(c)
  OBVIOUS
<1>8. CASE /\ e # None
           /\ req' = [req EXCEPT ![r].st = "load", ![r].open = e]
           /\ slot' = [slot EXCEPT ![r].st = "loading"]
  <2>1. e = d
    <3>1. e \in durable /\ pub[e] = c
      BY <1>1, <1>7, <1>8, FoundIs
    <3>. QED
      BY <1>1, <1>6, <3>1 DEF Stored
  <2>2. PICK q, s : /\ q = [req[r] EXCEPT !.st = "load", !.open = e]
                    /\ s = [slot[r] EXCEPT !.st = "loading"]
    OBVIOUS
  <2>3. /\ q \in RequestType /\ q.st = "load" /\ q.cands = req[r].cands
        /\ q.failed = {} /\ q.open = d /\ q.at = req[r].at
    BY <1>3, <1>6, <2>1, <2>2 DEF RequestType
  <2>4. /\ s \in SlotType /\ s.st = "loading" /\ s.rows = {}
    BY <1>3, <2>2 DEF EmptySlot, SlotType, None
  <2>5. req' = [req EXCEPT ![r] = q] /\ slot' = [slot EXCEPT ![r] = s]
    BY <1>8, <2>2, Zenon
  <2>6. Pins(q) /\ Failed(q) /\ Loads(q, s)
    BY <1>3, <1>4, <1>5, <2>3, <2>4 DEF Pins, Failed, Loads, Tries
  <2>. QED
    BY <1>2, <2>3, <2>4, <2>5, <2>6, SoundActs
<1>9. CASE req' = [req EXCEPT ![r].st = "unwind"] /\ slot' = slot
  <2>1. PICK q : q = [req[r] EXCEPT !.st = "unwind"]
    OBVIOUS
  <2>2. /\ q \in RequestType /\ q.st = "unwind" /\ q.cands = req[r].cands
        /\ q.failed = {}
    BY <1>3, <2>1 DEF RequestType
  <2>3. req' = [req EXCEPT ![r] = q]
    BY <1>9, <2>1, Zenon
  <2>4. Pins(q) /\ Failed(q) /\ Loads(q, slot[r])
    BY <1>3, <2>2, FinishedIs DEF Pins, Failed, Loads
  <2>. QED
    BY <1>1, <1>2, <1>9, <2>2, <2>3, <2>4, RequestIs, SoundActs
<1>. QED
  BY <1>5, <1>7, <1>8, <1>9 DEF BeginRestore

\* A payload is read, or fails its check and is suspect from then on.
LEMMA SoundReadPayload ==
  ASSUME Sound, NEW r \in Request, NEW f \in File, ReadPayload(r, f)
  PROVE  Sound'
<1>1. Stored /\ Requests /\ Locks /\ Catalogued
  BY DEF Sound
<1>2. /\ UNCHANGED <<io, pub, entries, durable, file, catalog, worker, reclamation>>
      /\ Reads(r) /\ Catalogued'
  BY <1>1, CatalogSame DEF ReadPayload, Reads, DependencyFailure
<1>3. /\ req[r].st = "load" /\ f \in Needs(req[r].open)
      /\ req[r] \in RequestType /\ Pins(req[r]) /\ req[r].failed = {}
      /\ slot[r] \in SlotType /\ Tries(req[r])
      /\ req[r].open = req[r].cands[req[r].at].disk
      /\ slot[r].st = "loading" /\ slot[r].rows \subseteq Verified(req[r].open)
  BY <1>1, RequestIs DEF ReadPayload, Loads
<1>4. req[r].open \in durable /\ req[r].open # None
  BY <1>3 DEF Pins, Tries
<1>5. file[f] \in {"good", "bad"}
  BY <1>1, <1>3, <1>4 DEF Stored
<1>6. PICK s : s = [slot[r] EXCEPT !.rows = slot[r].rows \cup {<<f, file[f]>>}]
  OBVIOUS
<1>7. slot' = [slot EXCEPT ![r] = s]
  <2>1. slot' = [slot EXCEPT ![r].rows = @ \cup {<<f, file[f]>>}]
    BY DEF ReadPayload
  <2>. QED
    BY <1>6, <2>1, Zenon
<1>8. /\ s \in SlotType /\ s.st = "loading"
      /\ s.rows = slot[r].rows \cup {<<f, file[f]>>}
  BY <1>3, <1>5, <1>6 DEF SlotType
<1>9. CASE file[f] = "good" /\ UNCHANGED <<quarantined, suspect, req>>
  <2>1. quarantined' = quarantined /\ suspect' = suspect /\ req' = req
    BY <1>9
  <2>2. Stored'
    BY <1>1, <1>2, <2>1, StoredSame
  <2>3. s.rows \subseteq Verified(req[r].open)
    BY <1>3, <1>4, <1>8, <1>9 DEF Verified
  <2>4. Pins(req[r]) /\ Failed(req[r]) /\ Loads(req[r], s)
    BY <1>3, <1>8, <2>3 DEF Failed, Loads
  <2>5. req' = [req EXCEPT ![r] = req[r]]
    BY <1>1, <2>1 DEF Requests
  <2>. QED
    BY <1>2, <1>3, <1>7, <1>8, <2>2, <2>4, <2>5, SoundActs
<1>10. CASE /\ DependencyFailure(f)
            /\ req' = [req EXCEPT ![r].st = "unwind", ![r].failed = {f}]
  <2>1. /\ quarantined' = quarantined \cup Quarantine({f}) /\ f \in suspect'
        /\ suspect' = suspect \cup {f}
        /\ req' = [req EXCEPT ![r].st = "unwind", ![r].failed = {f}]
    BY <1>10 DEF DependencyFailure
  <2>2. Stored'
    <3>1. /\ quarantined' \subseteq Epoch
          /\ \A e \in quarantined' \ quarantined : \E g \in Needs(e) : g \in suspect'
          /\ suspect \subseteq suspect'
      BY <1>1, <2>1 DEF Stored, Quarantine
    <3>. QED
      BY <1>1, <1>2, <3>1, QuarantineKeeps
  <2>3. PICK q : q = [req[r] EXCEPT !.st = "unwind", !.failed = {f}]
    OBVIOUS
  <2>4. /\ q \in RequestType /\ q.st = "unwind" /\ q.cands = req[r].cands
        /\ q.failed = {f} /\ q.at = req[r].at
    BY <1>3, <2>3 DEF RequestType
  <2>5. req' = [req EXCEPT ![r] = q]
    BY <2>1, <2>3, Zenon
  <2>6. Reading(q, s)'
    <3>1. Pins(q)' /\ Loads(q, s)'
      BY <1>2, <1>3, <1>8, <2>4 DEF Pins, Loads
    <3>2. Failed(q)'
      BY <1>2, <1>3, <2>1, <2>4 DEF Failed, Tries, Needs
    <3>. QED
      BY <3>1, <3>2 DEF Reading
  <2>7. Requests'
    BY <1>1, <1>2, <1>7, <1>8, <2>4, <2>5, <2>6, RequestActs DEF Reads
  <2>8. Locks'
    BY <1>1, <1>2 DEF Locks
  <2>. QED
    BY <1>2, <2>2, <2>7, <2>8 DEF Sound
<1>. QED
  BY <1>9, <1>10 DEF ReadPayload

\* A restore fails.
LEMMA SoundFailRestore ==
  ASSUME Sound, NEW r \in Request, FailRestore(r)
  PROVE  Sound'
<1>1. Stored /\ Requests /\ Locks /\ Catalogued
  BY DEF Sound
<1>2. Reads(r) /\ Stored' /\ Catalogued' /\ slot' = slot
  BY OnlyReads DEF FailRestore
<1>3. /\ req[r].st = "load" /\ req' = [req EXCEPT ![r].st = "unwind"]
      /\ req[r] \in RequestType /\ slot[r] \in SlotType /\ Pins(req[r])
      /\ req[r].failed = {} /\ slot[r].st = "loading"
      /\ slot' = [slot EXCEPT ![r] = slot[r]]
  BY <1>1, <1>2, RequestIs DEF FailRestore, Loads
<1>4. PICK q : q = [req[r] EXCEPT !.st = "unwind"]
  OBVIOUS
<1>5. /\ q \in RequestType /\ q.st = "unwind" /\ q.cands = req[r].cands
      /\ q.failed = {}
  BY <1>3, <1>4 DEF RequestType
<1>6. req' = [req EXCEPT ![r] = q]
  BY <1>3, <1>4, Zenon
<1>7. Pins(q) /\ Failed(q) /\ Loads(q, slot[r])
  BY <1>3, <1>5 DEF Pins, Failed, Loads
<1>. QED
  BY <1>2, <1>3, <1>5, <1>6, <1>7, SoundActs

\* All payloads are loaded, and each was verified.
LEMMA SoundValidate ==
  ASSUME Sound, NEW r \in Request, Validate(r)
  PROVE  Sound'
<1>1. Stored /\ Requests /\ Locks /\ Catalogued
  BY DEF Sound
<1>2. Reads(r) /\ Stored' /\ Catalogued'
  BY OnlyReads DEF Validate
<1>3. /\ req[r].st = "load" /\ req[r] \in RequestType /\ slot[r] \in SlotType
      /\ Pins(req[r]) /\ req[r].failed = {} /\ Tries(req[r])
      /\ req[r].open = req[r].cands[req[r].at].disk
      /\ slot[r].rows \subseteq Verified(req[r].open)
      /\ Loaded(r) = Needs(req[r].open)
  BY <1>1, RequestIs DEF Validate, Loads
<1>4. req[r].open \in Epoch /\ req[r].open # None /\ req[r].open \in Nat
  <2>1. req[r].at \in DOMAIN req[r].cands /\ req[r].open # None
    BY <1>3 DEF Tries
  <2>2. req[r].open \in durable
    BY <1>3, <2>1 DEF Pins
  <2>3. durable \subseteq Epoch /\ Epoch \subseteq Nat
    BY <1>1 DEF Stored, Epoch
  <2>. QED
    BY <2>1, <2>2, <2>3
<1>5. slot[r].rows = Verified(req[r].open)
  <2>1. PICK rows : rows = slot[r].rows
    OBVIOUS
  <2>2. PICK N : N = Needs(req[r].open)
    OBVIOUS
  <2>3. Verified(req[r].open) = {<<f, "good">> : f \in N}
    BY <1>4, <2>2 DEF Verified
  <2>4. {row[1] : row \in rows} = N
    BY <1>3, <2>1, <2>2 DEF Loaded
  <2>5. rows \subseteq {<<f, "good">> : f \in N}
    BY <1>3, <2>1, <2>3
  <2>6. ASSUME NEW f \in N PROVE <<f, "good">> \in rows
    <3>1. PICK row \in rows : row[1] = f
      BY <2>4
    <3>2. row = <<f, "good">>
      BY <2>5, <3>1
    <3>. QED
      BY <3>1, <3>2
  <2>7. rows = {<<f, "good">> : f \in N}
    BY <2>5, <2>6
  <2>. QED
    BY <2>1, <2>3, <2>7
<1>6. PICK q, s : /\ q = [req[r] EXCEPT !.st = "touch"]
                  /\ s = [slot[r] EXCEPT !.st = "ready", !.from = req[r].open]
  OBVIOUS
<1>7. req' = [req EXCEPT ![r] = q] /\ slot' = [slot EXCEPT ![r] = s]
  <2>1. /\ slot' = [slot EXCEPT ![r].st = "ready", ![r].from = req[r].open]
        /\ req' = [req EXCEPT ![r].st = "touch"]
    BY DEF Validate
  <2>. QED
    BY <1>6, <2>1, Zenon
<1>8. /\ q \in RequestType /\ q.st = "touch" /\ q.cands = req[r].cands
      /\ q.failed = {} /\ q.at = req[r].at
  BY <1>3, <1>6 DEF RequestType
<1>9. /\ s \in SlotType /\ s.st = "ready" /\ s.from = req[r].open
      /\ s.rows = Verified(req[r].open)
  BY <1>3, <1>4, <1>5, <1>6 DEF SlotType
<1>10. Pins(q) /\ Failed(q) /\ Loads(q, s)
  BY <1>3, <1>4, <1>8, <1>9 DEF Pins, Failed, Loads, Tries
<1>. QED
  BY <1>2, <1>7, <1>8, <1>9, <1>10, SoundActs

\* The slot is emptied, and what failed is kept for the report.
LEMMA SoundUnwind ==
  ASSUME Sound, NEW r \in Request, Unwind(r)
  PROVE  Sound'
<1>1. Stored /\ Requests /\ Locks /\ Catalogued
  BY DEF Sound
<1>2. Reads(r) /\ Stored' /\ Catalogued'
  BY OnlyReads DEF Unwind
<1>3. req[r] \in RequestType /\ Pins(req[r]) /\ Failed(req[r])
  BY <1>1, RequestIs
<1>4. PICK q : q = IF req[r].failed # {}
                   THEN [req[r] EXCEPT !.st = "report", !.open = None]
                   ELSE [req[r] EXCEPT !.st = "choose", !.open = None, !.at = req[r].at + 1]
  OBVIOUS
<1>8. req[r].at + 1 \in Nat \ {0}
  BY <1>3 DEF RequestType
<1>5. req' = [req EXCEPT ![r] = q] /\ slot' = [slot EXCEPT ![r] = EmptySlot]
  <2>1. req' = [req EXCEPT
          ![r] = IF req[r].failed # {}
                 THEN [req[r] EXCEPT !.st = "report", !.open = None]
                 ELSE [req[r] EXCEPT !.st = "choose", !.open = None, !.at = req[r].at + 1]]
    BY Zenon DEF Unwind
  <2>2. slot' = [slot EXCEPT ![r] = EmptySlot]
    BY DEF Unwind
  <2>. QED
    BY <1>4, <2>1, <2>2, Zenon
<1>6. CASE req[r].failed # {}
  <2>1. /\ q \in RequestType /\ q.st = "report" /\ q.cands = req[r].cands
        /\ q.failed = req[r].failed /\ q.at = req[r].at
    BY <1>3, <1>4, <1>6 DEF RequestType, None
  <2>2. Pins(q) /\ Failed(q) /\ Loads(q, EmptySlot)
    BY <1>3, <1>6, <2>1, FinishedIs DEF Pins, Failed, Loads, Tries
  <2>. QED
    BY <1>2, <1>5, <2>1, <2>2, FinishedIs, SoundActs
<1>7. CASE req[r].failed = {}
  <2>1. /\ q \in RequestType /\ q.st = "choose" /\ q.cands = req[r].cands
        /\ q.failed = {}
    BY <1>3, <1>4, <1>7, <1>8 DEF RequestType, None
  <2>2. Pins(q) /\ Failed(q) /\ Loads(q, EmptySlot)
    BY <1>3, <2>1, FinishedIs DEF Pins, Failed, Loads
  <2>. QED
    BY <1>2, <1>5, <2>1, <2>2, FinishedIs, SoundActs
<1>. QED
  BY <1>6, <1>7

\* What is reported is still suspect, and the catalog loses only copies.
LEMMA SoundReport ==
  ASSUME Sound, NEW r \in Request, Report(r)
  PROVE  Sound'
<1>1. Stored /\ Requests /\ Locks /\ Catalogued
  BY DEF Sound
<1>2. /\ UNCHANGED <<io, pub, entries, durable, file, suspect, worker, reclamation, slot>>
      /\ Reads(r)
  BY DEF Report, Reads
<1>3. /\ req[r].st = "report" /\ req[r] \in RequestType /\ slot[r] = EmptySlot
      /\ Pins(req[r]) /\ Failed(req[r])
      /\ slot' = [slot EXCEPT ![r] = EmptySlot]
  <2>1. req[r].st = "report"
    BY DEF Report
  <2>2. slot[r] = EmptySlot
    BY <1>1, <2>1, RequestIs DEF Loads
  <2>. QED
    BY <1>1, <1>2, <2>1, <2>2, RequestIs
<1>4. PICK F : F = req[r].failed
  OBVIOUS
<1>5. \A f \in F : f \in suspect'
  BY <1>2, <1>3, <1>4 DEF Failed
<1>6. PICK hit : hit = {e \in Records : Needs(e) \cap F # {}}
  OBVIOUS
<1>7. /\ quarantined' = quarantined \cup Quarantine(F) \cup (hit \cap entries)
      /\ invalid' = invalid \cup hit
      /\ index' = RemoveDurable(index, hit, hit) /\ lru' = lru
  <2>1. Invalidate(F)
    BY <1>4 DEF Report
  <2>. QED
    BY <1>6, <2>1 DEF Invalidate
<1>8. Stored'
  <2>1. Quarantine(F) \subseteq entries
    BY DEF Quarantine
  <2>2. quarantined' \subseteq Epoch
    BY <1>1, <1>7, <2>1 DEF Stored
  <2>3. \A e \in quarantined' \ quarantined : \E f \in Needs(e) : f \in suspect'
    <3>. SUFFICES ASSUME NEW e \in quarantined' \ quarantined
                  PROVE  \E f \in Needs(e) : f \in suspect'
      OBVIOUS
    <3>1. Needs(e) \cap F # {}
      BY <1>6, <1>7 DEF Quarantine
    <3>. QED
      BY <1>5, <3>1
  <2>. QED
    BY <1>1, <1>2, <2>2, <2>3, QuarantineKeeps
<1>9. Catalogued'
  <2>1. PICK E : E = {}
    OBVIOUS
  <2>2. /\ index' \in [Ckpt -> [ram : BOOLEAN, disk : Nat]]
        /\ \A c \in Ckpt : index'[c].disk # None =>
             index'[c].disk = index[c].disk /\ index[c].disk \notin hit
    BY <1>1, <1>7, RemoveDurableIs DEF Catalogued
  <2>3. /\ pub' = pub /\ lru' = lru /\ E \cup (invalid' \ invalid) \subseteq hit \cup invalid
    BY <1>2, <1>7, <2>1
  <2>. QED
    BY <1>1, <2>1, <2>2, <2>3, CatalogLess
<1>10. PICK q : q = [req[r] EXCEPT !.st = "choose", !.failed = {}, !.at = req[r].at + 1]
  OBVIOUS
<1>11. req' = [req EXCEPT ![r] = q]
  <2>1. req' = [req EXCEPT ![r].st = "choose", ![r].failed = {}, ![r].at = req[r].at + 1]
    BY DEF Report
  <2>. QED
    BY <1>10, <2>1, Zenon
<1>12. /\ q \in RequestType /\ q.st = "choose" /\ q.cands = req[r].cands
       /\ q.failed = {}
  <2>1. req[r].at + 1 \in Nat \ {0}
    BY <1>3 DEF RequestType
  <2>. QED
    BY <1>3, <1>10, <2>1 DEF RequestType
<1>13. Pins(q) /\ Failed(q) /\ Loads(q, EmptySlot)
  BY <1>3, <1>12, FinishedIs DEF Pins, Failed, Loads
<1>. QED
  BY <1>2, <1>3, <1>8, <1>9, <1>11, <1>12, <1>13, FinishedIs, SoundActs

\* The record that was read becomes the most recent one.
LEMMA SoundTouchRestored ==
  ASSUME Sound, NEW r \in Request, TouchRestored(r)
  PROVE  Sound'
<1>1. Stored /\ Requests /\ Locks /\ Catalogued
  BY DEF Sound
<1>2. /\ UNCHANGED <<io, pub, entries, durable, quarantined, file, suspect, invalid, index,
                     worker, reclamation, slot>>
      /\ Reads(r)
  BY DEF TouchRestored, store, Reads
<1>3. PICK E : E = {e \in Records \ invalid : pub[e] = Current(r).id}
  OBVIOUS
<1>4. lru' = Without(E) \o SetToSeq(E)
  BY <1>3, Zenon DEF TouchRestored, Touch
<1>5. E \subseteq Records /\ IsFiniteSet(E) /\ E \subseteq Nat
  <2>1. PICK n \in Nat : n = Len(pub)
    BY <1>1 DEF Stored
  <2>2. E \subseteq 1 .. n
    BY <1>1, <1>3, <2>1 DEF Catalogued, Epoch
  <2>3. IsFiniteSet(1 .. n)
    BY FS_Interval
  <2>. QED
    BY <1>3, <2>2, <2>3, FS_Subset
<1>6. lru' \in Seq(Nat) /\ Records' = Records
  <2>1. PICK s, t : s = Without(E) /\ t = SetToSeq(E)
    OBVIOUS
  <2>2. s \in Seq(Nat) /\ ToSet(s) = Records \ E
    BY <1>1, <2>1, WithoutIs
  <2>3. t \in Seq(E) /\ ToSet(t) = E
    BY <1>5, <2>1, SetToSeqIs
  <2>4. t \in Seq(Nat)
    <3>1. PICK k \in Nat : k = Len(t)
      BY <2>3
    <3>2. t \in [1 .. k -> E]
      BY <2>3, <3>1
    <3>3. t \in [1 .. k -> Nat]
      BY <1>5, <3>2
    <3>. QED
      BY <3>3
  <2>5. PICK m \in Nat, n \in Nat : m = Len(s) /\ n = Len(t)
    BY <2>2, <2>4
  <2>6. PICK u : u = s \o t
    OBVIOUS
  <2>7. /\ u \in Seq(Nat) /\ Len(u) = m + n
        /\ \A i \in 1 .. m + n : u[i] = IF i <= m THEN s[i] ELSE t[i - m]
    BY <2>2, <2>4, <2>5, <2>6, ConcatProperties
  <2>8. ToSet(u) = ToSet(s) \cup ToSet(t)
    <3>1. /\ DOMAIN u = 1 .. m + n /\ DOMAIN s = 1 .. m /\ DOMAIN t = 1 .. n
      BY <2>2, <2>4, <2>5, <2>7
    <3>2. ToSet(u) = {u[i] : i \in 1 .. m + n} /\ ToSet(s) = {s[i] : i \in 1 .. m}
          /\ ToSet(t) = {t[i] : i \in 1 .. n}
      BY <3>1 DEF ToSet
    <3>3. ASSUME NEW i \in 1 .. n PROVE i + m \in 1 .. m + n /\ u[i + m] = t[i]
      BY <2>7
    <3>4. ASSUME NEW i \in 1 .. m PROVE i \in 1 .. m + n /\ u[i] = s[i]
      BY <2>7
    <3>5. ASSUME NEW i \in 1 .. m + n
          PROVE  u[i] \in {s[j] : j \in 1 .. m} \cup {t[j] : j \in 1 .. n}
      <4>1. i <= m => i \in 1 .. m
        OBVIOUS
      <4>2. i > m => i - m \in 1 .. n
        OBVIOUS
      <4>. QED
        BY <2>7, <4>1, <4>2
    <3>. QED
      BY <3>2, <3>3, <3>4, <3>5
  <2>9. lru' = u
    BY <1>4, <2>1, <2>6
  <2>10. ToSet(u) = Records
    BY <1>5, <2>2, <2>3, <2>8
  <2>. QED
    BY <2>7, <2>9, <2>10 DEF Records
<1>7. Catalogued'
  BY <1>1, <1>2, <1>6 DEF Catalogued, Epoch
<1>8. Stored'
  BY <1>1, <1>2, StoredSame
<1>9. /\ req[r].st = "touch" /\ req[r] \in RequestType /\ slot[r] \in SlotType
      /\ Pins(req[r]) /\ req[r].failed = {} /\ Loads(req[r], slot[r])
      /\ slot' = [slot EXCEPT ![r] = slot[r]]
  BY <1>1, <1>2, RequestIs DEF TouchRestored
<1>10. PICK q : q = [req[r] EXCEPT !.st = "restored", !.open = None]
  OBVIOUS
<1>11. req' = [req EXCEPT ![r] = q]
  <2>1. req' = [req EXCEPT ![r].st = "restored", ![r].open = None]
    BY DEF TouchRestored
  <2>. QED
    BY <1>10, <2>1, Zenon
<1>12. /\ q \in RequestType /\ q.st = "restored" /\ q.cands = req[r].cands
       /\ q.failed = {}
  BY <1>9, <1>10 DEF RequestType, None
<1>13. Pins(q) /\ Failed(q) /\ Loads(q, slot[r])
  BY <1>9, <1>12 DEF Pins, Failed, Loads
<1>. QED
  BY <1>2, <1>7, <1>8, <1>9, <1>11, <1>12, <1>13, SoundActs

\* A restored boundary is served or given up.
LEMMA SoundDecide ==
  ASSUME Sound, NEW r \in Request, Decide(r)
  PROVE  Sound'
<1>1. Stored /\ Requests /\ Locks /\ Catalogued
  BY DEF Sound
<1>2. Reads(r) /\ Stored' /\ Catalogued'
  BY OnlyReads DEF Decide
<1>3. /\ req[r].st = "restored" /\ req[r] \in RequestType /\ slot[r] \in SlotType
      /\ Pins(req[r]) /\ req[r].failed = {} /\ Loads(req[r], slot[r])
      /\ (slot' = slot => slot' = [slot EXCEPT ![r] = slot[r]])
  BY <1>1, RequestIs DEF Decide
<1>4. CASE req' = [req EXCEPT ![r] = [Finished EXCEPT !.st = "serving"]] /\ slot' = slot
  <2>1. PICK x \in {"idle", "serving"} : x = "serving"
    OBVIOUS
  <2>2. PICK q : q = [Finished EXCEPT !.st = x]
    OBVIOUS
  <2>3. req' = [req EXCEPT ![r] = q]
    BY <1>4, <2>1, <2>2, Zenon
  <2>4. q \in RequestType /\ Reading(q, slot[r])
    BY <1>3, <2>1, <2>2, ReadingRests DEF Loads
  <2>. QED
    BY <1>2, <1>3, <1>4, <2>3, <2>4, SoundActs DEF Reading
<1>5. CASE /\ req' = [req EXCEPT ![r].st = "choose", ![r].at = @ + 1]
           /\ slot' = [slot EXCEPT ![r] = EmptySlot]
  <2>1. PICK q : q = [req[r] EXCEPT !.st = "choose", !.at = req[r].at + 1]
    OBVIOUS
  <2>5. req[r].at + 1 \in Nat \ {0}
    BY <1>3 DEF RequestType
  <2>2. /\ q \in RequestType /\ q.st = "choose" /\ q.cands = req[r].cands
        /\ q.failed = {}
    BY <1>3, <2>1, <2>5 DEF RequestType
  <2>3. req' = [req EXCEPT ![r] = q]
    BY <1>5, <2>1, Zenon
  <2>4. Pins(q) /\ Failed(q) /\ Loads(q, EmptySlot)
    BY <1>3, <2>2, FinishedIs DEF Pins, Failed, Loads
  <2>. QED
    BY <1>2, <1>5, <2>2, <2>3, <2>4, FinishedIs, SoundActs
<1>. QED
  BY <1>4, <1>5 DEF Decide

\* A cold start, a restore that is given up, and the end of a request empty the slot.
LEMMA SoundRests ==
  ASSUME Sound, NEW r \in Request, StartCold(r) \/ FailHistory(r) \/ Release(r)
  PROVE  Sound'
<1>1. Reads(r) /\ Stored' /\ Catalogued'
  BY OnlyReads DEF StartCold, FailHistory, Release
<1>2. slot' = [slot EXCEPT ![r] = EmptySlot]
  BY DEF StartCold, FailHistory, Release
<1>3. CASE StartCold(r) \/ FailHistory(r)
  <2>1. PICK x \in {"idle", "serving"} : x = "serving"
    OBVIOUS
  <2>2. PICK q : q = [Finished EXCEPT !.st = x]
    OBVIOUS
  <2>3. req' = [req EXCEPT ![r] = q]
    BY <1>3, <2>1, <2>2, Zenon DEF StartCold, FailHistory
  <2>4. q \in RequestType /\ Reading(q, EmptySlot)
    BY <2>2, ReadingRests
  <2>. QED
    BY <1>1, <1>2, <2>3, <2>4, FinishedIs, SoundActs DEF Reading
<1>4. CASE Release(r)
  <2>1. req' = [req EXCEPT ![r] = Finished]
    BY <1>4 DEF Release
  <2>2. Pins(Finished) /\ Failed(Finished) /\ Loads(Finished, EmptySlot)
    BY FinishedIs DEF Pins, Failed, Loads
  <2>. QED
    BY <1>1, <1>2, <2>1, <2>2, FinishedIs, SoundActs
<1>. QED
  BY <1>3, <1>4

-----------------------------------------------------------------------------
(* The invariant *)

\* The catalog of a previous run.
LEMMA SoundInit ==
  ASSUME Init
  PROVE  Sound
<1>1. PICK S \in SUBSET Ckpt : pub \in Ascending(S)
  BY DEF Init
<1>2. /\ pub \in Seq(Ckpt) /\ DOMAIN pub = Epoch /\ Len(pub) \in Nat
      /\ \A e, d \in Epoch : pub[e] = pub[d] => e = d
  BY <1>1, AscendingIs DEF Epoch
<1>3. /\ entries = Epoch /\ durable = Epoch /\ lru = [e \in Epoch |-> e]
      /\ quarantined = {} /\ invalid = {} /\ io = Nobody /\ worker = Resting
      /\ reclamation \in {"started", "done"}
      /\ req = [r \in Request |-> Finished] /\ slot = [r \in Request |-> EmptySlot]
  BY DEF Init
<1>4. PICK B, Orphans :
        file = [f \in File |->
                  IF f \notin Orphans /\ ~Referenced(f, Epoch) THEN "absent"
                  ELSE IF f \in B THEN "bad" ELSE "good"]
  BY DEF Init
<1>5. \A e \in Epoch : \A f \in Needs(e) : file[f] # "absent"
  <2>. SUFFICES ASSUME NEW e \in Epoch, NEW f \in Needs(e) PROVE file[f] # "absent"
    OBVIOUS
  <2>1. pub[e] \in Ckpt
    BY <1>2 DEF Epoch
  <2>2. f \in File /\ Referenced(f, Epoch)
    BY <2>1 DEF Needs, File, Referenced
  <2>. QED
    BY <1>4, <2>2
<1>6. Resting \in WorkerType /\ Resting.st = "idle"
  BY RestingIs
<1>7. Stored
  <2>1. file \in [File -> {"absent", "good", "bad"}]
    BY <1>4
  <2>. QED
    BY <1>2, <1>3, <1>5, <1>6, <2>1 DEF Stored, Writing, NoFalseQuarantine
<1>8. Locks
  BY <1>3, <1>6 DEF Locks, Holding, Writing, Nobody
<1>9. Catalogued
  <2>1. lru \in Seq(Nat) /\ Records = Epoch
    <3>1. PICK n \in Nat : n = Len(pub)
      BY <1>2
    <3>2. lru \in [1 .. n -> Nat] /\ DOMAIN lru = 1 .. n /\ \A e \in 1 .. n : lru[e] = e
      BY <1>3, <3>1 DEF Epoch
    <3>. QED
      BY <3>1, <3>2 DEF Records, ToSet, Epoch
  <2>2. \A c \in Ckpt : index[c] = [NoCopy EXCEPT !.disk =
          IF \E e \in Epoch : pub[e] = c THEN CHOOSE e \in Epoch : pub[e] = c ELSE None]
    BY DEF Init
  <2>3. DOMAIN index = Ckpt /\ index = [c \in Ckpt |-> index[c]]
    BY DEF Init
  <2>4. ASSUME NEW c \in Ckpt
        PROVE  /\ index[c] \in [ram : BOOLEAN, disk : Nat]
               /\ index[c].disk # None => index[c].disk \in Epoch /\ pub[index[c].disk] = c
    <3>1. PICK d : d = IF \E e \in Epoch : pub[e] = c
                       THEN CHOOSE e \in Epoch : pub[e] = c ELSE None
      OBVIOUS
    <3>2. d \in Nat /\ (d # None => d \in Epoch /\ pub[d] = c)
      <4>1. CASE \E e \in Epoch : pub[e] = c
        <5>1. d \in Epoch /\ pub[d] = c
          BY <3>1, <4>1
        <5>. QED
          BY <5>1 DEF Epoch
      <4>2. CASE ~ \E e \in Epoch : pub[e] = c
        BY <3>1, <4>2 DEF None
      <4>. QED
        BY <4>1, <4>2
    <3>3. index[c] = [NoCopy EXCEPT !.disk = d]
      BY <2>2, <3>1, Zenon
    <3>4. index[c] \in [ram : BOOLEAN, disk : Nat] /\ index[c].disk = d
      BY <3>2, <3>3 DEF NoCopy, None
    <3>. QED
      BY <3>2, <3>4
  <2>. QED
    BY <1>3, <2>1, <2>3, <2>4 DEF Catalogued
<1>10. Requests
  <2>1. Pins(Finished) /\ Failed(Finished) /\ Loads(Finished, EmptySlot)
    BY FinishedIs DEF Pins, Failed, Loads
  <2>. QED
    BY <1>3, <2>1, FinishedIs DEF Requests, Reading
<1>. QED
  BY <1>7, <1>8, <1>9, <1>10 DEF Sound

\* What no step changes is as sound as before.
LEMMA SoundStutter ==
  ASSUME Sound, UNCHANGED vars
  PROVE  Sound'
<1>1. Stored /\ Requests /\ Locks /\ Catalogued
  BY DEF Sound
<1>2. UNCHANGED <<io, pub, entries, durable, quarantined, file, suspect, catalog, worker,
                  reclamation, req, slot>>
  BY DEF vars, store
<1>3. Stored' /\ Requests' /\ Catalogued'
  BY <1>1, <1>2, StoredSame, RequestsSame, CatalogSame
<1>4. Locks'
  BY <1>1, <1>2 DEF Locks
<1>. QED
  BY <1>3, <1>4 DEF Sound

\* Every step of the writer, the store and a request keeps the invariant.
LEMMA SoundNext ==
  ASSUME Sound, [Next]_vars
  PROVE  Sound'
<1>1. CASE WorkerStep
  BY <1>1, SoundWorkerQuiet, SoundAdmit, SoundWritePayloads, SoundCommit, SoundReclaim,
     SoundSettleTrack, SoundSettleAttach DEF WorkerStep
<1>2. CASE ReclaimLock \/ ReclaimOrphans \/ ReclaimInvalid
  BY <1>2, SoundReclaimOrphans, SoundReclaimInvalid
<1>3. ASSUME NEW c \in Ckpt, Capture(c) \/ DropResident(c) \/ Retire(c)
      PROVE  Sound'
  BY <1>3, SoundResident, SoundRetire
<1>4. ASSUME NEW f \in File, Damage(f)
      PROVE  Sound'
  BY <1>4, SoundDamage
<1>5. ASSUME NEW r \in Request, RequestStep(r)
      PROVE  Sound'
  <2>1. ASSUME NEW f \in File, ReadPayload(r, f)
        PROVE  Sound'
    BY <2>1, SoundReadPayload
  <2>2. CASE ~ \E f \in File : ReadPayload(r, f)
    BY <1>5, <2>2, SoundAcquire, SoundRestoreRam, SoundBeginRestore, SoundFailRestore,
       SoundValidate, SoundUnwind, SoundReport, SoundTouchRestored, SoundDecide,
       SoundRests DEF RequestStep
  <2>. QED
    BY <2>1, <2>2
<1>6. CASE UNCHANGED vars
  BY <1>6, SoundStutter
<1>. QED
  BY <1>1, <1>2, <1>3, <1>4, <1>5, <1>6 DEF Next

-----------------------------------------------------------------------------
(* The theorems *)

\* The inductive invariant: the locks, the store, the catalog and the requests
\* agree in every reachable state (disk_catalog.cpp, disk.cpp, streaming.cpp and
\* component_text_cache.cpp).
THEOREM TierInvariant == Spec => []Sound
<1>1. Init => Sound
  BY SoundInit
<1>2. Sound /\ [Next]_vars => Sound'
  BY SoundNext
<1>. QED
  BY <1>1, <1>2, PTL DEF Spec

\* A slot restored from disk holds the verified payloads of the publication the
\* lookup pinned, although Restore opens it again by its ID.
THEOREM RestoredExactHolds == Spec => []RestoredExact
<1>1. Sound => RestoredExact
  <2>. SUFFICES ASSUME Sound, NEW r \in Request
                PROVE  /\ slot[r].st = "ready" =>
                            slot[r].rows = {<<f, "good">> :
                              f \in IF slot[r].from = None THEN {}
                                    ELSE Needs(slot[r].from)}
                       /\ req[r].st = "touch" => slot[r].from = Current(r).disk
    BY DEF RestoredExact
  <2>1. Loads(req[r], slot[r])
    BY RequestIs DEF Sound
  <2>2. slot[r].st = "ready" => slot[r].rows = Verified(slot[r].from)
    BY <2>1 DEF Loads
  <2>3. req[r].st = "touch" => slot[r].from = Current(r).disk
    BY <2>1 DEF Loads, Current
  <2>. QED
    BY <2>2, <2>3 DEF Verified
<1>. QED
  BY <1>1, TierInvariant, PTL

\* The store condemns only publications with a payload file of which a check failed
\* since the file was written.
THEOREM NoFalseQuarantineHolds == Spec => []NoFalseQuarantine
<1>1. Sound => NoFalseQuarantine
  BY DEF Sound, Stored
<1>. QED
  BY <1>1, TierInvariant, PTL

\* The index offers durable copies only of records the catalog tracks.
THEOREM IndexTrackedHolds == Spec => []IndexTracked
<1>1. Sound => IndexTracked
  BY DEF Sound, Catalogued, IndexTracked
<1>. QED
  BY <1>1, TierInvariant, PTL

\* The reclaim callback joins the reclamation first, so no write is dropped for a
\* busy mutex.
THEOREM WriteNeverBusyHolds == Spec => []WriteNeverBusy
<1>1. Sound => WriteNeverBusy
  BY DEF Sound, Locks, WriteNeverBusy
<1>. QED
  BY <1>1, TierInvariant, PTL

\* Whether the copy of c in RAM is spared, or lost for a reason.
Spared(c) ==
  index[c].ram /\ ~index'[c].ram =>
    \/ index[c].disk \in quarantined' \cup invalid'
    \/ UNCHANGED <<store, lru, invalid, worker, req>>

\* The writer's steps spare the copies in RAM.
LEMMA WorkerSpares ==
  ASSUME Sound, WorkerStep, NEW c \in Ckpt
  PROVE  Spared(c)
<1>1. Stored /\ Requests /\ Locks /\ Catalogued
  BY DEF Sound
<1>2. Condemned \subseteq quarantined
  BY DEF Condemned
<1>3. CASE \/ LockStore \/ Admit \/ WritePayloads \/ Commit \/ SettleFailed
  <2>1. index' = index
    BY <1>3 DEF LockStore, Admit, WritePayloads, Commit, SettleFailed, catalog
  <2>. QED
    BY <2>1 DEF Spared
<1>4. CASE Reclaim
  <2>1. CASE index' = index
    BY <2>1 DEF Spared
  <2>2. CASE index' = Reconciled /\ quarantined' = quarantined
    BY <1>1, <1>2, <2>2, ReconciledIs DEF Spared
  <2>3. CASE EvictOne /\ quarantined' = quarantined /\ pub' = pub
    <3>1. PICK E : Erased(E, Reconciled)
      BY <2>3 DEF EvictOne
    <3>. QED
      BY <1>1, <1>2, <2>3, <3>1, ErasedKeeps DEF Spared
  <2>. QED
    BY <1>4, <2>1, <2>2, <2>3 DEF Reclaim, store, catalog
<1>5. CASE SettleTrack
  <2>1. PICK memory \in BOOLEAN : Track(worker.id, memory)
    BY <1>5 DEF SettleTrack
  <2>2. pub' = pub /\ quarantined' = quarantined
    BY <1>5 DEF SettleTrack, store
  <2>3. index[c].ram /\ ~index'[c].ram => index[c].disk \in quarantined
    BY <1>1, <2>1, <2>2, TrackKeeps
  <2>. QED
    BY <2>2, <2>3 DEF Spared
<1>6. CASE SettleAttach
  <2>1. \/ index' = [index EXCEPT ![worker.id].disk = Find(worker.id)]
        \/ index' = index
    BY <1>6 DEF SettleAttach
  <2>2. index \in [Ckpt -> [ram : BOOLEAN, disk : Nat]]
    BY <1>1 DEF Catalogued
  <2>3. index'[c].ram = index[c].ram
    BY <2>1, <2>2
  <2>. QED
    BY <2>3 DEF Spared
<1>. QED
  BY <1>3, <1>4, <1>5, <1>6 DEF WorkerStep

\* The steps of a request spare the copies in RAM.
LEMMA RequestSpares ==
  ASSUME Sound, NEW r \in Request, RequestStep(r), NEW c \in Ckpt
  PROVE  Spared(c)
<1>1. Catalogued /\ Condemned \subseteq quarantined
  BY DEF Sound, Condemned
<1>2. CASE Acquire(r)
  <2>1. index' = Reconciled /\ quarantined' = quarantined
    BY <1>2 DEF Acquire, store
  <2>. QED
    BY <1>1, <2>1, ReconciledIs DEF Spared
<1>3. CASE Report(r)
  <2>1. PICK hit : index' = RemoveDurable(index, hit, hit) /\ invalid' = invalid \cup hit
    BY <1>3 DEF Report, Invalidate
  <2>2. index[c].ram /\ ~index'[c].ram => index[c].disk \in hit
    BY <1>1, <2>1, RemoveDurableIs DEF Catalogued
  <2>. QED
    BY <2>1, <2>2 DEF Spared
<1>4. CASE ~Acquire(r) /\ ~Report(r)
  <2>1. index' = index
    BY <1>4 DEF RequestStep, RestoreRam, BeginRestore, FailRestore, Validate, Unwind,
       TouchRestored, Decide, StartCold, FailHistory, Release, ReadPayload, catalog
  <2>. QED
    BY <2>1 DEF Spared
<1>. QED
  BY <1>2, <1>3, <1>4

\* Evicting a publication never takes the copy in RAM with it.
THEOREM EvictionSparesRamHolds == Spec => EvictionSparesRam
<1>1. Sound /\ [Next]_vars =>
        [\A c \in Ckpt : index[c].ram /\ ~index'[c].ram =>
            \/ index[c].disk \in quarantined' \cup invalid'
            \/ UNCHANGED <<store, lru, invalid, worker, req>>]_vars
  <2>. SUFFICES ASSUME Sound, Next, NEW c \in Ckpt PROVE Spared(c)
    BY DEF Spared
  <2>1. CASE WorkerStep
    BY <2>1, WorkerSpares
  <2>2. CASE \E r \in Request : RequestStep(r)
    BY <2>2, RequestSpares
  <2>3. CASE ReclaimInvalid
    <3>1. index' = Reconciled /\ quarantined' = quarantined
      BY <2>3 DEF ReclaimInvalid
    <3>. QED
      BY <3>1, ReconciledIs DEF Spared, Sound, Condemned
  <2>4. ASSUME NEW d \in Ckpt, Capture(d) \/ DropResident(d)
        PROVE  Spared(c)
    <3>1. CASE Capture(d)
      <4>1. index \in [Ckpt -> [ram : BOOLEAN, disk : Nat]]
        BY DEF Sound, Catalogued
      <4>2. index[c].ram => index'[c].ram
        BY <3>1, <4>1 DEF Capture
      <4>. QED
        BY <4>2 DEF Spared
    <3>2. CASE DropResident(d)
      BY <3>2 DEF DropResident, Spared
    <3>. QED
      BY <2>4, <3>1, <3>2
  <2>5. CASE \/ ReclaimLock \/ ReclaimOrphans
             \/ \E d \in Ckpt : Retire(d)
             \/ \E f \in File : Damage(f)
    <3>1. index' = index
      BY <2>5 DEF ReclaimLock, ReclaimOrphans, Retire, Damage, catalog
    <3>. QED
      BY <3>1 DEF Spared
  <2>. QED
    BY <2>1, <2>2, <2>3, <2>4, <2>5 DEF Next
<1>. QED
  BY <1>1, TierInvariant, PTL DEF Spec, EvictionSparesRam

=============================================================================
