------------------------------ MODULE DiskTier ------------------------------
(***************************************************************************)
(* The disk tier as the serving cache uses it: the DiskCatalog             *)
(* (src/src/cache/disk_catalog.cpp) with its LRU order and reverse         *)
(* dependencies, StreamedStore::Restore (src/src/cache/streaming.cpp), the *)
(* durable side of the prefix index, and the writer that publishes, evicts *)
(* and tracks (src/src/cli/serve/component_text_cache.cpp).                *)
(*                                                                         *)
(* Three locks order them.  io is the store's I/O mutex, which eviction    *)
(* only tries; cm is the cache mutex, which serializes the catalog and the *)
(* index; staging is held for a whole restore.  Quarantine needs none of   *)
(* them, so a reader can condemn a publication at any moment.              *)
(*                                                                         *)
(* A publication is an epoch: pub[e] is the checkpoint ID it carries.  The *)
(* store's files are those of module DiskStore, reduced to their content.  *)
(***************************************************************************)
EXTENDS Integers, Sequences, FiniteSets, SequencesExt

CONSTANTS Ckpt,      \* checkpoint IDs, a set of numbers: deeper is larger
          Deps,      \* Deps[c]: the payload files of checkpoint c
          Request,   \* requests that look up and restore
          Capacity,  \* the files the disk budget holds
          MaxEpoch,  \* bound: publications
          MaxFaults, \* bound: files damaged behind the store's back, and good
                     \* files that cannot be read
          Reuse      \* whether IDs return and entries are retired beside the
                     \* catalog: its interface allows it, serving does not do it

File == UNION {Deps[c] : c \in Ckpt}
None == 0
Nobody == "nobody"

ASSUME TierAssumption ==
  /\ Ckpt \subseteq Nat \ {0} /\ IsFiniteSet(Ckpt) /\ DOMAIN Deps = Ckpt
  /\ {Capacity, MaxEpoch, MaxFaults} \subseteq Nat
  /\ Reuse \in BOOLEAN /\ Nobody \notin Request

VARIABLES
  io,          \* who holds the store's I/O mutex
  cm,          \* who holds the cache mutex across steps
  staging,     \* who holds the staging buffer
  pub,         \* pub[e]: the checkpoint published under epoch e
  entries,     \* epochs in the store's index, a candidate included
  durable,     \* epochs whose publication committed
  quarantined, \* epochs whose availability flag is set
  file,        \* content of the payload files
  suspect,     \* history: the files of which a check failed since they were
               \* last written
  lru,         \* the catalog's records, least recently used first
  invalid,     \* records marked invalid
  index,       \* the prefix index: the copies known of each checkpoint
  worker,      \* the persistence worker
  reclamation, \* the orphan reclamation started with the store
  req,         \* the requests
  slot,        \* slot[r]: what the adapter's slot of request r holds
  faults       \* files damaged, and failed checks of good files, so far

store   == <<io, pub, entries, durable, quarantined, file, suspect>>
catalog == <<lru, invalid, index>>
vars == <<store, catalog, cm, staging, worker, reclamation, req, slot, faults>>

\* The checkpoints of S by their IDs.
Ascending(S) == {s \in [1 .. Cardinality(S) -> S] :
                   \A i, k \in DOMAIN s : i < k => s[i] < s[k]}

Epoch == 1 .. Len(pub)
Needs(e) == Deps[pub[e]]

NoCopy == [ram |-> FALSE, disk |-> None]
Resting == [st |-> "idle", id |-> None, epoch |-> None]
Finished == [st |-> "idle", cands |-> <<>>, at |-> 1, open |-> None,
             failed |-> {}]
EmptySlot == [st |-> "empty", from |-> None, rows |-> {}]

-----------------------------------------------------------------------------
(* The store *)

Referenced(f, E) == \E e \in E : f \in Needs(e)

OnDisk == {f \in File : file[f] # "absent"}

\* What Describe, Open and Pin find: durable and not quarantined.
Readable(e) == e \in durable /\ e \notin quarantined

\* The epoch a checkpoint ID leads to, None when there is none.
Found(c) == IF \E e \in durable : pub[e] = c /\ Readable(e)
            THEN CHOOSE e \in durable : pub[e] = c /\ Readable(e) ELSE None

\* A reader keeps a publication alive by the pins of its candidates.
PinsUntilTried(r) ==
  {req[r].cands[i].disk : i \in {i \in DOMAIN req[r].cands :
     i > req[r].at \/ (i = req[r].at /\ req[r].st \in {"choose", "load"})}}
PinnedBy(r) == {req[r].cands[i].disk : i \in DOMAIN req[r].cands}
Pinned(e) == \E r \in Request : e \in PinnedBy(r)

Quarantine(F) == {e \in entries : Needs(e) \cap F # {}}

\* A check of a payload file fails: its content is wrong, or it could not be
\* opened, examined or read, which tells the store nothing about its content.
DependencyFailure(f) ==
  /\ quarantined' = quarantined \cup Quarantine({f})
  /\ suspect' = suspect \cup {f}
  /\ IF file[f] = "good" THEN faults < MaxFaults /\ faults' = faults + 1
     ELSE UNCHANGED faults

\* The payload files F are deleted.
Unlinked(F) ==
  /\ file' = [f \in File |-> IF f \in F THEN "absent" ELSE file[f]]
  /\ suspect' = suspect \ F

\* Retire: the entry, then the payloads no other entry refers to.
Retired(E) ==
  /\ entries' = entries \ E /\ durable' = durable \ E
  /\ Unlinked({f \in File : Referenced(f, E) /\ ~Referenced(f, entries \ E)})

\* DiskStore::Retire, called beside the catalog.
Retire(c) ==
  /\ Reuse /\ io = Nobody
  /\ \E e \in entries : pub[e] = c /\ ~Pinned(e) /\ Retired({e})
  /\ UNCHANGED <<io, pub, quarantined, catalog, cm, staging, worker,
                 reclamation, req, slot, faults>>

\* ReclaimOrphans: a task that waits for the mutex and removes what no entry
\* refers to.
ReclaimLock ==
  /\ reclamation = "started" /\ io = Nobody
  /\ reclamation' = "running" /\ io' = "reclaimer"
  /\ UNCHANGED <<pub, entries, durable, quarantined, file, suspect, catalog, cm,
                 staging, worker, req, slot, faults>>

ReclaimOrphans ==
  /\ reclamation = "running"
  /\ reclamation' = "done" /\ io' = Nobody
  /\ Unlinked({f \in File : ~Referenced(f, entries)})
  /\ UNCHANGED <<pub, entries, durable, quarantined, catalog, cm, staging,
                 worker, req, slot, faults>>

\* A write to a payload file by anyone else (external): its identity changes,
\* so the store's memory of having verified it does not apply.
Damage(f) ==
  /\ faults < MaxFaults /\ file[f] = "good"
  /\ file' = [file EXCEPT ![f] = "bad"] /\ faults' = faults + 1
  /\ UNCHANGED <<io, pub, entries, durable, quarantined, suspect, catalog, cm,
                 staging, worker, reclamation, req, slot>>

-----------------------------------------------------------------------------
(* The index and the catalog *)

\* RemoveDurable for the publications E, of which those in Bad are corrupt: a
\* corrupt one takes the copy in RAM with it.
RemoveWholeRecord(ix, E, Bad) ==
  [c \in Ckpt |-> IF ix[c].disk \in E THEN NoCopy ELSE ix[c]]
RemoveDurable(ix, E, Bad) ==
  [c \in Ckpt |->
     IF ix[c].disk = None \/ ix[c].disk \notin E THEN ix[c]
     ELSE IF ix[c].disk \in Bad \/ ~ix[c].ram THEN NoCopy
     ELSE [ix[c] EXCEPT !.disk = None]]

Records == ToSet(lru)
\* A sequence without the members of E, in the same order.
Filter(s, E) ==
  LET kept[n \in 0 .. Len(s)] ==
        IF n = 0 THEN <<>>
        ELSE IF s[n] \in E THEN kept[n - 1] ELSE Append(kept[n - 1], s[n])
  IN kept[Len(s)]
Without(E) == Filter(lru, E)

\* Reconcile: the records a reader's quarantine condemned.
Condemned == {e \in Records \ invalid : e \in quarantined}
Reconciled == RemoveDurable(index, Condemned, Condemned)

\* Track: a record of another epoch goes first, then the new one is entered as
\* the most recently used; without memory for it nothing is entered.
Track(c, memory) ==
  LET e == Found(c)
      old == {x \in Records : pub[x] = c /\ x # e}
  IN IF e = None \/ e \in Records THEN UNCHANGED catalog
     ELSE /\ index' = RemoveDurable(index, old, old \cap (invalid \cup quarantined))
          /\ lru' = IF memory THEN Append(Without(old), e) ELSE Without(old)
          /\ invalid' = invalid \ old

\* Find, which AttachDurable repeats.
Find(c) ==
  LET E == {e \in Records \ invalid : pub[e] = c /\ Readable(e)}
  IN IF E = {} THEN None ELSE CHOOSE e \in E : TRUE

Touch(c) ==
  LET E == {e \in Records \ invalid : pub[e] = c}
  IN lru' = Without(E) \o SetToSeq(E)

\* EvictOne's scan: the first record whose entry is neither missing nor
\* pinned, and the missing ones before it.
Victims ==
  LET live(i) == lru[i] \in entries
      first == {i \in DOMAIN lru : live(i) /\ ~Pinned(lru[i])
                  /\ \A j \in 1 .. i - 1 : ~live(j) \/ Pinned(lru[j])}
  IN [retired |-> {lru[i] : i \in first},
      missing |-> {lru[j] : j \in {j \in DOMAIN lru :
                     ~live(j) /\ \A i \in first : j < i}}]

\* The catalog after E has left it.
ErasedUnindexed(E, ix) ==
  /\ lru' = Without(E) /\ invalid' = (invalid \cup Condemned) \ E
  /\ index' = RemoveDurable(ix, E \cap entries, E \cap quarantined)
Erased(E, ix) ==
  /\ lru' = Without(E) /\ invalid' = (invalid \cup Condemned) \ E
  /\ index' = RemoveDurable(ix, E, E \cap quarantined)

EvictOne ==
  LET out == Victims.retired \cup Victims.missing
  IN /\ Retired(Victims.retired) /\ Erased(out, Reconciled)

\* Invalidate: every record that depends on the file, here and in the store.
Invalidate(F) ==
  LET hit == {e \in Records : Needs(e) \cap F # {}}
  IN /\ quarantined' = quarantined \cup Quarantine(F) \cup (hit \cap entries)
     /\ invalid' = invalid \cup hit
     /\ index' = RemoveDurable(index, hit, hit)
     /\ UNCHANGED lru

\* ReclaimInvalid: the condemned publications that nobody reads.
ReclaimInvalid ==
  LET doomed == {e \in Records : e \in invalid \cup Condemned}
      out == {e \in doomed : ~(e \in entries /\ Pinned(e))}
  IN /\ io = Nobody /\ cm = Nobody /\ out # {}
     /\ Retired(out \cap entries)
     /\ lru' = Without(out) /\ invalid' = (invalid \cup Condemned) \ out
     /\ index' = Reconciled
     /\ UNCHANGED <<io, pub, quarantined, cm, staging, worker, reclamation, req,
                    slot, faults>>

-----------------------------------------------------------------------------
(* The writer: Publish, and the callbacks of the persistence queue *)

At(step) == worker' = [worker EXCEPT !.st = step]

\* A checkpoint captured in RAM, and the job that persists it.
Capture(c) ==
  /\ cm = Nobody /\ index[c] = NoCopy /\ worker.st = "idle"
  /\ Reuse \/ \A e \in Epoch : pub[e] # c
  /\ index' = [index EXCEPT ![c].ram = TRUE]
  /\ worker' = [worker EXCEPT !.st = "job", !.id = c]
  /\ UNCHANGED <<store, lru, invalid, cm, staging, reclamation, req, slot,
                 faults>>

\* Retention gives up the copy in RAM and keeps a readable durable one.
DropResident(c) ==
  /\ cm = Nobody /\ index[c].ram
  /\ index' = [index EXCEPT ![c] =
       IF Readable(@.disk) THEN [@ EXCEPT !.ram = FALSE] ELSE NoCopy]
  /\ UNCHANGED <<store, lru, invalid, cm, staging, worker, reclamation, req,
                 slot, faults>>

LockStore ==
  /\ worker.st = "job" /\ io = Nobody /\ Len(pub) < MaxEpoch
  /\ io' = "worker" /\ At("locked")
  /\ UNCHANGED <<pub, entries, durable, quarantined, file, suspect, catalog, cm,
                 staging, reclamation, req, slot, faults>>

\* Publish before it touches a file: the budget, then the dependencies that
\* exist, which are verified with the staging buffer (any check may fail, those
\* of a damaged file do), then the index.
Fresh(c)  == {f \in Deps[c] : ~Referenced(f, entries)}
Full(c)   == Cardinality(OnDisk) + Cardinality(Fresh(c)) > Capacity
Old(c)    == Deps[c] \ Fresh(c)
Intact(c) == \A f \in Old(c) : file[f] = "good"
Refused(c) ==
  \/ Fresh(c) \cap OnDisk # {}
  \/ \E e \in entries : pub[e] = c
  \/ \E e \in entries \cap quarantined : Needs(e) \cap Deps[c] # {}

Admit ==
  LET c == worker.id IN
  /\ worker.st = "locked"
  /\ \/ /\ Full(c) /\ At("full") /\ io' = Nobody
        /\ UNCHANGED <<pub, entries, quarantined, suspect, faults>>
     \/ /\ ~Full(c) /\ io' = Nobody /\ At("failed")
        /\ \E f \in Old(c) : DependencyFailure(f)
        /\ UNCHANGED <<pub, entries>>
     \/ /\ ~Full(c) /\ staging = Nobody /\ Intact(c) /\ Refused(c)
        /\ io' = Nobody /\ At("failed")
        /\ UNCHANGED <<pub, entries, quarantined, suspect, faults>>
     \/ /\ ~Full(c) /\ staging = Nobody /\ Intact(c) /\ ~Refused(c)
        /\ pub' = Append(pub, c) /\ entries' = entries \cup {Len(pub) + 1}
        /\ worker' = [worker EXCEPT !.st = "writing", !.epoch = Len(pub) + 1]
        /\ UNCHANGED <<io, quarantined, suspect, faults>>
  /\ UNCHANGED <<durable, file, catalog, cm, staging, reclamation, req, slot>>

\* The payloads, copied through the staging buffer, W of them before an error.
WritePayloads ==
  /\ worker.st = "writing" /\ staging = Nobody
  /\ \E W \in SUBSET (Deps[worker.id] \ OnDisk) :
       /\ file' = [f \in File |-> IF f \in W THEN "good" ELSE file[f]]
       /\ IF W = Deps[worker.id] \ OnDisk
          THEN At("written") /\ UNCHANGED <<io, entries>>
          ELSE At("failed") /\ io' = Nobody /\ entries' = entries \ {worker.epoch}
  /\ UNCHANGED <<pub, durable, quarantined, suspect, catalog, cm, staging,
                 reclamation, req, slot, faults>>

\* The commit is refused when a reader condemned a shared file meanwhile; an
\* error leaves the payloads behind as orphans.
Commit ==
  /\ worker.st = "written" /\ io' = Nobody
  /\ \/ /\ worker.epoch \notin quarantined
        /\ durable' = durable \cup {worker.epoch} /\ At("done")
        /\ UNCHANGED entries
     \/ /\ entries' = entries \ {worker.epoch} /\ At("failed")
        /\ UNCHANGED durable
  /\ UNCHANGED <<pub, quarantined, file, suspect, catalog, cm, staging,
                 reclamation, req, slot, faults>>

\* The reclaim callback: join the reclamation, then evict under the cache mutex.
NotJoined == TRUE
Joined == reclamation = "done"

Reclaim ==
  /\ worker.st = "full"
  /\ IF Cardinality(Deps[worker.id]) > Capacity
     THEN At("failed") /\ UNCHANGED <<store, catalog>>
     ELSE /\ Joined /\ cm = Nobody
          /\ IF io # Nobody
             THEN /\ At("busy")
                  /\ invalid' = invalid \cup Condemned /\ index' = Reconciled
                  /\ UNCHANGED <<store, lru>>
             ELSE /\ EvictOne
                  /\ At(IF Victims.retired # {} THEN "job" ELSE "failed")
                  /\ UNCHANGED <<io, pub, quarantined>>
  /\ UNCHANGED <<cm, staging, reclamation, req, slot, faults>>

\* The completion callback of a failed write only clears the pending entry.
SettleFailed ==
  /\ worker.st \in {"failed", "busy"} /\ cm = Nobody /\ worker' = Resting
  /\ UNCHANGED <<store, catalog, cm, staging, reclamation, req, slot, faults>>

\* The one of a successful write tracks it and then attaches it to the index.
\* Either may throw, and a publication condemned meanwhile cannot be tracked;
\* the queue swallows the exception.
SettleTrack ==
  /\ worker.st = "done" /\ cm = Nobody
  /\ \E memory \in BOOLEAN :
       /\ Track(worker.id, memory)
       /\ IF memory /\ Found(worker.id) # None
          THEN cm' = "worker" /\ At("tracked")
          ELSE UNCHANGED cm /\ worker' = Resting
  /\ UNCHANGED <<store, staging, reclamation, req, slot, faults>>

SettleAttach ==
  /\ worker.st = "tracked" /\ cm' = Nobody /\ worker' = Resting
  /\ \/ /\ Find(worker.id) # None
        /\ index' = [index EXCEPT ![worker.id].disk = Find(worker.id)]
     \/ UNCHANGED index
  /\ UNCHANGED <<store, lru, invalid, staging, reclamation, req, slot, faults>>

-----------------------------------------------------------------------------
(* A request: Acquire's lookup and the restore of its candidates *)

\* What Lookup offers: the copy in RAM, else the durable one, pinned; nothing
\* for a record whose publication is condemned.
Offered(ix) == {c \in Ckpt : /\ ix[c].disk \notin quarantined
                             /\ ix[c].ram \/ Readable(ix[c].disk)}
Candidate(ix, c) == [id |-> c, disk |-> IF ix[c].ram THEN None ELSE ix[c].disk]

\* Deeper checkpoints are tried first.
Acquire(r) ==
  /\ req[r].st = "idle" /\ cm = Nobody
  /\ invalid' = invalid \cup Condemned /\ index' = Reconciled
  /\ \E ids \in Ascending(Offered(Reconciled)) :
       req' = [req EXCEPT ![r].st = "choose",
         ![r].cands = [i \in DOMAIN ids |->
                         Candidate(Reconciled, ids[Len(ids) + 1 - i])]]
  /\ UNCHANGED <<store, lru, cm, staging, worker, reclamation, slot, faults>>

Current(r) == req[r].cands[req[r].at]
Pending(r) == req[r].st = "choose" /\ req[r].at <= Len(req[r].cands)

\* A restore from RAM settles every load before it answers.
RestoreRam(r) ==
  /\ Pending(r) /\ Current(r).disk = None
  /\ \/ /\ slot' = [slot EXCEPT ![r].st = "ready"]
        /\ req' = [req EXCEPT ![r].st = "restored"]
     \/ /\ slot' = [slot EXCEPT ![r] = EmptySlot]
        /\ req' = [req EXCEPT ![r].at = @ + 1]
  /\ UNCHANGED <<store, catalog, cm, staging, worker, reclamation, faults>>

\* Restore up to BeginRestore: the staging buffer, the publication by its ID.
BeginRestore(r) ==
  /\ Pending(r) /\ Current(r).disk # None /\ staging = Nobody
  /\ staging' = r
  /\ LET e == Found(Current(r).id) IN
     \/ /\ e # None
        /\ req' = [req EXCEPT ![r].st = "load", ![r].open = e]
        /\ slot' = [slot EXCEPT ![r].st = "loading"]
     \/ req' = [req EXCEPT ![r].st = "unwind"] /\ UNCHANGED slot
  /\ UNCHANGED <<store, catalog, cm, worker, reclamation, faults>>

\* One payload.  Its rows may be in the slot before its checksum is known, or
\* before a later piece of it cannot be read.
ReadPayload(r, f) ==
  /\ req[r].st = "load" /\ f \in Needs(req[r].open)
  /\ \A row \in slot[r].rows : row[1] # f
  /\ slot' = [slot EXCEPT ![r].rows = @ \cup {<<f, file[f]>>}]
  /\ \/ file[f] = "good" /\ UNCHANGED <<quarantined, suspect, faults, req>>
     \/ /\ DependencyFailure(f)
        /\ req' = [req EXCEPT ![r].st = "unwind", ![r].failed = {f}]
  /\ UNCHANGED <<io, pub, entries, durable, file, catalog, cm, staging, worker,
                 reclamation>>

\* A lease, a transfer or the validation fails.
FailRestore(r) ==
  /\ req[r].st = "load" /\ req' = [req EXCEPT ![r].st = "unwind"]
  /\ UNCHANGED <<store, catalog, cm, staging, worker, reclamation, slot, faults>>

Loaded(r) == {row[1] : row \in slot[r].rows}

Validate(r) ==
  /\ req[r].st = "load" /\ Loaded(r) = Needs(req[r].open)
  /\ slot' = [slot EXCEPT ![r].st = "ready", ![r].from = req[r].open]
  /\ req' = [req EXCEPT ![r].st = "touch"] /\ staging' = Nobody
  /\ UNCHANGED <<store, catalog, cm, worker, reclamation, faults>>

\* The catch block: the slot is emptied whatever went wrong, then the file
\* that failed is reported.
UnwindWithoutInvalidate(r) ==
  /\ req[r].st = "unwind" /\ staging' = Nobody
  /\ req' = [req EXCEPT
       ![r] = IF @.failed # {} THEN [@ EXCEPT !.st = "report", !.open = None]
              ELSE [@ EXCEPT !.st = "choose", !.open = None,
                                !.at = req[r].at + 1]]
  /\ UNCHANGED <<store, catalog, cm, worker, reclamation, slot, faults>>
Unwind(r) ==
  /\ req[r].st = "unwind" /\ staging' = Nobody
  /\ slot' = [slot EXCEPT ![r] = EmptySlot]
  /\ req' = [req EXCEPT
       ![r] = IF @.failed # {} THEN [@ EXCEPT !.st = "report", !.open = None]
              ELSE [@ EXCEPT !.st = "choose", !.open = None,
                                !.at = req[r].at + 1]]
  /\ UNCHANGED <<store, catalog, cm, worker, reclamation, faults>>

\* dependency_failed
Report(r) ==
  /\ req[r].st = "report" /\ cm = Nobody /\ Invalidate(req[r].failed)
  /\ req' = [req EXCEPT ![r].st = "choose", ![r].failed = {}, ![r].at = @ + 1]
  /\ UNCHANGED <<io, pub, entries, durable, file, suspect, cm, staging, worker,
                 reclamation, slot, faults>>

TouchRestored(r) ==
  /\ req[r].st = "touch" /\ cm = Nobody /\ Touch(Current(r).id)
  /\ req' = [req EXCEPT ![r].st = "restored", ![r].open = None]
  /\ UNCHANGED <<store, invalid, index, cm, staging, worker, reclamation, slot,
                 faults>>

\* There is no room for the history of the restored tokens: the slot is emptied,
\* but the request still counts as restored, so neither another candidate nor the
\* cold initialization follows.
FailHistory(r) ==
  /\ req[r].st = "touch"
  /\ slot' = [slot EXCEPT ![r] = EmptySlot]
  /\ req' = [req EXCEPT ![r] = [Finished EXCEPT !.st = "serving"]]
  /\ UNCHANGED <<store, catalog, cm, staging, worker, reclamation, faults>>

\* A boundary that cannot select the next token is given up after all.
Decide(r) ==
  /\ req[r].st = "restored"
  /\ \/ req' = [req EXCEPT ![r] = [Finished EXCEPT !.st = "serving"]]
        /\ UNCHANGED slot
     \/ req' = [req EXCEPT ![r].st = "choose", ![r].at = @ + 1]
        /\ slot' = [slot EXCEPT ![r] = EmptySlot]
  /\ UNCHANGED <<store, catalog, cm, staging, worker, reclamation, faults>>

\* No candidate is left, or the request was cancelled between two of them.
StartCold(r) ==
  /\ req[r].st = "choose"
  /\ slot' = [slot EXCEPT ![r] = EmptySlot]
  /\ req' = [req EXCEPT ![r] = [Finished EXCEPT !.st = "serving"]]
  /\ UNCHANGED <<store, catalog, cm, staging, worker, reclamation, faults>>

Release(r) ==
  /\ req[r].st = "serving" /\ req' = [req EXCEPT ![r] = Finished]
  /\ slot' = [slot EXCEPT ![r] = EmptySlot]
  /\ UNCHANGED <<store, catalog, cm, staging, worker, reclamation, faults>>

-----------------------------------------------------------------------------
\* The catalog is built from the entries a previous run left, oldest ID first;
\* their payloads are read for the first time by a restore.  The orphans of that
\* run are there until they are reclaimed.  A directory above its budget was cut
\* down by EvictOne before anyone could use the cache, after the reclamation.
Init ==
  /\ \E S \in SUBSET Ckpt : pub \in Ascending(S)
  /\ entries = Epoch /\ durable = Epoch /\ lru = [e \in Epoch |-> e]
  /\ \E B, Orphans \in SUBSET File :
       /\ Cardinality(B) <= MaxFaults /\ faults = Cardinality(B)
       /\ \A f \in Orphans : ~Referenced(f, Epoch)
       /\ file = [f \in File |->
                    IF f \notin Orphans /\ ~Referenced(f, Epoch) THEN "absent"
                    ELSE IF f \in B THEN "bad" ELSE "good"]
       /\ B \subseteq OnDisk
       /\ reclamation \in IF Orphans = {} THEN {"started", "done"} ELSE {"started"}
  /\ Cardinality(OnDisk) <= Capacity
  /\ index = [c \in Ckpt |-> [NoCopy EXCEPT !.disk =
       IF \E e \in Epoch : pub[e] = c THEN CHOOSE e \in Epoch : pub[e] = c
       ELSE None]]
  /\ quarantined = {} /\ suspect = {} /\ invalid = {}
  /\ io = Nobody /\ cm = Nobody /\ staging = Nobody
  /\ worker = Resting
  /\ req = [r \in Request |-> Finished] /\ slot = [r \in Request |-> EmptySlot]

WorkerStep ==
  \/ LockStore \/ Admit \/ WritePayloads \/ Commit \/ Reclaim
  \/ SettleFailed \/ SettleTrack \/ SettleAttach

RequestStep(r) ==
  \/ Acquire(r) \/ RestoreRam(r) \/ BeginRestore(r) \/ FailRestore(r)
  \/ Validate(r) \/ Unwind(r) \/ Report(r) \/ TouchRestored(r) \/ FailHistory(r)
  \/ Decide(r) \/ StartCold(r) \/ Release(r)
  \/ \E f \in File : ReadPayload(r, f)

Next ==
  \/ WorkerStep \/ ReclaimLock \/ ReclaimOrphans \/ ReclaimInvalid
  \/ \E c \in Ckpt : Capture(c) \/ DropResident(c) \/ Retire(c)
  \/ \E f \in File : Damage(f)
  \/ \E r \in Request : RequestStep(r)

Spec == Init /\ [][Next]_vars

-----------------------------------------------------------------------------
(* Properties *)

\* A slot that was restored from disk holds every payload of the publication
\* the lookup chose, verified, although the restore reopens it by ID, streams
\* rows before their checksum is known, and may run while that ID is retired
\* and published again (streaming.cpp: Restore; disk.hpp: "Epochs prevent an
\* old description from acquiring a replacement publication").
RestoredExact ==
  \A r \in Request :
    /\ slot[r].st = "ready" =>
         slot[r].rows = {<<f, "good">> : f \in IF slot[r].from = None THEN {}
                                               ELSE Needs(slot[r].from)}
    /\ req[r].st = "touch" => slot[r].from = Current(r).disk

\* A publication in the store is condemned only for a payload file of which a
\* check failed since the file was written: a report that comes late, after the
\* file was deleted and written again, or one about an earlier epoch, never
\* condemns the checkpoint published since (disk_catalog.cpp: Invalidate).
NoFalseQuarantine == \A e \in entries \cap quarantined : Needs(e) \cap suspect # {}

\* Whatever durable copy the index offers is a record of the catalog, under the
\* ID it was published with: no eviction or quarantine can pass it by.
IndexTracked ==
  \A c \in Ckpt : index[c].disk # None =>
    index[c].disk \in Records /\ pub[index[c].disk] = c

\* Evicting a publication leaves the copy in RAM usable; only retention, or
\* damage to the publication bound to it, takes it from the index
\* (prefix_index.hpp: "ordinary disk eviction retains coherent RAM copies").
EvictionSparesRam ==
  [][\A c \in Ckpt : index[c].ram /\ ~index'[c].ram =>
        \/ index[c].disk \in quarantined' \cup invalid'
        \/ UNCHANGED <<store, lru, invalid, worker, req>>]_vars

\* A write that needs room never finds the store's mutex taken, so it is never
\* dropped for a race with the startup reclamation (component_text_cache.cpp:
\* "a write racing it would be dropped").
WriteNeverBusy == worker.st # "busy"
=============================================================================
