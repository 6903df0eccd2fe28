------------------------------ MODULE DiskStore ------------------------------
(***************************************************************************)
(* The disk tier of the component cache (src/src/cache/disk.cpp): atomic   *)
(* publication, retirement and orphan reclamation of checkpoints on a file *)
(* system that may lose unsynced data and unsynced directory entries.      *)
(*                                                                         *)
(* A checkpoint is a manifest file and the payload files it depends on;    *)
(* full chunks are shared between manifests, tails and private state are   *)
(* not.  Publish, Retire and Reclaim hold one I/O mutex, so pc names the   *)
(* step of the only such operation under way; readers and quarantine take  *)
(* the index mutex alone and interleave with it.  The steps of Publish are *)
(* those the code numbers as DiskPublicationStep.                          *)
(*                                                                         *)
(* The file system (external) is what the code relies on: an entry of a    *)
(* directory is certain only after fsync of the directory, and the bytes   *)
(* of a file only after fsync of the file.  mayHome and mayTmp hold every  *)
(* value an entry can have after a power failure.                          *)
(***************************************************************************)
EXTENDS Integers, FiniteSets, FiniteSetsExt

CONSTANTS Manifest,     \* manifest files, one per publication
          Payload,      \* chunk and private payload files
          Private,      \* the payloads that live in private/ (the rest: chunks/)
          Deps,         \* Deps[m]: the payloads manifest m refers to
          CheckpointOf, \* CheckpointOf[m]: the checkpoint ID m declares
          Size,         \* Size[n]: the length of file n
          Budgets,      \* the budgets the store may be opened with
          Reader        \* holders of a DiskSnapshot or DiskReadPin

Name == Manifest \cup Payload

\* What a name in a directory leads to.  "empty" stands for every length but
\* the right one, "torn" for the right length with other bytes, "dirty" for
\* the right bytes before fsync.
Content == {"absent", "empty", "dirty", "torn", "whole"}
Sized   == {"dirty", "torn", "whole"}

None == "none"

ASSUME DiskAssumption ==
  /\ Manifest \cap Payload = {}
  /\ Private \subseteq Payload
  /\ Deps \in [Manifest -> SUBSET Payload]
  /\ DOMAIN CheckpointOf = Manifest
  /\ None \notin Manifest

\* Sizes are only added up by the accounting.
ASSUME SizeAssumption ==
  /\ IsFiniteSet(Manifest \cup Payload)
  /\ \A n \in Manifest \cup Payload : Size[n] \in Nat \ {0}
  /\ Budgets \subseteq Nat

VARIABLES
  home,     \* manifests/, chunks/, private/ as the running process sees them
  mayHome,  \* what a power failure may leave there
  tmp,      \* tmp/, whose namespace all files share
  mayTmp,   \* what a power failure may leave there
  up,       \* the store is open
  entries,  \* the index, a publication's candidate included
  durable,  \* the entries with durable_
  quarantined, \* the entries without available_
  recovery, \* recovery_required
  managed,  \* stats.managed_bytes
  budget,   \* budget_bytes
  pc,       \* the next step of the operation that holds the I/O mutex
  subject,  \* the manifest it is about
  todo,     \* payload files it has yet to write or remove
  pins,     \* pins[r]: the manifest reader r keeps open
  acked,    \* history: checkpoints shown as durable and not retired since
  gone      \* history: manifests reported as durably removed

fs   == <<home, mayHome, tmp, mayTmp>>
idx  == <<entries, durable, quarantined>>
vars == <<fs, up, idx, recovery, managed, budget, pc, subject, todo, pins,
          acked, gone>>

-----------------------------------------------------------------------------
(* The file system (external) *)

DirOf(n) == IF n \in Manifest THEN "manifests"
            ELSE IF n \in Private THEN "private" ELSE "chunks"

Create(n) ==
  /\ tmp[n] = "absent"
  /\ tmp' = [tmp EXCEPT ![n] = "empty"]
  /\ mayTmp' = [mayTmp EXCEPT ![n] = @ \cup {"empty"}]
  /\ UNCHANGED <<home, mayHome>>

\* The same file, of which fsync or a crash decides what reached the disk.
Rewrite(n, was, is) ==
  /\ tmp[n] = was
  /\ tmp' = [tmp EXCEPT ![n] = is]
  /\ mayTmp' = [mayTmp EXCEPT ![n] = (@ \ {was}) \cup {is}]
  /\ UNCHANGED <<home, mayHome>>

RenameNoReplace(n) ==
  /\ home[n] = "absent" /\ tmp[n] # "absent"
  /\ home' = [home EXCEPT ![n] = tmp[n]]
  /\ mayHome' = [mayHome EXCEPT ![n] = @ \cup {tmp[n]}]
  /\ tmp' = [tmp EXCEPT ![n] = "absent"]
  /\ mayTmp' = [mayTmp EXCEPT ![n] = @ \cup {"absent"}]

Unlink(n) ==
  /\ home' = [home EXCEPT ![n] = "absent"]
  /\ mayHome' = [mayHome EXCEPT ![n] = @ \cup {"absent"}]
  /\ UNCHANGED <<tmp, mayTmp>>

UnlinkTemporary(n) ==
  /\ tmp' = [tmp EXCEPT ![n] = "absent"]
  /\ mayTmp' = [mayTmp EXCEPT ![n] = @ \cup {"absent"}]
  /\ UNCHANGED <<home, mayHome>>

SyncDirectory(d) ==
  /\ mayHome' = [n \in Name |-> IF DirOf(n) = d THEN {home[n]} ELSE mayHome[n]]
  /\ UNCHANGED <<home, tmp, mayTmp>>

SyncTemporary ==
  /\ mayTmp' = [n \in Name |-> {tmp[n]}]
  /\ UNCHANGED <<home, mayHome, tmp>>

\* What a power failure makes of an entry that may have these values.
Survivors(S) ==
  (S \ {"dirty"}) \cup IF "dirty" \in S THEN {"empty", "torn", "whole"} ELSE {}

\* The entries a power failure may change.
Unsettled(now, may) == {n \in Name : Survivors(may[n]) # {now[n]}}

Settled(now, n, lost) == IF n \in DOMAIN lost THEN lost[n] ELSE now[n]

PowerFailure ==
  \E h \in [Unsettled(home, mayHome) -> Content] :
  \E t \in [Unsettled(tmp, mayTmp) -> Content] :
    /\ \A n \in DOMAIN h : h[n] \in Survivors(mayHome[n])
    /\ \A n \in DOMAIN t : t[n] \in Survivors(mayTmp[n])
    /\ home' = [n \in Name |-> Settled(home, n, h)]
    /\ tmp' = [n \in Name |-> Settled(tmp, n, t)]
    /\ mayHome' = [n \in Name |-> {home'[n]}]
    /\ mayTmp' = [n \in Name |-> {tmp'[n]}]

Bytes(S) == MapThenSumSet(LAMBDA n : Size[n], S)

\* The bytes a scan of the four directories counts.
Scanned(h, t) == Bytes({n \in Name : h[n] \in Sized})
                   + Bytes({n \in Name : t[n] \in Sized})

-----------------------------------------------------------------------------
(* Manifests and references *)

Referenced(p) == \E e \in entries : p \in Deps[e]

\* Two manifests that cannot both be valid: they declare the same checkpoint
\* or alias a private file.  The third clause of ValidateReferences, shared
\* chunks of different geometry, cannot arise: a chunk's name is derived from
\* the chunk's identity.
Conflicts(a, b) == \/ CheckpointOf[a] = CheckpointOf[b]
                   \/ Deps[a] \cap Deps[b] \cap Private # {}

\* ReadManifest and Check: the manifest decodes, each payload has its length.
\* Payload bytes are not read.
Readable(m) == /\ home[m] \in {"dirty", "whole"}
               /\ \A p \in Deps[m] : home[p] \in Sized

Accepted == {m \in Manifest :
               /\ Readable(m)
               /\ \A e \in Manifest \ {m} : Readable(e) => ~Conflicts(e, m)}

\* The bytes of a publication that the store does not hold yet.
Additional(m) == Size[m] + Bytes({p \in Deps[m] : ~Referenced(p)})

-----------------------------------------------------------------------------
(* The store *)

Init ==
  /\ home = [n \in Name |-> "absent"] /\ mayHome = [n \in Name |-> {"absent"}]
  /\ tmp = [n \in Name |-> "absent"]  /\ mayTmp = [n \in Name |-> {"absent"}]
  /\ up = FALSE
  /\ entries = {} /\ durable = {} /\ quarantined = {}
  /\ recovery = FALSE /\ managed = 0 /\ budget = 0
  /\ pc = "idle" /\ subject = None /\ todo = {}
  /\ pins = [r \in Reader |-> None]
  /\ acked = {} /\ gone = {}

\* Mutant: rejected manifests do not hold up new publications.
StartupForgiving(b) ==
  /\ ~up /\ up' = TRUE
  /\ entries' = Accepted /\ durable' = Accepted /\ quarantined' = {}
  /\ recovery' = FALSE
  /\ managed' = Scanned(home, tmp) /\ budget' = b
  /\ mayHome' = [n \in Name |-> {home[n]}]
  /\ mayTmp' = [n \in Name |-> {tmp[n]}]
  /\ acked' = acked \cup Accepted
  /\ UNCHANGED <<home, tmp, pc, subject, todo, pins, gone>>

\* Opening the directory: scan, check and index the manifests, then persist
\* the namespace that was found.
Startup(b) ==
  /\ ~up /\ up' = TRUE
  /\ entries' = Accepted /\ durable' = Accepted /\ quarantined' = {}
  /\ recovery' = (\E m \in Manifest : home[m] # "absent" /\ m \notin Accepted)
  /\ managed' = Scanned(home, tmp) /\ budget' = b
  /\ mayHome' = [n \in Name |-> {home[n]}]
  /\ mayTmp' = [n \in Name |-> {tmp[n]}]
  /\ acked' = acked \cup Accepted
  /\ UNCHANGED <<home, tmp, pc, subject, todo, pins, gone>>

\* The state of the process is lost; with the power, so is what was not synced.
Crash ==
  /\ up /\ up' = FALSE
  /\ UNCHANGED fs \/ PowerFailure
  /\ entries' = {} /\ durable' = {} /\ quarantined' = {}
  /\ recovery' = FALSE /\ managed' = 0 /\ budget' = 0
  /\ pc' = "idle" /\ subject' = None /\ todo' = {}
  /\ pins' = [r \in Reader |-> None]
  /\ UNCHANGED <<acked, gone>>

\* A payload file is lost while no process owns the directory (external).  The
\* checkpoints that need it are no longer promised to anyone.
LosePayload(p) ==
  /\ ~up /\ home[p] # "absent"
  /\ home' = [home EXCEPT ![p] = "absent"]
  /\ mayHome' = [mayHome EXCEPT ![p] = {"absent"}]
  /\ acked' = {m \in acked : p \notin Deps[m]}
  /\ UNCHANGED <<tmp, mayTmp, up, idx, recovery, managed, budget, pc, subject,
                 todo, pins, gone>>

-----------------------------------------------------------------------------
(* Readers and quarantine: the index mutex alone *)

Pin(r, m) ==
  /\ up /\ pins[r] = None /\ m \in durable \ quarantined
  /\ pins' = [pins EXCEPT ![r] = m]
  /\ UNCHANGED <<fs, up, idx, recovery, managed, budget, pc, subject, todo,
                 acked, gone>>

Unpin(r) ==
  /\ up /\ pins[r] # None
  /\ pins' = [pins EXCEPT ![r] = None]
  /\ UNCHANGED <<fs, up, idx, recovery, managed, budget, pc, subject, todo,
                 acked, gone>>

\* A dependency failed to read or verify, or the caller distrusts it: every
\* entry that refers to it, the candidate included, becomes unavailable.
Quarantine(p) ==
  /\ up
  /\ quarantined' = quarantined \cup {e \in entries : p \in Deps[e]}
  /\ UNCHANGED <<fs, up, entries, durable, recovery, managed, budget, pc,
                 subject, todo, pins, acked, gone>>

Invalidate(m) ==
  /\ up /\ m \in durable
  /\ quarantined' = quarantined \cup {m}
  /\ UNCHANGED <<fs, up, entries, durable, recovery, managed, budget, pc,
                 subject, todo, pins, acked, gone>>

-----------------------------------------------------------------------------
(* Publication *)

\* The parts of the state a step of an operation under way leaves alone.
elsewhere == <<up, recovery, budget, pins, acked, gone>>

\* The checks before the candidate enters the index: RequireRecovered, no file
\* under the new names, verified dependencies, capacity, no quarantined
\* dependency, ValidateReferences.
Admitted(m) ==
  /\ ~recovery
  /\ home[m] = "absent" /\ tmp[m] = "absent"
  /\ \A p \in Deps[m] :
       IF Referenced(p) THEN home[p] = "whole"
                        ELSE home[p] = "absent" /\ tmp[p] = "absent"
  /\ managed + Additional(m) <= budget
  /\ \A e \in quarantined : Deps[e] \cap Deps[m] = {}
  /\ \A e \in entries : ~Conflicts(e, m)

PublishBegin(m) ==
  /\ up /\ pc = "idle" /\ Admitted(m)
  /\ entries' = entries \cup {m}
  /\ pc' = "payload" /\ subject' = m
  /\ todo' = {p \in Deps[m] : home[p] = "absent"}
  /\ gone' = gone \ {m}
  /\ UNCHANGED <<fs, up, durable, quarantined, recovery, managed, budget, pins,
                 acked>>

\* Payload files are written one after the other: at "payload" the next one is
\* created, then written, synced and renamed.
PayloadCreate(p) ==
  /\ pc = "payload" /\ p \in todo /\ \A q \in todo : tmp[q] = "absent"
  /\ Create(p)
  /\ UNCHANGED <<elsewhere, idx, managed, pc, subject, todo>>

PayloadWrite(p) ==
  /\ pc = "payload" /\ p \in todo /\ Rewrite(p, "empty", "dirty")
  /\ managed' = managed + Size[p]
  /\ UNCHANGED <<elsewhere, idx, pc, subject, todo>>

PayloadSync(p) ==
  /\ pc = "payload" /\ p \in todo /\ Rewrite(p, "dirty", "whole")
  /\ UNCHANGED <<elsewhere, idx, managed, pc, subject, todo>>

PayloadRename(p) ==
  /\ pc = "payload" /\ p \in todo /\ tmp[p] = "whole"
  /\ RenameNoReplace(p)
  /\ todo' = todo \ {p}
  /\ UNCHANGED <<elsewhere, idx, managed, pc, subject>>

PublishSyncTemporary ==
  /\ pc = "payload" /\ todo = {}
  /\ SyncTemporary /\ pc' = "syncChunks"
  /\ UNCHANGED <<elsewhere, idx, managed, subject, todo>>

PublishSyncChunks ==
  /\ pc = "syncChunks"
  /\ SyncDirectory("chunks") /\ pc' = "syncPrivate"
  /\ UNCHANGED <<elsewhere, idx, managed, subject, todo>>

\* Mutant: the entries of private/ are not synced before the manifest.
PublishSyncPrivateSkipped ==
  /\ pc = "syncPrivate" /\ pc' = "check"
  /\ UNCHANGED <<fs, elsewhere, idx, managed, subject, todo>>

PublishSyncPrivate ==
  /\ pc = "syncPrivate"
  /\ SyncDirectory("private") /\ pc' = "check"
  /\ UNCHANGED <<elsewhere, idx, managed, subject, todo>>

\* The first look at available_ and the temporary manifest file.
ManifestCreate ==
  /\ pc = "check" /\ subject \notin quarantined
  /\ Create(subject) /\ pc' = "manifestWrite"
  /\ UNCHANGED <<elsewhere, idx, managed, subject, todo>>

ManifestWrite ==
  /\ pc = "manifestWrite" /\ Rewrite(subject, "empty", "dirty")
  /\ managed' = managed + Size[subject] /\ pc' = "manifestSync"
  /\ UNCHANGED <<elsewhere, idx, subject, todo>>

ManifestSync ==
  /\ pc = "manifestSync" /\ Rewrite(subject, "dirty", "whole")
  /\ pc' = "manifestRename"
  /\ UNCHANGED <<elsewhere, idx, managed, subject, todo>>

ManifestRename ==
  /\ pc = "manifestRename" /\ RenameNoReplace(subject)
  /\ pc' = "syncManifests"
  /\ UNCHANGED <<elsewhere, idx, managed, subject, todo>>

PublishSyncManifests ==
  /\ pc = "syncManifests"
  /\ SyncDirectory("manifests") /\ pc' = "syncRenames"
  /\ UNCHANGED <<elsewhere, idx, managed, subject, todo>>

PublishSyncRenames ==
  /\ pc = "syncRenames"
  /\ SyncTemporary /\ pc' = "index"
  /\ UNCHANGED <<elsewhere, idx, managed, subject, todo>>

\* The second look at available_; the candidate becomes visible.
PublishEnd ==
  /\ pc = "index" /\ subject \notin quarantined
  /\ durable' = durable \cup {subject}
  /\ acked' = acked \cup {subject}
  /\ pc' = "idle" /\ subject' = None
  /\ UNCHANGED <<fs, up, entries, quarantined, recovery, managed, budget, todo,
                 pins, gone>>

Publishing == {"payload", "syncChunks", "syncPrivate", "check", "manifestWrite",
               "manifestSync", "manifestRename", "syncManifests", "syncRenames",
               "index"}
\* The steps after manifest_attempted is set.
Attempted == {"manifestRename", "syncManifests", "syncRenames", "index"}

\* Mutant: a failed barrier after the manifest's rename is forgotten.
PublishThrowForgotten ==
  /\ pc \in Publishing
  /\ entries' = entries \ {subject} /\ quarantined' = quarantined \ {subject}
  /\ pc' = "idle" /\ subject' = None /\ todo' = {}
  /\ UNCHANGED <<fs, up, durable, recovery, managed, budget, pins, acked, gone>>

\* Any step may throw (I/O error, cancelled source, quarantine): the candidate
\* leaves the index, every byte stays, and after the manifest's rename was
\* attempted the outcome is uncertain.
PublishThrow ==
  /\ pc \in Publishing
  /\ entries' = entries \ {subject} /\ quarantined' = quarantined \ {subject}
  /\ recovery' = (recovery \/ pc \in Attempted)
  /\ pc' = "idle" /\ subject' = None /\ todo' = {}
  /\ UNCHANGED <<fs, up, durable, managed, budget, pins, acked, gone>>

-----------------------------------------------------------------------------
(* Retirement *)

\* Mutant: a checkpoint that is being read is retired.
RetirablePinned(m) == m \in entries

Retirable(m) == m \in entries /\ \A r \in Reader : pins[r] # m

RetireBegin(m) ==
  /\ up /\ pc = "idle" /\ ~recovery /\ Retirable(m)
  /\ entries' = entries \ {m} /\ durable' = durable \ {m}
  /\ quarantined' = quarantined \ {m}
  /\ acked' = acked \ {m}
  /\ pc' = "unlink" /\ subject' = m
  /\ UNCHANGED <<fs, up, recovery, managed, budget, todo, pins, gone>>

\* The credit of Remove for a file that is there.
Credit(n) == IF home[n] \in Sized THEN Size[n] ELSE 0

RetireUnlink ==
  /\ pc = "unlink" /\ Unlink(subject)
  /\ managed' = managed - Credit(subject) /\ pc' = "unlinkSync"
  /\ UNCHANGED <<elsewhere, idx, subject, todo>>

\* Mutant: payloads are removed before the manifest's removal is durable.
RetireSyncSkipped ==
  /\ pc = "unlinkSync"
  /\ todo' = {p \in Deps[subject] : ~Referenced(p)} /\ pc' = "remove"
  /\ UNCHANGED <<fs, elsewhere, idx, managed, subject>>

RetireSync ==
  /\ pc = "unlinkSync" /\ SyncDirectory("manifests")
  /\ todo' = {p \in Deps[subject] : ~Referenced(p)} /\ pc' = "remove"
  /\ UNCHANGED <<elsewhere, idx, managed, subject>>

RetireRemove(p) ==
  /\ pc = "remove" /\ p \in todo /\ Unlink(p)
  /\ managed' = managed - Credit(p) /\ todo' = todo \ {p}
  /\ UNCHANGED <<elsewhere, idx, pc, subject>>

RetireSyncChunks ==
  /\ pc = "remove" /\ todo = {}
  /\ SyncDirectory("chunks") /\ pc' = "removeSync"
  /\ UNCHANGED <<elsewhere, idx, managed, subject, todo>>

\* Mutant: capacity is given back before the removals are durable.
RetireEndUnsynced ==
  /\ pc = "removeSync"
  /\ gone' = gone \cup {subject}
  /\ pc' = "idle" /\ subject' = None
  /\ UNCHANGED <<fs, up, idx, recovery, managed, budget, todo, pins, acked>>

RetireEnd ==
  /\ pc = "removeSync" /\ SyncDirectory("private")
  /\ gone' = gone \cup {subject}
  /\ pc' = "idle" /\ subject' = None
  /\ UNCHANGED <<up, idx, recovery, managed, budget, todo, pins, acked>>

Retiring == {"unlink", "unlinkSync", "remove", "removeSync"}

\* Mutant: an uncertain removal does not ask for recovery.
RetireThrowForgotten ==
  /\ pc \in Retiring
  /\ \/ UNCHANGED fs
     \/ pc = "unlink" /\ Unlink(subject)
     \/ pc = "remove" /\ \E p \in todo : Unlink(p)
  /\ pc' = "idle" /\ subject' = None /\ todo' = {}
  /\ UNCHANGED <<up, idx, recovery, managed, budget, pins, acked, gone>>

\* A removal that reports an error may have happened all the same.
RetireThrow ==
  /\ pc \in Retiring
  /\ \/ UNCHANGED fs
     \/ pc = "unlink" /\ Unlink(subject)
     \/ pc = "remove" /\ \E p \in todo : Unlink(p)
  /\ recovery' = TRUE
  /\ pc' = "idle" /\ subject' = None /\ todo' = {}
  /\ UNCHANGED <<up, idx, managed, budget, pins, acked, gone>>

-----------------------------------------------------------------------------
(* Reclamation of orphans *)

ReclaimBegin ==
  /\ up /\ pc = "idle"
  /\ recovery' = TRUE /\ pc' = "manifests"
  /\ UNCHANGED <<fs, up, idx, managed, budget, subject, todo, pins, acked, gone>>

Orphan(n) == IF n \in Manifest THEN n \notin entries ELSE ~Referenced(n)

\* The files of directory d that no entry refers to.
OrphansIn(d) == {n \in Name : DirOf(n) = d /\ home[n] # "absent" /\ Orphan(n)}

ReclaimRemove(n) ==
  /\ pc \in {"manifests", "chunks", "private"} /\ n \in OrphansIn(pc)
  /\ Unlink(n) /\ managed' = managed - Credit(n)
  /\ UNCHANGED <<elsewhere, idx, pc, subject, todo>>

\* The directory Reclaim turns to after d.
After(d) == CASE d = "manifests" -> "chunks" [] d = "chunks" -> "private"
              [] d = "private" -> "tmp"

ReclaimSync ==
  /\ pc \in {"manifests", "chunks", "private"} /\ OrphansIn(pc) = {}
  /\ SyncDirectory(pc) /\ pc' = After(pc)
  /\ UNCHANGED <<elsewhere, idx, managed, subject, todo>>

ReclaimTemporary(n) ==
  /\ pc = "tmp" /\ tmp[n] # "absent" /\ UnlinkTemporary(n)
  /\ managed' = managed - (IF tmp[n] \in Sized THEN Size[n] ELSE 0)
  /\ UNCHANGED <<elsewhere, idx, pc, subject, todo>>

ReclaimEnd ==
  /\ pc = "tmp" /\ \A n \in Name : tmp[n] = "absent"
  /\ SyncTemporary
  /\ managed' = Scanned(home, tmp) /\ recovery' = FALSE
  /\ gone' = gone \cup (Manifest \ entries)
  /\ pc' = "idle"
  /\ UNCHANGED <<up, idx, budget, subject, todo, pins, acked>>

Reclaiming == {"manifests", "chunks", "private", "tmp"}

ReclaimThrow ==
  /\ pc \in Reclaiming
  /\ \/ UNCHANGED fs
     \/ pc # "tmp" /\ \E n \in OrphansIn(pc) : Unlink(n)
     \/ pc = "tmp" /\ \E n \in Name : tmp[n] # "absent" /\ UnlinkTemporary(n)
  /\ pc' = "idle"
  /\ UNCHANGED <<up, idx, recovery, managed, budget, subject, todo, pins, acked,
                 gone>>

-----------------------------------------------------------------------------
Next ==
  \/ \E b \in Budgets : Startup(b)
  \/ Crash
  \/ \E p \in Payload : LosePayload(p)
  \/ \E r \in Reader, m \in Manifest : Pin(r, m)
  \/ \E r \in Reader : Unpin(r)
  \/ \E p \in Payload : Quarantine(p)
  \/ \E m \in Manifest : Invalidate(m)
  \/ \E m \in Manifest : PublishBegin(m)
  \/ \E p \in Payload : PayloadCreate(p)
  \/ \E p \in Payload : PayloadWrite(p)
  \/ \E p \in Payload : PayloadSync(p)
  \/ \E p \in Payload : PayloadRename(p)
  \/ PublishSyncTemporary \/ PublishSyncChunks \/ PublishSyncPrivate
  \/ ManifestCreate \/ ManifestWrite \/ ManifestSync \/ ManifestRename
  \/ PublishSyncManifests \/ PublishSyncRenames \/ PublishEnd \/ PublishThrow
  \/ \E m \in Manifest : RetireBegin(m)
  \/ RetireUnlink \/ RetireSync \/ RetireSyncChunks \/ RetireEnd \/ RetireThrow
  \/ \E p \in Payload : RetireRemove(p)
  \/ ReclaimBegin \/ ReclaimSync \/ ReclaimEnd \/ ReclaimThrow
  \/ \E n \in Name : ReclaimRemove(n)
  \/ \E n \in Name : ReclaimTemporary(n)

Spec == Init /\ [][Next]_vars

-----------------------------------------------------------------------------
(* Properties *)

\* Every variable has its type; the index holds what is durable and, during a
\* publication, the candidate.
TypeOK ==
  /\ home \in [Name -> Content] /\ tmp \in [Name -> Content]
  /\ mayHome \in [Name -> SUBSET Content] /\ mayTmp \in [Name -> SUBSET Content]
  /\ up \in BOOLEAN /\ recovery \in BOOLEAN
  /\ entries \subseteq Manifest /\ durable \subseteq entries
  /\ quarantined \subseteq entries
  /\ entries \ durable = IF pc \in Publishing THEN {subject} ELSE {}
  /\ managed \in Nat /\ budget \in Nat
  /\ pc \in {"idle"} \cup Publishing \cup Retiring \cup Reclaiming
  /\ subject \in Manifest \cup {None}
  /\ todo \subseteq Payload
  /\ pins \in [Reader -> Manifest \cup {None}]
  /\ acked \subseteq Manifest /\ gone \subseteq Manifest

\* A checkpoint that was ever shown as durable, because its publication returned
\* or because an earlier start found it, is still there after any sequence of
\* crashes, power failures, failed operations, retirements of other checkpoints
\* and reclamations (the order of barriers in Publish, Retire and Reclaim, and
\* the recovery_required gate).
PublishedSurvives == up => acked \subseteq durable

\* Startup reads no payload, so the store relies on its barriers: each entry it
\* exposes has every payload on disk, complete, whatever a power failure does.
EntriesComplete ==
  \A m \in durable : \A p \in Deps[m] : mayHome[p] = {"whole"}

\* A checkpoint reported as retired, or an orphan reported as reclaimed, never
\* returns to the index by itself.
RetiredStaysGone == gone \cap entries = {}

\* While a reader holds a pin, the entry and every file it may read stay.
PinnedFilesStay ==
  \A r \in Reader : pins[r] # None =>
    /\ pins[r] \in entries
    /\ \A p \in Deps[pins[r]] : home[p] = "whole"

\* The names that may hold bytes after a power failure.
MayRemain == {n \in Name : (mayHome[n] \cup mayTmp[n]) \cap Sized # {}}

\* A step that leaves another name for a power failure to keep stays within the
\* budget: capacity freed by a removal is not spent before the removal is durable.
GrowthWithinBudget ==
  [][MayRemain' \subseteq MayRemain \/ Bytes(MayRemain)' <= budget']_vars

\* The byte count is exact unless an outcome is uncertain, and never too low.
ManagedBytesExact ==
  /\ TypeOK
  /\ up => /\ managed >= Scanned(home, tmp)
           /\ pc \in {"idle"} \cup Publishing /\ ~recovery
                => managed = Scanned(home, tmp)

Store == INSTANCE CheckpointStore WITH visible <- durable, promised <- acked

\* The file protocol implements the atomic store of CheckpointStore: every step
\* is one of its steps or changes nothing a caller can observe.
ImplementsCheckpointStore == Store!Spec
=============================================================================
