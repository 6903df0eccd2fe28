--------------------------- MODULE DiskStoreProofs ---------------------------
(***************************************************************************)
(* Crash safety of DiskStore, for any set of manifests and payloads and    *)
(* any dependencies between them; then its byte count and budget.          *)
(*                                                                         *)
(* The invariant is stated over three sets of names: Held, what the        *)
(* process sees; Maybe, what a power failure may leave; Sure, what every   *)
(* power failure leaves.  The first lemmas say what each file operation    *)
(* does to these sets; the rest of the proof does not look at files again. *)
(***************************************************************************)
EXTENDS DiskStore, SumLemmas, TLAPS

Held  == {n \in Name : home[n] = "whole"}
Maybe == {n \in Name : "whole" \in mayHome[n]}
Sure  == {n \in Name : mayHome[n] = {"whole"}}

\* Files reach their directory only when their bytes are synced.
Files ==
  /\ home \in [Name -> Content] /\ mayHome \in [Name -> SUBSET Content]
  /\ tmp \in [Name -> Content]
  /\ \A n \in Name : home[n] \in mayHome[n] /\ mayHome[n] \subseteq {"absent", "whole"}

Control ==
  /\ up \in BOOLEAN /\ recovery \in BOOLEAN
  /\ entries \subseteq Manifest /\ todo \subseteq Payload
  /\ acked \subseteq Manifest /\ gone \subseteq Manifest
  /\ pc \in {"idle"} \cup Publishing \cup Retiring \cup Reclaiming
  /\ pc \in Publishing =>
       subject \in Manifest /\ entries = durable \cup {subject} /\ subject \notin durable
  /\ pc \notin Publishing => entries = durable
  /\ pc \in Retiring => subject \in Manifest /\ subject \notin entries
  /\ pc \in Publishing \cup Retiring => ~recovery
  /\ pc # "idle" => up
  /\ up => acked = durable
  /\ ~up => durable = {}

\* What was shown as durable is certain, manifest and payloads.
Promised == \A m \in acked : m \in Sure /\ Deps[m] \subseteq Sure

\* Manifests that may be found together do not contradict each other.
Compatible ==
  /\ \A e, f \in Manifest : e \in Maybe /\ f \in Maybe /\ e # f => ~Conflicts(e, f)
  /\ \A e, f \in entries : e # f => ~Conflicts(e, f)

\* Unless recovery is due, every manifest that may be found is in the index.
Accounted ==
  up /\ ~recovery =>
    \A m \in Manifest : m \in Maybe => m \in entries \/ (pc \in Retiring /\ m = subject)

\* How far the publication under way has come.
Publication ==
  /\ pc \in Publishing \ {"syncManifests", "syncRenames", "index"} => subject \notin Maybe
  /\ pc = "payload" => Deps[subject] \ todo \subseteq Held
  /\ pc \in {"syncChunks", "syncPrivate"} => Deps[subject] \subseteq Held
  /\ pc = "syncPrivate" => Deps[subject] \ Private \subseteq Sure
  /\ pc \in Publishing \ {"payload", "syncChunks", "syncPrivate"} => Deps[subject] \subseteq Sure
  /\ pc = "manifestRename" => tmp[subject] = "whole"
  /\ pc = "syncManifests" => subject \in Held
  /\ pc \in {"syncRenames", "index"} => subject \in Sure

\* How far the retirement under way has come.
Retirement ==
  /\ pc = "unlinkSync" => subject \notin Held
  /\ pc \in {"remove", "removeSync"} => subject \notin Maybe
  /\ pc = "remove" => \A p \in todo : ~Referenced(p)

\* How far the reclamation under way has come.
Reclamation ==
  pc \in {"chunks", "private", "tmp"} => \A m \in Manifest : m \in Maybe => m \in entries

\* What was reported as removed cannot be found again.
Removed == \A m \in gone : m \notin Maybe /\ m \notin entries

\* Readers only hold entries of the index.
Readers == pins \in [Reader -> durable \cup {None}]

CrashSafe ==
  /\ Files /\ Control /\ Promised /\ Compatible /\ Accounted /\ Publication
  /\ Retirement /\ Reclamation /\ Removed /\ Readers

-----------------------------------------------------------------------------
(* What the file operations do to the three sets *)

\* The three sets are nested, and outside Maybe a name is surely absent.
LEMMA Nested ==
  ASSUME Files
  PROVE  /\ Sure \subseteq Held /\ Held \subseteq Maybe /\ Maybe \subseteq Name
         /\ \A n \in Name : home[n] = IF n \in Held THEN "whole" ELSE "absent"
         /\ \A n \in Name : n \in Maybe \/ mayHome[n] = {"absent"}
BY DEF Files, Held, Maybe, Sure

\* Steps in tmp/ leave the three sets alone.
LEMMA SameHome ==
  ASSUME Files, UNCHANGED <<home, mayHome>>
  PROVE  Held' = Held /\ Maybe' = Maybe /\ Sure' = Sure
BY DEF Held, Maybe, Sure

LEMMA TmpFiles ==
  ASSUME Files, UNCHANGED <<home, mayHome>>, tmp' \in [Name -> Content]
  PROVE  Files'
BY DEF Files

\* A renamed file is seen at once, and certain only later.
LEMMA RenameSets ==
  ASSUME Files, NEW n \in Name, tmp[n] = "whole", RenameNoReplace(n)
  PROVE  /\ Files' /\ n \notin Held
         /\ Held' = Held \cup {n} /\ Maybe' = Maybe \cup {n} /\ Sure' = Sure
<1>1. /\ home' = [home EXCEPT ![n] = "whole"] /\ home[n] = "absent"
      /\ mayHome' = [mayHome EXCEPT ![n] = @ \cup {"whole"}]
      /\ tmp' = [tmp EXCEPT ![n] = "absent"]
  BY DEF RenameNoReplace
<1>2. Files'
  BY <1>1 DEF Files, Content
<1>3. Held' = Held \cup {n} /\ Maybe' = Maybe \cup {n} /\ n \notin Held
  BY <1>1 DEF Files, Held, Maybe
<1>4. Sure' = Sure
  <2>1. "absent" \in mayHome[n]
    BY <1>1 DEF Files
  <2> QED BY <1>1, <2>1 DEF Files, Sure
<1> QED BY <1>2, <1>3, <1>4

\* A removed file is gone at once, and surely gone only later.
LEMMA UnlinkSets ==
  ASSUME Files, NEW n \in Name, Unlink(n)
  PROVE  Files' /\ Held' = Held \ {n} /\ Maybe' = Maybe /\ Sure' = Sure \ {n}
<1>1. /\ home' = [home EXCEPT ![n] = "absent"]
      /\ mayHome' = [mayHome EXCEPT ![n] = @ \cup {"absent"}]
      /\ tmp' = tmp
  BY DEF Unlink
<1>2. Files'
  BY <1>1 DEF Files, Content
<1>3. Held' = Held \ {n} /\ Maybe' = Maybe
  BY <1>1 DEF Files, Held, Maybe
<1>4. Sure' = Sure \ {n}
  BY <1>1 DEF Files, Sure
<1> QED BY <1>2, <1>3, <1>4

\* After fsync of a directory what is seen there is what is certain.
LEMMA SyncSets ==
  ASSUME Files, NEW d, SyncDirectory(d)
  PROVE  /\ Files' /\ Held' = Held
         /\ Maybe' = {n \in Name : IF DirOf(n) = d THEN n \in Held ELSE n \in Maybe}
         /\ Sure' = {n \in Name : IF DirOf(n) = d THEN n \in Held ELSE n \in Sure}
<1>1. /\ home' = home /\ tmp' = tmp
      /\ mayHome' = [n \in Name |-> IF DirOf(n) = d THEN {home[n]} ELSE mayHome[n]]
  BY DEF SyncDirectory
<1>2. Files'
  BY <1>1 DEF Files
<1>3. Held' = Held
  BY <1>1 DEF Held
<1>4. Maybe' = {n \in Name : IF DirOf(n) = d THEN n \in Held ELSE n \in Maybe}
  BY <1>1 DEF Files, Maybe, Held
<1>5. Sure' = {n \in Name : IF DirOf(n) = d THEN n \in Held ELSE n \in Sure}
  BY <1>1 DEF Files, Sure, Held
<1> QED BY <1>2, <1>3, <1>4, <1>5

\* A power failure keeps what is certain and adds nothing impossible.
LEMMA PowerSets ==
  ASSUME Files, PowerFailure
  PROVE  /\ Files' /\ Maybe' = Held' /\ Sure' = Held'
         /\ Sure \subseteq Held' /\ Held' \subseteq Maybe
<1>1. PICK h \in [Unsettled(home, mayHome) -> Content],
           t \in [Unsettled(tmp, mayTmp) -> Content] :
        /\ \A n \in DOMAIN h : h[n] \in Survivors(mayHome[n])
        /\ \A n \in DOMAIN t : t[n] \in Survivors(mayTmp[n])
        /\ home' = [n \in Name |-> Settled(home, n, h)]
        /\ tmp' = [n \in Name |-> Settled(tmp, n, t)]
        /\ mayHome' = [n \in Name |-> {home'[n]}]
  BY DEF PowerFailure
<1>2. \A n \in Name : Survivors(mayHome[n]) = mayHome[n]
  BY DEF Files, Survivors
<1>3. \A n \in Name : home'[n] \in mayHome[n]
  <2> SUFFICES ASSUME NEW n \in Name PROVE home'[n] \in mayHome[n]
    OBVIOUS
  <2>1. home'[n] = Settled(home, n, h)
    BY <1>1
  <2>2. CASE n \in DOMAIN h
    BY <1>1, <1>2, <2>1, <2>2 DEF Settled
  <2>3. CASE n \notin DOMAIN h
    BY <2>1, <2>3 DEF Settled, Files
  <2> QED BY <2>2, <2>3
<1>4. tmp' \in [Name -> Content]
  <2> SUFFICES ASSUME NEW n \in Name PROVE Settled(tmp, n, t) \in Content
    BY <1>1
  <2> QED BY <1>1 DEF Settled, Files
<1>5. home' \in [Name -> Content]
  BY <1>1, <1>3 DEF Files
<1>6. Files'
  BY <1>1, <1>3, <1>4, <1>5 DEF Files
<1>7. Maybe' = Held' /\ Sure' = Held'
  BY <1>1, <1>5 DEF Maybe, Held, Sure
<1>8. Sure \subseteq Held' /\ Held' \subseteq Maybe
  BY <1>3 DEF Maybe, Held, Sure
<1> QED BY <1>6, <1>7, <1>8

-----------------------------------------------------------------------------
(* Every step keeps the invariant *)

\* A pin changes nothing but who reads.
LEMMA StepPin ==
  ASSUME CrashSafe, NEW r \in Reader, NEW m \in Manifest, Pin(r, m)
  PROVE  CrashSafe'
<1>1. Files' /\ Held' = Held /\ Maybe' = Maybe /\ Sure' = Sure
  BY SameHome, TmpFiles DEF CrashSafe, Files, Pin, fs
<1> QED
  BY <1>1 DEF Pin, fs, idx, CrashSafe, Control, Promised, Compatible, Accounted, Publication,
     Retirement, Reclamation, Removed, Readers, Publishing, Retiring, Reclaiming,
     Referenced

\* A pin is given back.
LEMMA StepUnpin ==
  ASSUME CrashSafe, NEW r \in Reader, Unpin(r)
  PROVE  CrashSafe'
<1>1. Files' /\ Held' = Held /\ Maybe' = Maybe /\ Sure' = Sure
  BY SameHome, TmpFiles DEF CrashSafe, Files, Unpin, fs
<1> QED
  BY <1>1 DEF Unpin, fs, idx, CrashSafe, Control, Promised, Compatible, Accounted, Publication,
     Retirement, Reclamation, Removed, Readers, Publishing, Retiring, Reclaiming,
     Referenced

\* Quarantine leaves files and index alone.
LEMMA StepQuarantine ==
  ASSUME CrashSafe, NEW p \in Payload, Quarantine(p)
  PROVE  CrashSafe'
<1>1. Files' /\ Held' = Held /\ Maybe' = Maybe /\ Sure' = Sure
  BY SameHome, TmpFiles DEF CrashSafe, Files, Quarantine, fs
<1> QED
  BY <1>1 DEF Quarantine, fs, CrashSafe, Control, Promised, Compatible, Accounted, Publication,
     Retirement, Reclamation, Removed, Readers, Publishing, Retiring, Reclaiming,
     Referenced

\* Invalidation leaves files and index alone.
LEMMA StepInvalidate ==
  ASSUME CrashSafe, NEW m \in Manifest, Invalidate(m)
  PROVE  CrashSafe'
<1>1. Files' /\ Held' = Held /\ Maybe' = Maybe /\ Sure' = Sure
  BY SameHome, TmpFiles DEF CrashSafe, Files, Invalidate, fs
<1> QED
  BY <1>1 DEF Invalidate, fs, CrashSafe, Control, Promised, Compatible, Accounted, Publication,
     Retirement, Reclamation, Removed, Readers, Publishing, Retiring, Reclaiming,
     Referenced

\* A publication begins under names nothing can be found under.
LEMMA StepPublishBegin ==
  ASSUME CrashSafe, NEW m \in Manifest, PublishBegin(m)
  PROVE  CrashSafe'
<1>1. Files' /\ Held' = Held /\ Maybe' = Maybe /\ Sure' = Sure
  BY SameHome, TmpFiles DEF CrashSafe, Files, PublishBegin, fs
<1>2. m \notin entries /\ \A e \in entries : ~Conflicts(e, m) /\ ~Conflicts(m, e)
  BY DEF PublishBegin, Admitted, Conflicts
<1>3. up /\ ~recovery /\ pc = "idle" /\ entries = durable
  BY DEF PublishBegin, Admitted, CrashSafe, Control, Publishing
<1>4. m \notin Maybe
  BY <1>2, <1>3 DEF CrashSafe, Accounted, Retiring
<1>5. Deps[m] \ todo' \subseteq Held /\ todo' \subseteq Payload
  <2>1. Deps[m] \subseteq Payload
    BY DiskAssumption
  <2>2. \A p \in Deps[m] : home[p] = "absent" \/ home[p] = "whole"
    BY DEF PublishBegin, Admitted
  <2>3. todo' = {p \in Deps[m] : home[p] = "absent"}
    BY DEF PublishBegin
  <2> QED BY <2>1, <2>2, <2>3 DEF Held, Name
<1>6. Control' /\ Readers'
  BY <1>1, <1>2, <1>3, <1>4, <1>5 DEF PublishBegin, elsewhere, idx, CrashSafe, Control, Readers,
     Publishing, Retiring, Reclaiming
<1>7. Promised'
  BY <1>1, <1>2, <1>3, <1>4, <1>5 DEF PublishBegin, elsewhere, idx, CrashSafe, Promised, Control,
     Publishing, Retiring, Reclaiming
<1>8. Compatible' /\ Accounted'
  BY <1>1, <1>2, <1>3, <1>4, <1>5 DEF PublishBegin, elsewhere, idx, CrashSafe, Compatible, Accounted, Control,
     Publishing, Retiring, Reclaiming
<1>9. Publication'
  BY <1>1, <1>2, <1>3, <1>4, <1>5 DEF PublishBegin, elsewhere, idx, CrashSafe, Publication, Control,
     Publishing, Retiring, Reclaiming
<1>10. Retirement' /\ Reclamation'
  BY <1>1, <1>2, <1>3, <1>4, <1>5 DEF PublishBegin, elsewhere, idx, CrashSafe, Retirement, Reclamation, Control, Referenced,
     Publishing, Retiring, Reclaiming
<1>11. Removed'
  BY <1>1, <1>2, <1>3, <1>4, <1>5 DEF PublishBegin, elsewhere, idx, CrashSafe, Removed, Control, Publication,
     Publishing, Retiring, Reclaiming
<1> QED BY <1>1, <1>6, <1>7, <1>8, <1>9, <1>10, <1>11 DEF CrashSafe

\* The first file operation of a payload.
LEMMA StepPayloadCreate ==
  ASSUME CrashSafe, NEW p \in Payload, PayloadCreate(p)
  PROVE  CrashSafe'
<1>1. UNCHANGED <<home, mayHome>> /\ tmp' \in [Name -> Content]
  BY DEF PayloadCreate, Create, CrashSafe, Files, Control, Publishing, Content, Name
<1>2. Files' /\ Held' = Held /\ Maybe' = Maybe /\ Sure' = Sure
  BY <1>1, SameHome, TmpFiles DEF CrashSafe
<1> QED
  BY <1>2 DEF PayloadCreate, Create, elsewhere, idx, CrashSafe, Control, Promised, Compatible, Accounted, Publication,
     Retirement, Reclamation, Removed, Readers, Publishing, Retiring, Reclaiming,
     Referenced

\* Writing a payload.
LEMMA StepPayloadWrite ==
  ASSUME CrashSafe, NEW p \in Payload, PayloadWrite(p)
  PROVE  CrashSafe'
<1>1. UNCHANGED <<home, mayHome>> /\ tmp' \in [Name -> Content]
  BY DEF PayloadWrite, Rewrite, CrashSafe, Files, Control, Publishing, Content, Name
<1>2. Files' /\ Held' = Held /\ Maybe' = Maybe /\ Sure' = Sure
  BY <1>1, SameHome, TmpFiles DEF CrashSafe
<1> QED
  BY <1>2 DEF PayloadWrite, Rewrite, elsewhere, idx, CrashSafe, Control, Promised, Compatible, Accounted, Publication,
     Retirement, Reclamation, Removed, Readers, Publishing, Retiring, Reclaiming,
     Referenced

\* Syncing a payload.
LEMMA StepPayloadSync ==
  ASSUME CrashSafe, NEW p \in Payload, PayloadSync(p)
  PROVE  CrashSafe'
<1>1. UNCHANGED <<home, mayHome>> /\ tmp' \in [Name -> Content]
  BY DEF PayloadSync, Rewrite, CrashSafe, Files, Control, Publishing, Content, Name
<1>2. Files' /\ Held' = Held /\ Maybe' = Maybe /\ Sure' = Sure
  BY <1>1, SameHome, TmpFiles DEF CrashSafe
<1> QED
  BY <1>2 DEF PayloadSync, Rewrite, elsewhere, idx, CrashSafe, Control, Promised, Compatible, Accounted, Publication,
     Retirement, Reclamation, Removed, Readers, Publishing, Retiring, Reclaiming,
     Referenced

\* A payload reaches its directory, where no entry relied on its name.
LEMMA StepPayloadRename ==
  ASSUME CrashSafe, NEW p \in Payload, PayloadRename(p)
  PROVE  CrashSafe'
<1>1. /\ Files' /\ p \notin Held
      /\ Held' = Held \cup {p} /\ Maybe' = Maybe \cup {p} /\ Sure' = Sure
  BY RenameSets DEF CrashSafe, PayloadRename, Name
<1>2. p \notin Manifest
  BY DiskAssumption
<1>3. Control' /\ Readers'
  BY <1>1, <1>2 DEF PayloadRename, elsewhere, idx, CrashSafe, Control, Readers,
     Publishing, Retiring, Reclaiming
<1>4. Promised'
  BY <1>1, <1>2 DEF PayloadRename, elsewhere, idx, CrashSafe, Promised, Control,
     Publishing, Retiring, Reclaiming
<1>5. Compatible' /\ Accounted'
  BY <1>1, <1>2 DEF PayloadRename, elsewhere, idx, CrashSafe, Compatible, Accounted, Control,
     Publishing, Retiring, Reclaiming
<1>6. Publication'
  BY <1>1, <1>2 DEF PayloadRename, elsewhere, idx, CrashSafe, Publication, Control,
     Publishing, Retiring, Reclaiming
<1>7. Retirement' /\ Reclamation'
  BY <1>1, <1>2 DEF PayloadRename, elsewhere, idx, CrashSafe, Retirement, Reclamation, Control, Referenced,
     Publishing, Retiring, Reclaiming
<1>8. Removed'
  BY <1>1, <1>2 DEF PayloadRename, elsewhere, idx, CrashSafe, Removed, Control, Publication,
     Publishing, Retiring, Reclaiming
<1> QED BY <1>1, <1>3, <1>4, <1>5, <1>6, <1>7, <1>8 DEF CrashSafe

\* With no payload left, tmp/ is synced.
LEMMA StepPublishSyncTemporary ==
  ASSUME CrashSafe, PublishSyncTemporary
  PROVE  CrashSafe'
<1>1. UNCHANGED <<home, mayHome>> /\ tmp' \in [Name -> Content]
  BY DEF PublishSyncTemporary, SyncTemporary, CrashSafe, Files, Control, Publishing, Content, Name
<1>2. Files' /\ Held' = Held /\ Maybe' = Maybe /\ Sure' = Sure
  BY <1>1, SameHome, TmpFiles DEF CrashSafe
<1> QED
  BY <1>2 DEF PublishSyncTemporary, SyncTemporary, elsewhere, idx, CrashSafe, Control, Promised, Compatible, Accounted, Publication,
     Retirement, Reclamation, Removed, Readers, Publishing, Retiring, Reclaiming,
     Referenced

\* The chunks of the candidate become certain.
LEMMA StepPublishSyncChunks ==
  ASSUME CrashSafe, PublishSyncChunks
  PROVE  CrashSafe'
<1>1. /\ Files' /\ Held' = Held
      /\ Maybe' = {n \in Name : IF DirOf(n) = "chunks" THEN n \in Held ELSE n \in Maybe}
      /\ Sure' = {n \in Name : IF DirOf(n) = "chunks" THEN n \in Held ELSE n \in Sure}
  BY SyncSets DEF CrashSafe, PublishSyncChunks
<1>2. /\ Maybe' \cap Manifest = Maybe \cap Manifest /\ (Held \cap Payload) \ Private \subseteq Sure'
      /\ Sure \subseteq Sure' /\ Held \subseteq Maybe /\ Maybe' \subseteq Maybe
  BY <1>1, Nested, DiskAssumption DEF CrashSafe, DirOf, Name
<1>3. Control' /\ Readers'
  BY <1>1, <1>2 DEF PublishSyncChunks, elsewhere, idx, CrashSafe, Control, Readers,
     Publishing, Retiring, Reclaiming
<1>4. Promised'
  BY <1>1, <1>2 DEF PublishSyncChunks, elsewhere, idx, CrashSafe, Promised, Control,
     Publishing, Retiring, Reclaiming
<1>5. Compatible' /\ Accounted'
  BY <1>1, <1>2 DEF PublishSyncChunks, elsewhere, idx, CrashSafe, Compatible, Accounted, Control,
     Publishing, Retiring, Reclaiming
<1>6. Publication'
  BY <1>1, <1>2, DiskAssumption DEF PublishSyncChunks, elsewhere, idx, CrashSafe, Publication, Control,
     Publishing, Retiring, Reclaiming
<1>7. Retirement' /\ Reclamation'
  BY <1>1, <1>2 DEF PublishSyncChunks, elsewhere, idx, CrashSafe, Retirement, Reclamation, Control, Referenced,
     Publishing, Retiring, Reclaiming
<1>8. Removed'
  BY <1>1, <1>2 DEF PublishSyncChunks, elsewhere, idx, CrashSafe, Removed, Control, Publication,
     Publishing, Retiring, Reclaiming
<1> QED BY <1>1, <1>3, <1>4, <1>5, <1>6, <1>7, <1>8 DEF CrashSafe

\* The private files of the candidate become certain.
LEMMA StepPublishSyncPrivate ==
  ASSUME CrashSafe, PublishSyncPrivate
  PROVE  CrashSafe'
<1>1. /\ Files' /\ Held' = Held
      /\ Maybe' = {n \in Name : IF DirOf(n) = "private" THEN n \in Held ELSE n \in Maybe}
      /\ Sure' = {n \in Name : IF DirOf(n) = "private" THEN n \in Held ELSE n \in Sure}
  BY SyncSets DEF CrashSafe, PublishSyncPrivate
<1>2. /\ Maybe' \cap Manifest = Maybe \cap Manifest /\ Held \cap Private \subseteq Sure'
      /\ Sure \subseteq Sure' /\ Held \subseteq Maybe /\ Maybe' \subseteq Maybe
  BY <1>1, Nested, DiskAssumption DEF CrashSafe, DirOf, Name
<1>3. Control' /\ Readers'
  BY <1>1, <1>2 DEF PublishSyncPrivate, elsewhere, idx, CrashSafe, Control, Readers,
     Publishing, Retiring, Reclaiming
<1>4. Promised'
  BY <1>1, <1>2 DEF PublishSyncPrivate, elsewhere, idx, CrashSafe, Promised, Control,
     Publishing, Retiring, Reclaiming
<1>5. Compatible' /\ Accounted'
  BY <1>1, <1>2 DEF PublishSyncPrivate, elsewhere, idx, CrashSafe, Compatible, Accounted, Control,
     Publishing, Retiring, Reclaiming
<1>6. Publication'
  BY <1>1, <1>2, DiskAssumption DEF PublishSyncPrivate, elsewhere, idx, CrashSafe, Publication, Control,
     Publishing, Retiring, Reclaiming
<1>7. Retirement' /\ Reclamation'
  BY <1>1, <1>2 DEF PublishSyncPrivate, elsewhere, idx, CrashSafe, Retirement, Reclamation, Control, Referenced,
     Publishing, Retiring, Reclaiming
<1>8. Removed'
  BY <1>1, <1>2 DEF PublishSyncPrivate, elsewhere, idx, CrashSafe, Removed, Control, Publication,
     Publishing, Retiring, Reclaiming
<1> QED BY <1>1, <1>3, <1>4, <1>5, <1>6, <1>7, <1>8 DEF CrashSafe

\* The candidate passes its first look at quarantine.
LEMMA StepManifestCreate ==
  ASSUME CrashSafe, ManifestCreate
  PROVE  CrashSafe'
<1>1. UNCHANGED <<home, mayHome>> /\ tmp' \in [Name -> Content]
  BY DEF ManifestCreate, Create, CrashSafe, Files, Control, Publishing, Content, Name
<1>2. Files' /\ Held' = Held /\ Maybe' = Maybe /\ Sure' = Sure
  BY <1>1, SameHome, TmpFiles DEF CrashSafe
<1> QED
  BY <1>2 DEF ManifestCreate, Create, elsewhere, idx, CrashSafe, Control, Promised, Compatible, Accounted, Publication,
     Retirement, Reclamation, Removed, Readers, Publishing, Retiring, Reclaiming,
     Referenced

\* Writing the manifest.
LEMMA StepManifestWrite ==
  ASSUME CrashSafe, ManifestWrite
  PROVE  CrashSafe'
<1>1. UNCHANGED <<home, mayHome>> /\ tmp' \in [Name -> Content]
  BY DEF ManifestWrite, Rewrite, CrashSafe, Files, Control, Publishing, Content, Name
<1>2. Files' /\ Held' = Held /\ Maybe' = Maybe /\ Sure' = Sure
  BY <1>1, SameHome, TmpFiles DEF CrashSafe
<1> QED
  BY <1>2 DEF ManifestWrite, Rewrite, elsewhere, idx, CrashSafe, Control, Promised, Compatible, Accounted, Publication,
     Retirement, Reclamation, Removed, Readers, Publishing, Retiring, Reclaiming,
     Referenced

\* Syncing the manifest.
LEMMA StepManifestSync ==
  ASSUME CrashSafe, ManifestSync
  PROVE  CrashSafe'
<1>1. UNCHANGED <<home, mayHome>> /\ tmp' \in [Name -> Content]
  BY DEF ManifestSync, Rewrite, CrashSafe, Files, Control, Publishing, Content, Name
<1>2. Files' /\ Held' = Held /\ Maybe' = Maybe /\ Sure' = Sure
  BY <1>1, SameHome, TmpFiles DEF CrashSafe
<1>3. tmp'[subject] = "whole"
  BY DEF ManifestSync, Rewrite, CrashSafe, Files, Control, Publishing, Name
<1> QED
  BY <1>2, <1>3 DEF ManifestSync, Rewrite, elsewhere, idx, CrashSafe, Control, Promised, Compatible, Accounted, Publication,
     Retirement, Reclamation, Removed, Readers, Publishing, Retiring, Reclaiming,
     Referenced

\* The manifest may now be found, and contradicts none that may.
LEMMA StepManifestRename ==
  ASSUME CrashSafe, ManifestRename
  PROVE  CrashSafe'
<1>1. /\ Files' /\ subject \notin Held
      /\ Held' = Held \cup {subject} /\ Maybe' = Maybe \cup {subject} /\ Sure' = Sure
  BY RenameSets DEF CrashSafe, ManifestRename, Control, Publication, Publishing, Name
<1>2. /\ \A e \in Manifest : e \in Maybe => e \in entries
      /\ subject \in entries /\ subject \notin gone
  BY DEF CrashSafe, Control, Accounted, Removed, ManifestRename, Publishing, Retiring
<1>3. Control' /\ Readers'
  BY <1>1, <1>2 DEF ManifestRename, elsewhere, idx, CrashSafe, Control, Readers,
     Publishing, Retiring, Reclaiming
<1>4. Promised'
  BY <1>1, <1>2 DEF ManifestRename, elsewhere, idx, CrashSafe, Promised, Control,
     Publishing, Retiring, Reclaiming
<1>5. Compatible' /\ Accounted'
  BY <1>1, <1>2 DEF ManifestRename, elsewhere, idx, CrashSafe, Compatible, Accounted, Control,
     Publishing, Retiring, Reclaiming
<1>6. Publication'
  BY <1>1, <1>2 DEF ManifestRename, elsewhere, idx, CrashSafe, Publication, Control,
     Publishing, Retiring, Reclaiming
<1>7. Retirement' /\ Reclamation'
  BY <1>1, <1>2 DEF ManifestRename, elsewhere, idx, CrashSafe, Retirement, Reclamation, Control, Referenced,
     Publishing, Retiring, Reclaiming
<1>8. Removed'
  BY <1>1, <1>2 DEF ManifestRename, elsewhere, idx, CrashSafe, Removed, Control, Publication,
     Publishing, Retiring, Reclaiming
<1> QED BY <1>1, <1>3, <1>4, <1>5, <1>6, <1>7, <1>8 DEF CrashSafe

\* The manifest of the candidate becomes certain.
LEMMA StepPublishSyncManifests ==
  ASSUME CrashSafe, PublishSyncManifests
  PROVE  CrashSafe'
<1>1. /\ Files' /\ Held' = Held
      /\ Maybe' = {n \in Name : IF DirOf(n) = "manifests" THEN n \in Held ELSE n \in Maybe}
      /\ Sure' = {n \in Name : IF DirOf(n) = "manifests" THEN n \in Held ELSE n \in Sure}
  BY SyncSets DEF CrashSafe, PublishSyncManifests
<1>2. /\ Maybe' \cap Manifest = Held \cap Manifest /\ Held \cap Manifest \subseteq Sure'
      /\ Sure \subseteq Sure' /\ Held \subseteq Maybe /\ Maybe' \subseteq Maybe
  BY <1>1, Nested, DiskAssumption DEF CrashSafe, DirOf, Name
<1>3. Control' /\ Readers'
  BY <1>1, <1>2 DEF PublishSyncManifests, elsewhere, idx, CrashSafe, Control, Readers,
     Publishing, Retiring, Reclaiming
<1>4. Promised'
  BY <1>1, <1>2 DEF PublishSyncManifests, elsewhere, idx, CrashSafe, Promised, Control,
     Publishing, Retiring, Reclaiming
<1>5. Compatible' /\ Accounted'
  BY <1>1, <1>2 DEF PublishSyncManifests, elsewhere, idx, CrashSafe, Compatible, Accounted, Control,
     Publishing, Retiring, Reclaiming
<1>6. Publication'
  BY <1>1, <1>2 DEF PublishSyncManifests, elsewhere, idx, CrashSafe, Publication, Control,
     Publishing, Retiring, Reclaiming
<1>7. Retirement' /\ Reclamation'
  BY <1>1, <1>2 DEF PublishSyncManifests, elsewhere, idx, CrashSafe, Retirement, Reclamation, Control, Referenced,
     Publishing, Retiring, Reclaiming
<1>8. Removed'
  BY <1>1, <1>2 DEF PublishSyncManifests, elsewhere, idx, CrashSafe, Removed, Control, Publication,
     Publishing, Retiring, Reclaiming
<1> QED BY <1>1, <1>3, <1>4, <1>5, <1>6, <1>7, <1>8 DEF CrashSafe

\* The last barrier of a publication.
LEMMA StepPublishSyncRenames ==
  ASSUME CrashSafe, PublishSyncRenames
  PROVE  CrashSafe'
<1>1. UNCHANGED <<home, mayHome>> /\ tmp' \in [Name -> Content]
  BY DEF PublishSyncRenames, SyncTemporary, CrashSafe, Files, Control, Publishing, Content, Name
<1>2. Files' /\ Held' = Held /\ Maybe' = Maybe /\ Sure' = Sure
  BY <1>1, SameHome, TmpFiles DEF CrashSafe
<1> QED
  BY <1>2 DEF PublishSyncRenames, SyncTemporary, elsewhere, idx, CrashSafe, Control, Promised, Compatible, Accounted, Publication,
     Retirement, Reclamation, Removed, Readers, Publishing, Retiring, Reclaiming,
     Referenced

\* The candidate is certain when it becomes visible.
LEMMA StepPublishEnd ==
  ASSUME CrashSafe, PublishEnd
  PROVE  CrashSafe'
<1>1. Files' /\ Held' = Held /\ Maybe' = Maybe /\ Sure' = Sure
  BY SameHome, TmpFiles DEF CrashSafe, Files, PublishEnd, fs
<1> QED
  BY <1>1 DEF PublishEnd, fs, CrashSafe, Control, Promised, Compatible, Accounted, Publication,
     Retirement, Reclamation, Removed, Readers, Publishing, Retiring, Reclaiming,
     Referenced

\* A failed publication leaves nothing to be found, or asks for recovery.
LEMMA StepPublishThrow ==
  ASSUME CrashSafe, PublishThrow
  PROVE  CrashSafe'
<1>1. Files' /\ Held' = Held /\ Maybe' = Maybe /\ Sure' = Sure
  BY SameHome, TmpFiles DEF CrashSafe, Files, PublishThrow, fs
<1>2. pc \in Attempted \/ subject \notin Maybe
  BY DEF PublishThrow, CrashSafe, Publication, Publishing, Attempted
<1>3. pc' = "idle" /\ entries' = durable /\ durable' = durable /\ pc \in Publishing
  BY DEF PublishThrow, CrashSafe, Control
<1>4. Control' /\ Readers'
  BY <1>1, <1>2, <1>3 DEF PublishThrow, elsewhere, idx, CrashSafe, Control, Readers,
     Publishing, Retiring, Reclaiming
<1>5. Promised'
  BY <1>1, <1>2, <1>3 DEF PublishThrow, elsewhere, idx, CrashSafe, Promised, Control,
     Publishing, Retiring, Reclaiming
<1>6. Compatible' /\ Accounted'
  BY <1>1, <1>2, <1>3 DEF PublishThrow, elsewhere, idx, CrashSafe, Compatible, Accounted, Control,
     Publishing, Retiring, Reclaiming
<1>7. Publication'
  BY <1>1, <1>2, <1>3 DEF PublishThrow, elsewhere, idx, CrashSafe, Publication, Control,
     Publishing, Retiring, Reclaiming
<1>8. Retirement' /\ Reclamation'
  BY <1>1, <1>2, <1>3 DEF PublishThrow, elsewhere, idx, CrashSafe, Retirement, Reclamation, Control, Referenced,
     Publishing, Retiring, Reclaiming
<1>9. Removed'
  BY <1>1, <1>2, <1>3 DEF PublishThrow, elsewhere, idx, CrashSafe, Removed, Control, Publication,
     Publishing, Retiring, Reclaiming
<1> QED BY <1>1, <1>4, <1>5, <1>6, <1>7, <1>8, <1>9 DEF CrashSafe

\* A retirement takes the entry out of the index first.
LEMMA StepRetireBegin ==
  ASSUME CrashSafe, NEW m \in Manifest, RetireBegin(m)
  PROVE  CrashSafe'
<1>1. Files' /\ Held' = Held /\ Maybe' = Maybe /\ Sure' = Sure
  BY SameHome, TmpFiles DEF CrashSafe, Files, RetireBegin, fs
<1>2. pc = "idle" /\ pc' = "unlink" /\ entries' = durable' /\ subject' = m
  BY DEF RetireBegin, CrashSafe, Control, Publishing
<1>3. Control' /\ Readers'
  BY <1>1, <1>2 DEF RetireBegin, elsewhere, idx, CrashSafe, Control, Readers,
     Publishing, Retiring, Reclaiming, Retirable
<1>4. Promised'
  BY <1>1, <1>2 DEF RetireBegin, elsewhere, idx, CrashSafe, Promised, Control,
     Publishing, Retiring, Reclaiming
<1>5. Compatible' /\ Accounted'
  BY <1>1, <1>2 DEF RetireBegin, elsewhere, idx, CrashSafe, Compatible, Accounted, Control,
     Publishing, Retiring, Reclaiming
<1>6. Publication'
  BY <1>1, <1>2 DEF RetireBegin, elsewhere, idx, CrashSafe, Publication, Control,
     Publishing, Retiring, Reclaiming
<1>7. Retirement' /\ Reclamation'
  BY <1>1, <1>2 DEF RetireBegin, elsewhere, idx, CrashSafe, Retirement, Reclamation, Control, Referenced,
     Publishing, Retiring, Reclaiming
<1>8. Removed'
  BY <1>1, <1>2 DEF RetireBegin, elsewhere, idx, CrashSafe, Removed, Control, Publication,
     Publishing, Retiring, Reclaiming
<1> QED BY <1>1, <1>3, <1>4, <1>5, <1>6, <1>7, <1>8 DEF CrashSafe

\* The manifest that goes is not one that was promised.
LEMMA StepRetireUnlink ==
  ASSUME CrashSafe, RetireUnlink
  PROVE  CrashSafe'
<1>1. Files' /\ Held' = Held \ {subject} /\ Maybe' = Maybe /\ Sure' = Sure \ {subject}
  BY UnlinkSets, DiskAssumption DEF CrashSafe, RetireUnlink, Control, Retiring, Name
<1>2. subject \notin acked /\ subject \notin Payload
  BY DiskAssumption DEF RetireUnlink, CrashSafe, Control, Publishing, Retiring
<1>3. Control' /\ Readers'
  BY <1>1, <1>2 DEF RetireUnlink, elsewhere, idx, CrashSafe, Control, Readers,
     Publishing, Retiring, Reclaiming
<1>4. Promised'
  BY <1>1, <1>2, DiskAssumption DEF RetireUnlink, elsewhere, idx, CrashSafe, Promised, Control,
     Publishing, Retiring, Reclaiming
<1>5. Compatible' /\ Accounted'
  BY <1>1, <1>2 DEF RetireUnlink, elsewhere, idx, CrashSafe, Compatible, Accounted, Control,
     Publishing, Retiring, Reclaiming
<1>6. Publication'
  BY <1>1, <1>2 DEF RetireUnlink, elsewhere, idx, CrashSafe, Publication, Control,
     Publishing, Retiring, Reclaiming
<1>7. Retirement' /\ Reclamation'
  BY <1>1, <1>2 DEF RetireUnlink, elsewhere, idx, CrashSafe, Retirement, Reclamation, Control, Referenced,
     Publishing, Retiring, Reclaiming
<1>8. Removed'
  BY <1>1, <1>2 DEF RetireUnlink, elsewhere, idx, CrashSafe, Removed, Control, Publication,
     Publishing, Retiring, Reclaiming
<1> QED BY <1>1, <1>3, <1>4, <1>5, <1>6, <1>7, <1>8 DEF CrashSafe

\* The manifest that goes is surely gone.
LEMMA StepRetireSync ==
  ASSUME CrashSafe, RetireSync
  PROVE  CrashSafe'
<1>1. /\ Files' /\ Held' = Held
      /\ Maybe' = {n \in Name : IF DirOf(n) = "manifests" THEN n \in Held ELSE n \in Maybe}
      /\ Sure' = {n \in Name : IF DirOf(n) = "manifests" THEN n \in Held ELSE n \in Sure}
  BY SyncSets DEF CrashSafe, RetireSync
<1>2. /\ Maybe' \cap Manifest = Held \cap Manifest /\ Held \cap Manifest \subseteq Sure'
      /\ Sure \subseteq Sure' /\ Held \subseteq Maybe /\ Maybe' \subseteq Maybe
  BY <1>1, Nested, DiskAssumption DEF CrashSafe, DirOf, Name
<1>3. /\ subject \notin Maybe' /\ todo' \subseteq Payload
      /\ \A p \in todo' : ~Referenced(p)
  BY <1>1, <1>2, DiskAssumption DEF CrashSafe, Control, RetireSync, Retirement, Retiring
<1>4. Control' /\ Readers'
  BY <1>1, <1>2, <1>3 DEF RetireSync, elsewhere, idx, CrashSafe, Control, Readers,
     Publishing, Retiring, Reclaiming
<1>5. Promised'
  BY <1>1, <1>2, <1>3 DEF RetireSync, elsewhere, idx, CrashSafe, Promised, Control,
     Publishing, Retiring, Reclaiming
<1>6. Compatible' /\ Accounted'
  BY <1>1, <1>2, <1>3 DEF RetireSync, elsewhere, idx, CrashSafe, Compatible, Accounted, Control,
     Publishing, Retiring, Reclaiming
<1>7. Publication'
  BY <1>1, <1>2, <1>3 DEF RetireSync, elsewhere, idx, CrashSafe, Publication, Control,
     Publishing, Retiring, Reclaiming
<1>8. Retirement' /\ Reclamation'
  BY <1>1, <1>2, <1>3 DEF RetireSync, elsewhere, idx, CrashSafe, Retirement, Reclamation, Control, Referenced,
     Publishing, Retiring, Reclaiming
<1>9. Removed'
  BY <1>1, <1>2, <1>3 DEF RetireSync, elsewhere, idx, CrashSafe, Removed, Control, Publication,
     Publishing, Retiring, Reclaiming
<1> QED BY <1>1, <1>4, <1>5, <1>6, <1>7, <1>8, <1>9 DEF CrashSafe

\* The payload that goes belongs to no entry.
LEMMA StepRetireRemove ==
  ASSUME CrashSafe, NEW p \in Payload, RetireRemove(p)
  PROVE  CrashSafe'
<1>1. Files' /\ Held' = Held \ {p} /\ Maybe' = Maybe /\ Sure' = Sure \ {p}
  BY UnlinkSets, DiskAssumption DEF CrashSafe, RetireRemove, Control, Retiring, Name
<1>2. p \notin Manifest /\ \A m \in acked : p \notin Deps[m]
  BY DiskAssumption DEF RetireRemove, CrashSafe, Control, Retirement, Referenced, Publishing
<1>3. Control' /\ Readers'
  BY <1>1, <1>2 DEF RetireRemove, elsewhere, idx, CrashSafe, Control, Readers,
     Publishing, Retiring, Reclaiming
<1>4. Promised'
  BY <1>1, <1>2 DEF RetireRemove, elsewhere, idx, CrashSafe, Promised, Control,
     Publishing, Retiring, Reclaiming
<1>5. Compatible' /\ Accounted'
  BY <1>1, <1>2 DEF RetireRemove, elsewhere, idx, CrashSafe, Compatible, Accounted, Control,
     Publishing, Retiring, Reclaiming
<1>6. Publication'
  BY <1>1, <1>2 DEF RetireRemove, elsewhere, idx, CrashSafe, Publication, Control,
     Publishing, Retiring, Reclaiming
<1>7. Retirement' /\ Reclamation'
  BY <1>1, <1>2 DEF RetireRemove, elsewhere, idx, CrashSafe, Retirement, Reclamation, Control, Referenced,
     Publishing, Retiring, Reclaiming, RetireRemove
<1>8. Removed'
  BY <1>1, <1>2 DEF RetireRemove, elsewhere, idx, CrashSafe, Removed, Control, Publication,
     Publishing, Retiring, Reclaiming
<1> QED BY <1>1, <1>3, <1>4, <1>5, <1>6, <1>7, <1>8 DEF CrashSafe

\* The chunks that go are surely gone.
LEMMA StepRetireSyncChunks ==
  ASSUME CrashSafe, RetireSyncChunks
  PROVE  CrashSafe'
<1>1. /\ Files' /\ Held' = Held
      /\ Maybe' = {n \in Name : IF DirOf(n) = "chunks" THEN n \in Held ELSE n \in Maybe}
      /\ Sure' = {n \in Name : IF DirOf(n) = "chunks" THEN n \in Held ELSE n \in Sure}
  BY SyncSets DEF CrashSafe, RetireSyncChunks
<1>2. /\ Maybe' \cap Manifest = Maybe \cap Manifest /\ (Held \cap Payload) \ Private \subseteq Sure'
      /\ Sure \subseteq Sure' /\ Held \subseteq Maybe /\ Maybe' \subseteq Maybe
  BY <1>1, Nested, DiskAssumption DEF CrashSafe, DirOf, Name
<1>3. Control' /\ Readers'
  BY <1>1, <1>2 DEF RetireSyncChunks, elsewhere, idx, CrashSafe, Control, Readers,
     Publishing, Retiring, Reclaiming
<1>4. Promised'
  BY <1>1, <1>2 DEF RetireSyncChunks, elsewhere, idx, CrashSafe, Promised, Control,
     Publishing, Retiring, Reclaiming
<1>5. Compatible' /\ Accounted'
  BY <1>1, <1>2 DEF RetireSyncChunks, elsewhere, idx, CrashSafe, Compatible, Accounted, Control,
     Publishing, Retiring, Reclaiming
<1>6. Publication'
  BY <1>1, <1>2 DEF RetireSyncChunks, elsewhere, idx, CrashSafe, Publication, Control,
     Publishing, Retiring, Reclaiming
<1>7. Retirement' /\ Reclamation'
  BY <1>1, <1>2 DEF RetireSyncChunks, elsewhere, idx, CrashSafe, Retirement, Reclamation, Control, Referenced,
     Publishing, Retiring, Reclaiming
<1>8. Removed'
  BY <1>1, <1>2 DEF RetireSyncChunks, elsewhere, idx, CrashSafe, Removed, Control, Publication,
     Publishing, Retiring, Reclaiming
<1> QED BY <1>1, <1>3, <1>4, <1>5, <1>6, <1>7, <1>8 DEF CrashSafe

\* The private files that go are surely gone.
LEMMA StepRetireEnd ==
  ASSUME CrashSafe, RetireEnd
  PROVE  CrashSafe'
<1>1. /\ Files' /\ Held' = Held
      /\ Maybe' = {n \in Name : IF DirOf(n) = "private" THEN n \in Held ELSE n \in Maybe}
      /\ Sure' = {n \in Name : IF DirOf(n) = "private" THEN n \in Held ELSE n \in Sure}
  BY SyncSets DEF CrashSafe, RetireEnd
<1>2. /\ Maybe' \cap Manifest = Maybe \cap Manifest /\ Held \cap Private \subseteq Sure'
      /\ Sure \subseteq Sure' /\ Held \subseteq Maybe /\ Maybe' \subseteq Maybe
  BY <1>1, Nested, DiskAssumption DEF CrashSafe, DirOf, Name
<1>3. Control' /\ Readers'
  BY <1>1, <1>2 DEF RetireEnd, elsewhere, idx, CrashSafe, Control, Readers,
     Publishing, Retiring, Reclaiming
<1>4. Promised'
  BY <1>1, <1>2 DEF RetireEnd, elsewhere, idx, CrashSafe, Promised, Control,
     Publishing, Retiring, Reclaiming
<1>5. Compatible' /\ Accounted'
  BY <1>1, <1>2 DEF RetireEnd, elsewhere, idx, CrashSafe, Compatible, Accounted, Control,
     Publishing, Retiring, Reclaiming, Retirement
<1>6. Publication'
  BY <1>1, <1>2 DEF RetireEnd, elsewhere, idx, CrashSafe, Publication, Control,
     Publishing, Retiring, Reclaiming
<1>7. Retirement' /\ Reclamation'
  BY <1>1, <1>2 DEF RetireEnd, elsewhere, idx, CrashSafe, Retirement, Reclamation, Control, Referenced,
     Publishing, Retiring, Reclaiming
<1>8. Removed'
  BY <1>1, <1>2 DEF RetireEnd, elsewhere, idx, CrashSafe, Removed, Control, Publication,
     Publishing, Retiring, Reclaiming, Retirement
<1> QED BY <1>1, <1>3, <1>4, <1>5, <1>6, <1>7, <1>8 DEF CrashSafe

\* Whatever the failed removal did, no promise is touched and recovery is due.
LEMMA StepRetireThrow ==
  ASSUME CrashSafe, RetireThrow
  PROVE  CrashSafe'
<1>1. PICK S \in SUBSET Name :
        /\ Files' /\ Held' = Held \ S /\ Maybe' = Maybe /\ Sure' = Sure \ S
        /\ \A m \in acked : m \notin S /\ Deps[m] \cap S = {}
  <2>1. CASE UNCHANGED fs
    <3>1. Files' /\ Held' = Held \ {} /\ Maybe' = Maybe /\ Sure' = Sure \ {}
      BY <2>1, SameHome, TmpFiles DEF CrashSafe, Files, fs
    <3> WITNESS {} \in SUBSET Name
    <3> QED BY <3>1
  <2>2. CASE pc = "unlink" /\ Unlink(subject)
    <3>1. subject \in Name /\ subject \notin acked /\ \A m \in acked : subject \notin Deps[m]
      BY <2>2, DiskAssumption DEF CrashSafe, Control, Publishing, Retiring, Name
    <3>2. /\ Files' /\ Held' = Held \ {subject} /\ Maybe' = Maybe
          /\ Sure' = Sure \ {subject}
      BY <2>2, <3>1, UnlinkSets DEF CrashSafe
    <3> {subject} \in SUBSET Name BY <3>1
    <3> WITNESS {subject} \in SUBSET Name
    <3> QED BY <3>1, <3>2
  <2>3. CASE pc = "remove" /\ \E p \in todo : Unlink(p)
    <3>1. PICK p \in todo : Unlink(p)
      BY <2>3
    <3>2. p \in Name /\ p \notin acked /\ \A m \in acked : p \notin Deps[m]
      BY <2>3, <3>1, DiskAssumption
         DEF CrashSafe, Control, Retirement, Referenced, Publishing, Retiring, Name
    <3>3. Files' /\ Held' = Held \ {p} /\ Maybe' = Maybe /\ Sure' = Sure \ {p}
      BY <3>1, <3>2, UnlinkSets DEF CrashSafe
    <3> {p} \in SUBSET Name BY <3>2
    <3> WITNESS {p} \in SUBSET Name
    <3> QED BY <3>2, <3>3
  <2> QED BY <2>1, <2>2, <2>3 DEF RetireThrow
<1>2. recovery' /\ pc' = "idle"
  BY DEF RetireThrow
<1>3. Control' /\ Readers'
  BY <1>1, <1>2 DEF RetireThrow, elsewhere, idx, CrashSafe, Control, Readers,
     Publishing, Retiring, Reclaiming
<1>4. Promised'
  BY <1>1, <1>2 DEF RetireThrow, elsewhere, idx, CrashSafe, Promised, Control,
     Publishing, Retiring, Reclaiming
<1>5. Compatible' /\ Accounted'
  BY <1>1, <1>2 DEF RetireThrow, elsewhere, idx, CrashSafe, Compatible, Accounted, Control,
     Publishing, Retiring, Reclaiming
<1>6. Publication'
  BY <1>1, <1>2 DEF RetireThrow, elsewhere, idx, CrashSafe, Publication, Control,
     Publishing, Retiring, Reclaiming
<1>7. Retirement' /\ Reclamation'
  BY <1>1, <1>2 DEF RetireThrow, elsewhere, idx, CrashSafe, Retirement, Reclamation, Control, Referenced,
     Publishing, Retiring, Reclaiming
<1>8. Removed'
  BY <1>1, <1>2 DEF RetireThrow, elsewhere, idx, CrashSafe, Removed, Control, Publication,
     Publishing, Retiring, Reclaiming
<1> QED BY <1>1, <1>3, <1>4, <1>5, <1>6, <1>7, <1>8 DEF CrashSafe

\* A reclamation begins by asking for recovery.
LEMMA StepReclaimBegin ==
  ASSUME CrashSafe, ReclaimBegin
  PROVE  CrashSafe'
<1>1. Files' /\ Held' = Held /\ Maybe' = Maybe /\ Sure' = Sure
  BY SameHome, TmpFiles DEF CrashSafe, Files, ReclaimBegin, fs
<1> QED
  BY <1>1 DEF ReclaimBegin, fs, idx, CrashSafe, Control, Promised, Compatible, Accounted, Publication,
     Retirement, Reclamation, Removed, Readers, Publishing, Retiring, Reclaiming,
     Referenced

\* An orphan that goes belongs to no entry.
LEMMA StepReclaimRemove ==
  ASSUME CrashSafe, NEW n \in Name, ReclaimRemove(n)
  PROVE  CrashSafe'
<1>1. Files' /\ Held' = Held \ {n} /\ Maybe' = Maybe /\ Sure' = Sure \ {n}
  BY UnlinkSets DEF CrashSafe, ReclaimRemove
<1>2. n \notin acked /\ \A m \in acked : n \notin Deps[m]
  BY DiskAssumption DEF ReclaimRemove, OrphansIn, Orphan, Referenced, CrashSafe,
     Control, Publishing, Reclaiming
<1>3. Control' /\ Readers'
  BY <1>1, <1>2 DEF ReclaimRemove, elsewhere, idx, CrashSafe, Control, Readers,
     Publishing, Retiring, Reclaiming
<1>4. Promised'
  BY <1>1, <1>2 DEF ReclaimRemove, elsewhere, idx, CrashSafe, Promised, Control,
     Publishing, Retiring, Reclaiming
<1>5. Compatible' /\ Accounted'
  BY <1>1, <1>2 DEF ReclaimRemove, elsewhere, idx, CrashSafe, Compatible, Accounted, Control,
     Publishing, Retiring, Reclaiming
<1>6. Publication'
  BY <1>1, <1>2 DEF ReclaimRemove, elsewhere, idx, CrashSafe, Publication, Control,
     Publishing, Retiring, Reclaiming
<1>7. Retirement' /\ Reclamation'
  BY <1>1, <1>2 DEF ReclaimRemove, elsewhere, idx, CrashSafe, Retirement, Reclamation, Control, Referenced,
     Publishing, Retiring, Reclaiming
<1>8. Removed'
  BY <1>1, <1>2 DEF ReclaimRemove, elsewhere, idx, CrashSafe, Removed, Control, Publication,
     Publishing, Retiring, Reclaiming
<1> QED BY <1>1, <1>3, <1>4, <1>5, <1>6, <1>7, <1>8 DEF CrashSafe

\* After the manifests no orphaned manifest can be found.
LEMMA StepReclaimSync ==
  ASSUME CrashSafe, ReclaimSync
  PROVE  CrashSafe'
<1>1. /\ Files' /\ Held' = Held
      /\ Maybe' = {n \in Name : IF DirOf(n) = pc THEN n \in Held ELSE n \in Maybe}
      /\ Sure' = {n \in Name : IF DirOf(n) = pc THEN n \in Held ELSE n \in Sure}
  BY SyncSets DEF CrashSafe, ReclaimSync
<1>2. /\ Sure \subseteq Sure' /\ Held \subseteq Maybe /\ Maybe' \subseteq Maybe
      /\ pc # "manifests" => Maybe' \cap Manifest = Maybe \cap Manifest
  BY <1>1, Nested, DiskAssumption DEF CrashSafe, DirOf, Name
<1>3. \A m \in Manifest : m \in Maybe' => m \in entries
  <2>1. CASE pc = "manifests"
    BY <1>1, <2>1 DEF ReclaimSync, OrphansIn, Orphan, DirOf, Held, Name
  <2>2. CASE pc \in {"chunks", "private"}
    BY <1>2, <2>2 DEF CrashSafe, Reclamation
  <2> QED BY <2>1, <2>2 DEF ReclaimSync
<1>4. pc' \in {"chunks", "private", "tmp"}
  BY DEF ReclaimSync, After
<1>5. Control' /\ Readers'
  BY <1>1, <1>2, <1>3, <1>4 DEF ReclaimSync, elsewhere, idx, CrashSafe, Control, Readers,
     Publishing, Retiring, Reclaiming
<1>6. Promised'
  BY <1>1, <1>2, <1>3, <1>4 DEF ReclaimSync, elsewhere, idx, CrashSafe, Promised, Control,
     Publishing, Retiring, Reclaiming
<1>7. Compatible' /\ Accounted'
  BY <1>1, <1>2, <1>3, <1>4 DEF ReclaimSync, elsewhere, idx, CrashSafe, Compatible, Accounted, Control,
     Publishing, Retiring, Reclaiming
<1>8. Publication'
  BY <1>1, <1>2, <1>3, <1>4 DEF ReclaimSync, elsewhere, idx, CrashSafe, Publication, Control,
     Publishing, Retiring, Reclaiming
<1>9. Retirement' /\ Reclamation'
  BY <1>1, <1>2, <1>3, <1>4 DEF ReclaimSync, elsewhere, idx, CrashSafe, Retirement, Reclamation, Control, Referenced,
     Publishing, Retiring, Reclaiming
<1>10. Removed'
  BY <1>1, <1>2, <1>3, <1>4 DEF ReclaimSync, elsewhere, idx, CrashSafe, Removed, Control, Publication,
     Publishing, Retiring, Reclaiming
<1> QED BY <1>1, <1>5, <1>6, <1>7, <1>8, <1>9, <1>10 DEF CrashSafe

\* Cleaning tmp/ touches nothing an entry needs.
LEMMA StepReclaimTemporary ==
  ASSUME CrashSafe, NEW n \in Name, ReclaimTemporary(n)
  PROVE  CrashSafe'
<1>1. UNCHANGED <<home, mayHome>> /\ tmp' \in [Name -> Content]
  BY DEF ReclaimTemporary, UnlinkTemporary, CrashSafe, Files, Control, Publishing, Content, Name
<1>2. Files' /\ Held' = Held /\ Maybe' = Maybe /\ Sure' = Sure
  BY <1>1, SameHome, TmpFiles DEF CrashSafe
<1> QED
  BY <1>2 DEF ReclaimTemporary, UnlinkTemporary, elsewhere, idx, CrashSafe, Control, Promised, Compatible, Accounted, Publication,
     Retirement, Reclamation, Removed, Readers, Publishing, Retiring, Reclaiming,
     Referenced

\* Recovery is done when every manifest that may be found is indexed.
LEMMA StepReclaimEnd ==
  ASSUME CrashSafe, ReclaimEnd
  PROVE  CrashSafe'
<1>1. UNCHANGED <<home, mayHome>> /\ tmp' \in [Name -> Content]
  BY DEF ReclaimEnd, SyncTemporary, CrashSafe, Files, Control, Publishing, Content, Name
<1>2. Files' /\ Held' = Held /\ Maybe' = Maybe /\ Sure' = Sure
  BY <1>1, SameHome, TmpFiles DEF CrashSafe
<1> QED
  BY <1>2 DEF ReclaimEnd, SyncTemporary, elsewhere, idx, CrashSafe, Control, Promised, Compatible, Accounted, Publication,
     Retirement, Reclamation, Removed, Readers, Publishing, Retiring, Reclaiming,
     Referenced

\* A failed reclamation leaves recovery due.
LEMMA StepReclaimThrow ==
  ASSUME CrashSafe, ReclaimThrow
  PROVE  CrashSafe'
<1>1. PICK S \in SUBSET Name :
        /\ Files' /\ Held' = Held \ S /\ Maybe' = Maybe /\ Sure' = Sure \ S
        /\ \A m \in acked : m \notin S /\ Deps[m] \cap S = {}
  <2>1. CASE UNCHANGED <<home, mayHome>> /\ tmp' \in [Name -> Content]
    <3>1. Files' /\ Held' = Held \ {} /\ Maybe' = Maybe /\ Sure' = Sure \ {}
      BY <2>1, SameHome, TmpFiles DEF CrashSafe
    <3> WITNESS {} \in SUBSET Name
    <3> QED BY <3>1
  <2>2. CASE pc # "tmp" /\ \E n \in OrphansIn(pc) : Unlink(n)
    <3>1. PICK n \in OrphansIn(pc) : Unlink(n)
      BY <2>2
    <3>2. n \in Name /\ n \notin acked /\ \A m \in acked : n \notin Deps[m]
      BY <3>1, DiskAssumption DEF ReclaimThrow, OrphansIn, Orphan, Referenced, CrashSafe,
         Control, Publishing, Reclaiming
    <3>3. Files' /\ Held' = Held \ {n} /\ Maybe' = Maybe /\ Sure' = Sure \ {n}
      BY <3>1, <3>2, UnlinkSets DEF CrashSafe
    <3> {n} \in SUBSET Name BY <3>2
    <3> WITNESS {n} \in SUBSET Name
    <3> QED BY <3>2, <3>3
  <2> QED BY <2>1, <2>2 DEF ReclaimThrow, fs, UnlinkTemporary, CrashSafe, Files, Content
<1>2. pc' = "idle" /\ pc \notin Publishing /\ pc \notin Retiring
  BY DEF ReclaimThrow, Publishing, Retiring, Reclaiming
<1>3. Control' /\ Readers'
  BY <1>1, <1>2 DEF ReclaimThrow, elsewhere, idx, CrashSafe, Control, Readers,
     Publishing, Retiring, Reclaiming
<1>4. Promised'
  BY <1>1, <1>2 DEF ReclaimThrow, elsewhere, idx, CrashSafe, Promised, Control,
     Publishing, Retiring, Reclaiming
<1>5. Compatible' /\ Accounted'
  BY <1>1, <1>2 DEF ReclaimThrow, elsewhere, idx, CrashSafe, Compatible, Accounted, Control,
     Publishing, Retiring, Reclaiming
<1>6. Publication'
  BY <1>1, <1>2 DEF ReclaimThrow, elsewhere, idx, CrashSafe, Publication, Control,
     Publishing, Retiring, Reclaiming
<1>7. Retirement' /\ Reclamation'
  BY <1>1, <1>2 DEF ReclaimThrow, elsewhere, idx, CrashSafe, Retirement, Reclamation, Control, Referenced,
     Publishing, Retiring, Reclaiming
<1>8. Removed'
  BY <1>1, <1>2 DEF ReclaimThrow, elsewhere, idx, CrashSafe, Removed, Control, Publication,
     Publishing, Retiring, Reclaiming
<1> QED BY <1>1, <1>3, <1>4, <1>5, <1>6, <1>7, <1>8 DEF CrashSafe

\* A lost payload takes the promises about it along.
LEMMA StepLosePayload ==
  ASSUME CrashSafe, NEW p \in Payload, LosePayload(p)
  PROVE  CrashSafe'
<1>1. /\ Files' /\ Held' = Held \ {p} /\ Maybe' = Maybe \ {p}
      /\ Sure' = Sure \ {p} /\ p \notin Manifest
  <2>1. /\ home' = [home EXCEPT ![p] = "absent"] /\ tmp' = tmp
        /\ mayHome' = [mayHome EXCEPT ![p] = {"absent"}] /\ p \in Name
    BY DEF LosePayload, Name
  <2>2. Files'
    BY <2>1 DEF CrashSafe, Files, Content
  <2>3. Held' = Held \ {p} /\ Maybe' = Maybe \ {p}
    BY <2>1 DEF CrashSafe, Files, Held, Maybe
  <2>4. Sure' = Sure \ {p}
    BY <2>1 DEF CrashSafe, Files, Sure
  <2> QED BY <2>2, <2>3, <2>4, DiskAssumption
<1>2. ~up /\ pc = "idle" /\ acked' = {m \in acked : p \notin Deps[m]}
  BY DEF LosePayload, CrashSafe, Control
<1>3. Control' /\ Readers'
  BY <1>1, <1>2 DEF LosePayload, elsewhere, idx, CrashSafe, Control, Readers,
     Publishing, Retiring, Reclaiming
<1>4. Promised'
  BY <1>1, <1>2 DEF LosePayload, elsewhere, idx, CrashSafe, Promised, Control,
     Publishing, Retiring, Reclaiming
<1>5. Compatible' /\ Accounted'
  BY <1>1, <1>2 DEF LosePayload, elsewhere, idx, CrashSafe, Compatible, Accounted, Control,
     Publishing, Retiring, Reclaiming
<1>6. Publication'
  BY <1>1, <1>2 DEF LosePayload, elsewhere, idx, CrashSafe, Publication, Control,
     Publishing, Retiring, Reclaiming
<1>7. Retirement' /\ Reclamation'
  BY <1>1, <1>2 DEF LosePayload, elsewhere, idx, CrashSafe, Retirement, Reclamation, Control, Referenced,
     Publishing, Retiring, Reclaiming
<1>8. Removed'
  BY <1>1, <1>2 DEF LosePayload, elsewhere, idx, CrashSafe, Removed, Control, Publication,
     Publishing, Retiring, Reclaiming
<1> QED BY <1>1, <1>3, <1>4, <1>5, <1>6, <1>7, <1>8 DEF CrashSafe

\* A crash leaves what is certain.
LEMMA StepCrash ==
  ASSUME CrashSafe, Crash
  PROVE  CrashSafe'
<1>1. /\ Files' /\ Sure \subseteq Sure' /\ Maybe' \subseteq Maybe
  <2>1. CASE UNCHANGED fs
    BY <2>1, SameHome, TmpFiles DEF CrashSafe, Files, fs
  <2>2. CASE PowerFailure
    BY <2>2, PowerSets DEF CrashSafe
  <2> QED BY <2>1, <2>2 DEF Crash
<1>2. ~up' /\ entries' = {} /\ durable' = {} /\ pc' = "idle" /\ todo' = {}
  BY DEF Crash
<1>3. Control' /\ Readers'
  BY <1>1, <1>2 DEF Crash, elsewhere, idx, CrashSafe, Control, Readers,
     Publishing, Retiring, Reclaiming
<1>4. Promised'
  BY <1>1, <1>2 DEF Crash, elsewhere, idx, CrashSafe, Promised, Control,
     Publishing, Retiring, Reclaiming
<1>5. Compatible' /\ Accounted'
  BY <1>1, <1>2 DEF Crash, elsewhere, idx, CrashSafe, Compatible, Accounted, Control,
     Publishing, Retiring, Reclaiming
<1>6. Publication'
  BY <1>1, <1>2 DEF Crash, elsewhere, idx, CrashSafe, Publication, Control,
     Publishing, Retiring, Reclaiming
<1>7. Retirement' /\ Reclamation'
  BY <1>1, <1>2 DEF Crash, elsewhere, idx, CrashSafe, Retirement, Reclamation, Control, Referenced,
     Publishing, Retiring, Reclaiming
<1>8. Removed'
  BY <1>1, <1>2 DEF Crash, elsewhere, idx, CrashSafe, Removed, Control, Publication,
     Publishing, Retiring, Reclaiming
<1> QED BY <1>1, <1>3, <1>4, <1>5, <1>6, <1>7, <1>8 DEF CrashSafe

\* Opening finds everything that was promised, and whatever else it finds is certain.
LEMMA StepStartup ==
  ASSUME CrashSafe, NEW b \in Budgets, Startup(b)
  PROVE  CrashSafe'
<1>1. Files' /\ Held' = Held /\ Maybe' = Held /\ Sure' = Held
  BY DEF Startup, CrashSafe, Files, Held, Maybe, Sure
<1>2. Sure \subseteq Held /\ Held \subseteq Maybe
  BY Nested DEF CrashSafe
<1>3. \A m \in Manifest : Readable(m) <=> m \in Held /\ Deps[m] \subseteq Held
  <2> SUFFICES ASSUME NEW m \in Manifest
               PROVE  Readable(m) <=> m \in Held /\ Deps[m] \subseteq Held
    OBVIOUS
  <2>1. m \in Name /\ Deps[m] \subseteq Name
    BY DiskAssumption DEF Name
  <2>2. \A n \in Name : home[n] = IF n \in Held THEN "whole" ELSE "absent"
    BY Nested DEF CrashSafe
  <2> QED BY <2>1, <2>2 DEF Readable, Sized
<1>4. \A m \in Accepted : m \in Manifest /\ m \in Held /\ Deps[m] \subseteq Held
  BY <1>3 DEF Accepted
<1>5. acked \subseteq Accepted
  BY <1>2, <1>3 DEF Accepted, CrashSafe, Control, Promised, Compatible
<1>6. /\ up' /\ entries' = Accepted /\ durable' = Accepted /\ acked' = Accepted
      /\ pc' = "idle" /\ pc = "idle" /\ Accepted \subseteq Manifest
  BY <1>5 DEF Startup, CrashSafe, Control, Accepted
<1>7. ~recovery' => \A m \in Manifest : m \in Held => m \in Accepted
  BY DEF Startup, Held
<1>8. Control' /\ Readers'
  BY <1>1, <1>2, <1>4, <1>6, <1>7 DEF Startup, elsewhere, idx, CrashSafe, Control, Readers,
     Publishing, Retiring, Reclaiming
<1>9. Promised'
  BY <1>1, <1>2, <1>4, <1>6, <1>7 DEF Startup, elsewhere, idx, CrashSafe, Promised, Control,
     Publishing, Retiring, Reclaiming
<1>10. Compatible' /\ Accounted'
  BY <1>1, <1>2, <1>4, <1>6, <1>7 DEF Startup, elsewhere, idx, CrashSafe, Compatible, Accounted, Control,
     Publishing, Retiring, Reclaiming
<1>11. Publication'
  BY <1>1, <1>2, <1>4, <1>6, <1>7 DEF Startup, elsewhere, idx, CrashSafe, Publication, Control,
     Publishing, Retiring, Reclaiming
<1>12. Retirement' /\ Reclamation'
  BY <1>1, <1>2, <1>4, <1>6, <1>7 DEF Startup, elsewhere, idx, CrashSafe, Retirement, Reclamation, Control, Referenced,
     Publishing, Retiring, Reclaiming
<1>13. Removed'
  BY <1>1, <1>2, <1>4, <1>6, <1>7 DEF Startup, elsewhere, idx, CrashSafe, Removed, Control, Publication,
     Publishing, Retiring, Reclaiming
<1> QED BY <1>1, <1>8, <1>9, <1>10, <1>11, <1>12, <1>13 DEF CrashSafe

-----------------------------------------------------------------------------
(* Theorems *)

\* A store that never opened has promised nothing.
LEMMA InitCrashSafe == Init => CrashSafe
<1> SUFFICES ASSUME Init PROVE CrashSafe
  OBVIOUS
<1>1. Files
  BY DEF Init, Files, Content
<1>2. Held = {} /\ Maybe = {}
  BY DEF Init, Held, Maybe
<1> QED BY <1>1, <1>2 DEF Init, CrashSafe, Control, Promised, Compatible, Accounted,
     Publication, Retirement, Reclamation, Removed, Readers, Publishing, Retiring, Reclaiming

\* A step that changes nothing keeps the invariant.
LEMMA StutterCrashSafe ==
  ASSUME CrashSafe, UNCHANGED vars
  PROVE  CrashSafe'
<1>1. Files' /\ Held' = Held /\ Maybe' = Maybe /\ Sure' = Sure
  BY SameHome, TmpFiles DEF CrashSafe, Files, vars, fs
<1> QED BY <1>1 DEF vars, fs, idx, CrashSafe, Control, Promised, Compatible, Accounted,
     Publication, Retirement, Reclamation, Removed, Readers, Referenced

\* The invariant is inductive.
LEMMA NextCrashSafe ==
  ASSUME CrashSafe, [Next]_vars
  PROVE  CrashSafe'
<1>1. CASE \E b \in Budgets : Startup(b)
  BY <1>1, StepStartup
<1>2. CASE Crash \/ \E p \in Payload : LosePayload(p)
  BY <1>2, StepCrash, StepLosePayload
<1>3. CASE \/ \E r \in Reader, m \in Manifest : Pin(r, m)
           \/ \E r \in Reader : Unpin(r)
           \/ \E p \in Payload : Quarantine(p)
           \/ \E m \in Manifest : Invalidate(m)
  BY <1>3, StepPin, StepUnpin, StepQuarantine, StepInvalidate
<1>4. CASE \/ \E m \in Manifest : PublishBegin(m)
           \/ \E p \in Payload : PayloadCreate(p)
           \/ \E p \in Payload : PayloadWrite(p)
           \/ \E p \in Payload : PayloadSync(p)
           \/ \E p \in Payload : PayloadRename(p)
  BY <1>4, StepPublishBegin, StepPayloadCreate, StepPayloadWrite, StepPayloadSync,
     StepPayloadRename
<1>5. CASE \/ PublishSyncTemporary \/ PublishSyncChunks \/ PublishSyncPrivate
           \/ ManifestCreate \/ ManifestWrite \/ ManifestSync \/ ManifestRename
  BY <1>5, StepPublishSyncTemporary, StepPublishSyncChunks, StepPublishSyncPrivate,
     StepManifestCreate, StepManifestWrite, StepManifestSync, StepManifestRename
<1>6. CASE PublishSyncManifests \/ PublishSyncRenames \/ PublishEnd \/ PublishThrow
  BY <1>6, StepPublishSyncManifests, StepPublishSyncRenames, StepPublishEnd,
     StepPublishThrow
<1>7. CASE \/ \E m \in Manifest : RetireBegin(m)
           \/ RetireUnlink \/ RetireSync \/ RetireSyncChunks \/ RetireEnd \/ RetireThrow
           \/ \E p \in Payload : RetireRemove(p)
  BY <1>7, StepRetireBegin, StepRetireUnlink, StepRetireSync, StepRetireSyncChunks,
     StepRetireEnd, StepRetireThrow, StepRetireRemove
<1>8. CASE \/ ReclaimBegin \/ ReclaimSync \/ ReclaimEnd \/ ReclaimThrow
           \/ \E n \in Name : ReclaimRemove(n)
           \/ \E n \in Name : ReclaimTemporary(n)
  BY <1>8, StepReclaimBegin, StepReclaimSync, StepReclaimEnd, StepReclaimThrow,
     StepReclaimRemove, StepReclaimTemporary
<1>9. CASE UNCHANGED vars
  BY <1>9, StutterCrashSafe
<1> QED BY <1>1, <1>2, <1>3, <1>4, <1>5, <1>6, <1>7, <1>8, <1>9 DEF Next

\* CrashSafe holds in every reachable state.
THEOREM CrashSafety == Spec => []CrashSafe
<1>1. CrashSafe /\ [Next]_vars => CrashSafe'
  BY NextCrashSafe
<1> QED BY InitCrashSafe, <1>1, PTL DEF Spec

\* A checkpoint that was ever shown as durable survives every sequence of
\* crashes, power failures, failed publications, retirements and reclamations.
THEOREM PublishedCheckpointsSurvive == Spec => []PublishedSurvives
<1>1. CrashSafe => PublishedSurvives
  BY DEF CrashSafe, Control, PublishedSurvives
<1> QED BY CrashSafety, <1>1, PTL

\* Every payload of an exposed entry is complete on disk, whatever a power
\* failure does, although startup reads no payload.
THEOREM ExposedEntriesAreComplete == Spec => []EntriesComplete
<1>1. CrashSafe => EntriesComplete
  <2> SUFFICES ASSUME CrashSafe, NEW m \in durable, NEW p \in Deps[m]
               PROVE  mayHome[p] = {"whole"}
    BY DEF EntriesComplete
  <2>1. m \in acked
    BY DEF CrashSafe, Control
  <2> QED BY <2>1 DEF CrashSafe, Promised, Sure
<1> QED BY CrashSafety, <1>1, PTL

\* What was reported as retired or reclaimed never comes back by itself.
THEOREM RetiredCheckpointsStayGone == Spec => []RetiredStaysGone
<1>1. CrashSafe => RetiredStaysGone
  BY DEF CrashSafe, Removed, RetiredStaysGone
<1> QED BY CrashSafety, <1>1, PTL

\* A reader's pin keeps the entry and all its files.
THEOREM PinsKeepFiles == Spec => []PinnedFilesStay
<1>1. CrashSafe => PinnedFilesStay
  <2> SUFFICES ASSUME CrashSafe, NEW r \in Reader, pins[r] # None
               PROVE  pins[r] \in entries /\ \A p \in Deps[pins[r]] : home[p] = "whole"
    BY DEF PinnedFilesStay
  <2>1. pins[r] \in durable
    BY DEF CrashSafe, Readers
  <2>2. pins[r] \in acked /\ pins[r] \in entries
    BY <2>1 DEF CrashSafe, Control
  <2>3. Deps[pins[r]] \subseteq Sure
    BY <2>2 DEF CrashSafe, Promised
  <2>4. Sure \subseteq Held
    BY Nested DEF CrashSafe
  <2> QED BY <2>2, <2>3, <2>4 DEF Held
<1> QED BY CrashSafety, <1>1, PTL

\* The steps that change what callers observe are steps of the atomic store.
LEMMA StepRefines ==
  ASSUME CrashSafe, CrashSafe', [Next]_vars
  PROVE  [Store!Next]_(Store!svars)
<1> USE DEF Store!Next, Store!svars
<1>1. CASE \E b \in Budgets : Startup(b)
  <2>1. PICK b \in Budgets : Startup(b)
    BY <1>1
  <2>2. up' /\ durable' = acked' /\ acked \subseteq acked' /\ gone' = gone /\ ~up
    BY <2>1 DEF Startup, CrashSafe, Control
  <2>3. durable' \in SUBSET (Manifest \ gone)
    BY <2>2 DEF CrashSafe, Control, Removed
  <2> QED BY <2>2, <2>3 DEF Store!Open
<1>2. CASE Crash
  BY <1>2 DEF Crash, Store!Close
<1>3. CASE \E p \in Payload : LosePayload(p)
  BY <1>3 DEF LosePayload, idx, Store!Lose
<1>4. CASE \E m \in Manifest : PublishBegin(m)
  <2>1. PICK m \in Manifest : PublishBegin(m)
    BY <1>4
  <2>2. m \notin entries /\ durable \subseteq entries
    BY <2>1 DEF PublishBegin, Admitted, Conflicts, CrashSafe, Control
  <2> QED BY <2>1, <2>2 DEF PublishBegin, Store!Attempt
<1>5. CASE PublishEnd
  <2>1. subject \in Manifest /\ subject \notin durable /\ subject \in entries /\ up
    BY <1>5 DEF PublishEnd, CrashSafe, Control, Publishing
  <2>2. subject \notin gone
    BY <2>1 DEF CrashSafe, Removed
  <2> QED BY <1>5, <2>1, <2>2 DEF PublishEnd, Store!Publish
<1>6. CASE \E m \in Manifest : RetireBegin(m)
  BY <1>6 DEF RetireBegin, Retirable, CrashSafe, Control, Publishing, Store!Retire
<1>7. CASE RetireEnd
  <2>1. up /\ {subject} \in SUBSET Manifest /\ {subject} \cap durable = {}
    BY <1>7 DEF RetireEnd, CrashSafe, Control, Publishing, Retiring
  <2>2. Store!Forget({subject})
    BY <1>7, <2>1 DEF RetireEnd, idx, Store!Forget
  <2> QED BY <2>1, <2>2
<1>8. CASE ReclaimEnd
  <2>1. up /\ (Manifest \ entries) \in SUBSET Manifest /\ (Manifest \ entries) \cap durable = {}
    BY <1>8 DEF ReclaimEnd, CrashSafe, Control, Publishing
  <2>2. Store!Forget(Manifest \ entries)
    BY <1>8, <2>1 DEF ReclaimEnd, idx, Store!Forget
  <2> QED BY <2>1, <2>2
<1>9. CASE UNCHANGED <<up, durable, acked, gone>>
  BY <1>9
<1> QED
  BY <1>1, <1>2, <1>3, <1>4, <1>5, <1>6, <1>7, <1>8, <1>9
     DEF Next, vars, idx, elsewhere, Pin, Unpin, Quarantine, Invalidate, PayloadCreate,
     PayloadWrite, PayloadSync, PayloadRename, PublishSyncTemporary, PublishSyncChunks,
     PublishSyncPrivate, ManifestCreate, ManifestWrite, ManifestSync, ManifestRename,
     PublishSyncManifests, PublishSyncRenames, PublishThrow, RetireUnlink, RetireSync,
     RetireSyncChunks, RetireThrow, RetireRemove, ReclaimBegin, ReclaimSync, ReclaimThrow,
     ReclaimRemove, ReclaimTemporary

\* The file protocol of DiskStore implements the atomic store of CheckpointStore.
THEOREM DiskStoreImplementsCheckpointStore == Spec => ImplementsCheckpointStore
<1>1. Init => Store!Init
  BY DEF Init, Store!Init
<1>2. CrashSafe /\ CrashSafe' /\ [Next]_vars => [Store!Next]_(Store!svars)
  BY StepRefines
<1> QED BY <1>1, <1>2, CrashSafety, PTL DEF Spec, ImplementsCheckpointStore, Store!Spec

-----------------------------------------------------------------------------
(***************************************************************************)
(* The byte count of DiskStore and its budget, for any set of files, any   *)
(* sizes and any budget.                                                   *)
(*                                                                         *)
(* managed_bytes counts what the process sees; the budget is about what a  *)
(* power failure may leave.  The invariant ties the two together: while no *)
(* outcome is uncertain, a name that may come back in a directory is seen  *)
(* there, except for removals of the retirement under way that are not     *)
(* synced yet, and a name that may come back in tmp/ is seen there or has  *)
(* been renamed and is seen at its home.                                   *)
(***************************************************************************)

\* Files of tmp/ that count.
OnTmp == {n \in Name : tmp[n] \in Sized}

\* Files of tmp/ that may count after a power failure.
MaybeTmp == {n \in Name : mayTmp[n] \cap Sized # {}}

\* Names that may come back in tmp/ although the process does not see them there.
Loose == MaybeTmp \ OnTmp

\* What the process sees in tmp/ is among what may be left there.
Temps ==
  /\ mayTmp \in [Name -> SUBSET Content]
  /\ \A n \in Name : tmp[n] \in mayTmp[n]

\* The types CrashSafe has no use for.
Fields ==
  /\ quarantined \subseteq entries
  /\ managed \in Nat /\ budget \in Nat
  /\ subject \in Manifest \cup {None}

\* managed_bytes is never too low, and exact unless recovery is due.
Count ==
  up => /\ managed >= Bytes(Held) + Bytes(OnTmp)
        /\ ~recovery => managed = Bytes(Held) + Bytes(OnTmp)

\* Removals that are not synced yet: those of the retirement under way, directory
\* by directory, and those of the directories a reclamation has yet to sync.
Removals ==
  /\ pc \in Reclaiming => recovery
  /\ up /\ ~recovery /\ pc \notin Retiring \ {"unlink"} => Maybe \subseteq Held
  /\ pc = "unlinkSync" => Maybe \ Held \subseteq Manifest
  /\ pc = "remove" => Maybe \ Held \subseteq Payload
  /\ pc = "removeSync" => Maybe \ Held \subseteq Private
  /\ pc \in {"chunks", "private", "tmp"} => Maybe \ Held \subseteq Payload
  /\ pc \in {"private", "tmp"} => Maybe \ Held \subseteq Private
  /\ pc = "tmp" => Maybe \subseteq Held

\* Renames that are not synced in tmp/: the file is at its home, and no
\* retirement can take it away before tmp/ is synced.
Renames ==
  up /\ ~recovery =>
    /\ Loose \subseteq Held
    /\ \A m \in durable : m \notin Loose /\ Deps[m] \cap Loose = {}
    /\ pc = "index" => Loose = {}
    /\ pc \in {"unlink", "unlinkSync"} =>
         subject \notin Loose /\ Deps[subject] \cap Loose = {}
    /\ pc = "remove" => todo \cap Loose = {}

\* The publication under way has room for what it has yet to write.
Room ==
  /\ pc = "payload" => managed + Size[subject] + Bytes(todo \ OnTmp) <= budget
  /\ pc \in {"syncChunks", "syncPrivate", "check", "manifestWrite"} =>
       managed + Size[subject] <= budget

\* The inductive invariant, with CrashSafe.
Space == Temps /\ Fields /\ Count /\ Removals /\ Renames /\ Room

-----------------------------------------------------------------------------
(* Sums of file lengths *)

\* The lengths as weights of SumLemmas.
Weight == [n \in Name |-> Size[n]]

\* The function MapThenFoldSet iterates to compute Bytes(S).
BytesStep(g, S) ==
  g = [s \in SUBSET S |-> IF s = {} THEN 0
                          ELSE Size[CHOOSE x \in s : TRUE]
                               + g[s \ {CHOOSE x \in s : TRUE}]]

\* Bytes is a sum in the sense of SumLemmas.
LEMMA BytesIs ==
  ASSUME NEW S \in SUBSET Name
  PROVE  Bytes(S) = SumOf(Weight, S) /\ Weight \in [Name -> Nat]
         /\ IsFiniteSet(S)
<1>. DEFINE c == CHOOSE g : BytesStep(g, S)
<1>1. Weight \in [Name -> Nat] /\ \A n \in Name : Weight[n] = Size[n]
  BY SizeAssumption DEF Weight, Name
<1>2. IsFiniteSet(S)
  BY SizeAssumption, FS_Subset DEF Name
<1>3. Bytes(S) = c[S]
  BY DEF Bytes, MapThenSumSet, MapThenFoldSet, BytesStep
<1>4. PICK h : IsSum(h, Weight, S) /\ h \in [SUBSET S -> Nat]
  BY <1>1, <1>2, SumExists
<1>5. \A s \in SUBSET S : s # {} => Size[CHOOSE x \in s : TRUE] = Weight[Pick(s)]
  <2>1. \A s \in SUBSET S : s # {} => Pick(s) \in Name
    BY PickIn
  <2>. QED
    BY <1>1, <2>1 DEF Pick
<1>6. ASSUME NEW g, BytesStep(g, S)
      PROVE  IsSum(g, Weight, S)
  BY <1>5, <1>6 DEF BytesStep, IsSum, Pick
<1>7. BytesStep(h, S)
  BY <1>4, <1>5 DEF BytesStep, IsSum, Pick
<1>8. IsSum(c, Weight, S)
  BY <1>6, <1>7
<1>9. SumOf(Weight, S) = c[S]
  BY <1>1, <1>2, <1>8, SumIs
<1>. QED
  BY <1>1, <1>2, <1>3, <1>9

\* A length is a natural.
LEMMA SizeNat == \A n \in Name : Size[n] \in Nat
BY SizeAssumption DEF Name

\* A number of bytes is a natural.
LEMMA BytesNat ==
  ASSUME NEW S \in SUBSET Name
  PROVE  Bytes(S) \in Nat
BY BytesIs, SumNat

\* No file has no bytes.
LEMMA BytesEmpty == Bytes({}) = 0
BY BytesIs, SumEmpty

\* One file more adds its length.
LEMMA BytesAdd ==
  ASSUME NEW S \in SUBSET Name, NEW n \in Name, n \notin S
  PROVE  Bytes(S \cup {n}) = Bytes(S) + Size[n]
<1>1. S \cup {n} \in SUBSET Name /\ Weight[n] = Size[n]
  BY DEF Weight
<1>2. SumOf(Weight, S \cup {n}) = Weight[n] + SumOf(Weight, S)
  BY BytesIs, SumAdd
<1>. QED
  BY <1>1, <1>2, BytesIs, BytesNat, SizeNat

\* One file less takes its length away.
LEMMA BytesRemove ==
  ASSUME NEW S \in SUBSET Name, NEW n \in S
  PROVE  Bytes(S \ {n}) = Bytes(S) - Size[n] /\ Bytes(S) >= Size[n]
<1>1. S \ {n} \in SUBSET Name /\ n \in Name /\ n \notin S \ {n}
  OBVIOUS
<1>2. Bytes((S \ {n}) \cup {n}) = Bytes(S \ {n}) + Size[n]
  BY <1>1, BytesAdd
<1>3. Bytes((S \ {n}) \cup {n}) = Bytes(S)
  <2>1. (S \ {n}) \cup {n} = S
    OBVIOUS
  <2>. QED
    BY <2>1, Zenon
<1>. QED
  BY <1>1, <1>2, <1>3, BytesNat, SizeNat

\* More files have no fewer bytes, and files counted twice are counted at least
\* once.
LEMMA BytesCover ==
  ASSUME NEW S \in SUBSET Name, NEW A \in SUBSET Name, NEW B \in SUBSET Name,
         S \subseteq A \cup B
  PROVE  Bytes(S) <= Bytes(A) + Bytes(B)
<1>. DEFINE X == S \cap A
            Y == S \ A
<1>1. \A P \in SUBSET Name, Q \in SUBSET Name :
        P \cap Q = {} => Bytes(P \cup Q) = Bytes(P) + Bytes(Q)
  <2>. SUFFICES ASSUME NEW P \in SUBSET Name, NEW Q \in SUBSET Name, P \cap Q = {}
                PROVE  Bytes(P \cup Q) = Bytes(P) + Bytes(Q)
    OBVIOUS
  <2>1. SumOf(Weight, P \cup Q) = SumOf(Weight, P) + SumOf(Weight, Q)
    BY BytesIs, SumUnion
  <2>. QED
    BY <2>1, BytesIs
<1>2. \A P \in SUBSET Name : \A Q \in SUBSET P : Bytes(Q) <= Bytes(P)
  <2>. SUFFICES ASSUME NEW P \in SUBSET Name, NEW Q \in SUBSET P
                PROVE  Bytes(Q) <= Bytes(P)
    OBVIOUS
  <2>1. Bytes(Q \cup (P \ Q)) = Bytes(Q) + Bytes(P \ Q)
    BY <1>1
  <2>2. Bytes(Q \cup (P \ Q)) = Bytes(P)
    <3>1. Q \cup (P \ Q) = P
      OBVIOUS
    <3>. QED
      BY <3>1, Zenon
  <2>3. Bytes(Q) \in Nat /\ Bytes(P \ Q) \in Nat
    BY BytesNat
  <2>. QED
    BY <2>1, <2>2, <2>3
<1>3. Bytes(X \cup Y) = Bytes(X) + Bytes(Y)
  BY <1>1
<1>4. Bytes(X \cup Y) = Bytes(S)
  <2>1. X \cup Y = S
    OBVIOUS
  <2>. QED
    BY <2>1, Zenon
<1>5. X \in SUBSET A /\ Y \in SUBSET B
  OBVIOUS
<1>6. Bytes(X) <= Bytes(A) /\ Bytes(Y) <= Bytes(B)
  BY <1>2, <1>5
<1>7. Bytes(X) \in Nat /\ Bytes(Y) \in Nat /\ Bytes(A) \in Nat /\ Bytes(B) \in Nat
  BY <1>5, BytesNat
<1>. HIDE DEF X, Y
<1>. QED
  BY <1>3, <1>4, <1>6, <1>7

\* The same bytes, whichever way the set is written.
LEMMA BytesSame ==
  ASSUME NEW S, NEW T, \A x : x \in S <=> x \in T
  PROVE  Bytes(S) = Bytes(T)
<1>1. S = T
  OBVIOUS
<1>. QED
  BY <1>1, Zenon

\* A scan counts the files at home and the files in tmp/.
LEMMA ScannedIs ==
  ASSUME Files
  PROVE  Scanned(home, tmp) = Bytes(Held) + Bytes(OnTmp)
<1>1. {n \in Name : home[n] \in Sized} = Held
  BY DEF Files, Held, Sized
<1>2. {n \in Name : tmp[n] \in Sized} = OnTmp
  BY DEF OnTmp
<1>. QED
  BY <1>1, <1>2, Zenon DEF Scanned

-----------------------------------------------------------------------------
(* What the file operations do to the sets of tmp/ *)

\* The sets of tmp/ are nested.
LEMMA TempsNested ==
  ASSUME Files, Temps
  PROVE  /\ OnTmp \subseteq MaybeTmp /\ MaybeTmp \subseteq Name /\ OnTmp \subseteq Name
         /\ Held \subseteq Name /\ Maybe \subseteq Name
         /\ Loose \subseteq Name /\ MaybeTmp \subseteq OnTmp \cup Loose
BY DEF Files, Temps, OnTmp, MaybeTmp, Held, Maybe, Loose

\* Steps that leave tmp/ alone.
LEMMA SameTmp ==
  ASSUME Temps, UNCHANGED <<tmp, mayTmp>>
  PROVE  Temps' /\ OnTmp' = OnTmp /\ MaybeTmp' = MaybeTmp /\ Loose' = Loose
BY DEF Temps, OnTmp, MaybeTmp, Loose

\* An empty file counts for nothing.
LEMMA CreateSets ==
  ASSUME Files, Temps, NEW n \in Name, Create(n)
  PROVE  /\ Temps' /\ UNCHANGED <<home, mayHome>>
         /\ OnTmp' = OnTmp /\ MaybeTmp' = MaybeTmp /\ Loose' = Loose
<1>1. /\ tmp' = [tmp EXCEPT ![n] = "empty"] /\ tmp[n] = "absent"
      /\ mayTmp' = [mayTmp EXCEPT ![n] = @ \cup {"empty"}]
  BY DEF Create
<1>2. Temps'
  BY <1>1 DEF Files, Temps, Content
<1>3. OnTmp' = OnTmp
  BY <1>1 DEF Files, OnTmp, Sized
<1>4. MaybeTmp' = MaybeTmp
  BY <1>1 DEF Temps, MaybeTmp, Sized
<1>. QED
  BY <1>2, <1>3, <1>4 DEF Loose, Create

\* Writing makes a file count, now and after a power failure.
LEMMA WriteSets ==
  ASSUME Files, Temps, NEW n \in Name, Rewrite(n, "empty", "dirty")
  PROVE  /\ Temps' /\ UNCHANGED <<home, mayHome>> /\ n \notin OnTmp
         /\ OnTmp' = OnTmp \cup {n} /\ MaybeTmp' = MaybeTmp \cup {n}
         /\ Loose' = Loose \ {n}
<1>1. /\ tmp' = [tmp EXCEPT ![n] = "dirty"] /\ tmp[n] = "empty"
      /\ mayTmp' = [mayTmp EXCEPT ![n] = (@ \ {"empty"}) \cup {"dirty"}]
  BY DEF Rewrite
<1>2. Temps'
  BY <1>1 DEF Files, Temps, Content
<1>3. OnTmp' = OnTmp \cup {n} /\ n \notin OnTmp
  BY <1>1 DEF Files, OnTmp, Sized
<1>4. MaybeTmp' = MaybeTmp \cup {n}
  BY <1>1 DEF Temps, MaybeTmp, Sized
<1>. QED
  BY <1>2, <1>3, <1>4 DEF Loose, Rewrite

\* fsync of a file changes what it holds, not whether it counts.
LEMMA FsyncSets ==
  ASSUME Files, Temps, NEW n \in Name, Rewrite(n, "dirty", "whole")
  PROVE  /\ Temps' /\ UNCHANGED <<home, mayHome>>
         /\ OnTmp' = OnTmp /\ MaybeTmp' = MaybeTmp /\ Loose' = Loose
<1>1. /\ tmp' = [tmp EXCEPT ![n] = "whole"] /\ tmp[n] = "dirty"
      /\ mayTmp' = [mayTmp EXCEPT ![n] = (@ \ {"dirty"}) \cup {"whole"}]
  BY DEF Rewrite
<1>2. Temps'
  BY <1>1 DEF Files, Temps, Content
<1>3. OnTmp' = OnTmp
  BY <1>1 DEF Files, OnTmp, Sized
<1>4. MaybeTmp' = MaybeTmp
  <2>1. "dirty" \in mayTmp[n]
    BY <1>1 DEF Temps
  <2>. QED
    BY <1>1, <2>1 DEF Temps, MaybeTmp, Sized
<1>. QED
  BY <1>2, <1>3, <1>4 DEF Loose, Rewrite

\* A renamed file leaves tmp/ and may come back there.
LEMMA RenameTemps ==
  ASSUME Files, Temps, NEW n \in Name, tmp[n] = "whole", RenameNoReplace(n)
  PROVE  /\ Temps' /\ n \in OnTmp /\ n \in MaybeTmp
         /\ OnTmp' = OnTmp \ {n} /\ MaybeTmp' = MaybeTmp
         /\ Loose' = Loose \cup {n}
<1>1. /\ tmp' = [tmp EXCEPT ![n] = "absent"]
      /\ mayTmp' = [mayTmp EXCEPT ![n] = @ \cup {"absent"}]
  BY DEF RenameNoReplace
<1>2. Temps'
  BY <1>1 DEF Files, Temps, Content
<1>3. OnTmp' = OnTmp \ {n} /\ n \in OnTmp
  BY <1>1 DEF Files, OnTmp, Sized
<1>4. MaybeTmp' = MaybeTmp
  BY <1>1 DEF Temps, MaybeTmp, Sized
<1>5. n \in MaybeTmp
  BY <1>3, TempsNested
<1>. QED
  BY <1>2, <1>3, <1>4, <1>5 DEF Loose

\* A temporary file is removed.
LEMMA UnlinkTemps ==
  ASSUME Files, Temps, NEW n \in Name, UnlinkTemporary(n)
  PROVE  /\ Temps' /\ UNCHANGED <<home, mayHome>>
         /\ OnTmp' = OnTmp \ {n} /\ MaybeTmp' = MaybeTmp
<1>1. /\ tmp' = [tmp EXCEPT ![n] = "absent"]
      /\ mayTmp' = [mayTmp EXCEPT ![n] = @ \cup {"absent"}]
  BY DEF UnlinkTemporary
<1>2. Temps'
  BY <1>1 DEF Files, Temps, Content
<1>3. OnTmp' = OnTmp \ {n}
  BY <1>1 DEF Files, OnTmp, Sized
<1>4. MaybeTmp' = MaybeTmp
  BY <1>1 DEF Temps, MaybeTmp, Sized
<1>. QED
  BY <1>2, <1>3, <1>4 DEF UnlinkTemporary

\* After fsync of tmp/ nothing is loose.
LEMMA SyncTemps ==
  ASSUME Files, Temps, SyncTemporary
  PROVE  /\ Temps' /\ UNCHANGED <<home, mayHome>>
         /\ OnTmp' = OnTmp /\ MaybeTmp' = OnTmp /\ Loose' = {}
<1>1. tmp' = tmp /\ mayTmp' = [n \in Name |-> {tmp[n]}]
  BY DEF SyncTemporary
<1>2. Temps'
  BY <1>1 DEF Files, Temps
<1>3. OnTmp' = OnTmp
  BY <1>1 DEF OnTmp
<1>4. MaybeTmp' = OnTmp
  BY <1>1 DEF OnTmp, MaybeTmp
<1>. QED
  BY <1>2, <1>3, <1>4 DEF Loose, SyncTemporary

\* A power failure settles tmp/ on something that might have been there.
LEMMA PowerTemps ==
  ASSUME Files, Temps, PowerFailure
  PROVE  Temps' /\ MaybeTmp' = OnTmp' /\ OnTmp' \subseteq MaybeTmp
<1>1. PICK t \in [Unsettled(tmp, mayTmp) -> Content] :
        /\ \A n \in DOMAIN t : t[n] \in Survivors(mayTmp[n])
        /\ tmp' = [n \in Name |-> Settled(tmp, n, t)]
        /\ mayTmp' = [n \in Name |-> {tmp'[n]}]
  BY DEF PowerFailure
<1>2. \A n \in Name : tmp'[n] \in Content
  <2> SUFFICES ASSUME NEW n \in Name PROVE Settled(tmp, n, t) \in Content
    BY <1>1
  <2> QED BY <1>1 DEF Settled, Files
<1>3. Temps'
  BY <1>1, <1>2 DEF Temps
<1>4. MaybeTmp' = OnTmp'
  BY <1>1 DEF MaybeTmp, OnTmp
<1>5. ASSUME NEW n \in Name, tmp'[n] \in Sized
      PROVE  mayTmp[n] \cap Sized # {}
  <2>1. tmp'[n] = Settled(tmp, n, t)
    BY <1>1
  <2>2. CASE n \in DOMAIN t
    <3>1. t[n] \in Survivors(mayTmp[n]) /\ t[n] \in Sized
      BY <1>1, <1>5, <2>1, <2>2 DEF Settled
    <3>. QED
      BY <3>1 DEF Survivors, Sized
  <2>3. CASE n \notin DOMAIN t
    BY <1>5, <2>1, <2>3 DEF Settled, Temps
  <2>. QED
    BY <2>2, <2>3
<1>. QED
  BY <1>3, <1>4, <1>5 DEF OnTmp, MaybeTmp

\* The names of MayRemain, in terms of the sets.
LEMMA MayRemainIs ==
  ASSUME Files, Temps
  PROVE  MayRemain = Maybe \cup MaybeTmp
BY DEF Files, Temps, MayRemain, Maybe, MaybeTmp, Sized

-----------------------------------------------------------------------------
(* Every step keeps the invariant *)

\* The count is the same when the files are.
LEMMA CountSame ==
  ASSUME Count, Held' = Held, OnTmp' = OnTmp, managed' = managed,
         up' => up, ~recovery' => ~recovery
  PROVE  Count'
BY DEF Count

\* A reader pins an entry.
LEMMA SpacePin ==
  ASSUME CrashSafe, Space, NEW r \in Reader, NEW m \in Manifest, Pin(r, m)
  PROVE  Space'
<1>1. Files /\ Temps /\ Fields /\ Count /\ Removals /\ Renames /\ Room /\ Control
  BY DEF CrashSafe, Space
<1>2. UNCHANGED <<home, mayHome, tmp, mayTmp, managed, budget>> /\ up' = up
  BY DEF Pin, fs
<1>3. /\ Held' = Held /\ Maybe' = Maybe
      /\ Temps' /\ OnTmp' = OnTmp /\ MaybeTmp' = MaybeTmp /\ Loose' = Loose
  BY <1>1, <1>2, SameHome, SameTmp
<1>4. Fields'
  BY <1>1, <1>2, DiskAssumption DEF Pin, Fields, Control, idx, Publishing
<1>5. Count'
  <2>1. ~recovery' => ~recovery
    BY DEF Pin
  <2>. QED
    BY <1>1, <1>2, <1>3, <2>1, CountSame
<1>6. Removals'
  BY <1>1, <1>2, <1>3
     DEF Pin, Removals, Control, Publishing, Retiring, Reclaiming, Attempted
<1>7. Renames'
  BY <1>1, <1>2, <1>3
     DEF Pin, Renames, Control, Publishing, Retiring, Reclaiming, Attempted, idx,
         Retirable, Fields
<1>8. Room'
  BY <1>1, <1>2, <1>3 DEF Pin, Room, Publishing, Retiring
<1>. QED
  BY <1>3, <1>4, <1>5, <1>6, <1>7, <1>8 DEF Space

\* A reader lets go.
LEMMA SpaceUnpin ==
  ASSUME CrashSafe, Space, NEW r \in Reader, Unpin(r)
  PROVE  Space'
<1>1. Files /\ Temps /\ Fields /\ Count /\ Removals /\ Renames /\ Room /\ Control
  BY DEF CrashSafe, Space
<1>2. UNCHANGED <<home, mayHome, tmp, mayTmp, managed, budget>> /\ up' = up
  BY DEF Unpin, fs
<1>3. /\ Held' = Held /\ Maybe' = Maybe
      /\ Temps' /\ OnTmp' = OnTmp /\ MaybeTmp' = MaybeTmp /\ Loose' = Loose
  BY <1>1, <1>2, SameHome, SameTmp
<1>4. Fields'
  BY <1>1, <1>2, DiskAssumption DEF Unpin, Fields, Control, idx, Publishing
<1>5. Count'
  <2>1. ~recovery' => ~recovery
    BY DEF Unpin
  <2>. QED
    BY <1>1, <1>2, <1>3, <2>1, CountSame
<1>6. Removals'
  BY <1>1, <1>2, <1>3
     DEF Unpin, Removals, Control, Publishing, Retiring, Reclaiming, Attempted
<1>7. Renames'
  BY <1>1, <1>2, <1>3
     DEF Unpin, Renames, Control, Publishing, Retiring, Reclaiming, Attempted, idx,
         Retirable, Fields
<1>8. Room'
  BY <1>1, <1>2, <1>3 DEF Unpin, Room, Publishing, Retiring
<1>. QED
  BY <1>3, <1>4, <1>5, <1>6, <1>7, <1>8 DEF Space

\* A dependency is distrusted.
LEMMA SpaceQuarantine ==
  ASSUME CrashSafe, Space, NEW p \in Payload, Quarantine(p)
  PROVE  Space'
<1>1. Files /\ Temps /\ Fields /\ Count /\ Removals /\ Renames /\ Room /\ Control
  BY DEF CrashSafe, Space
<1>2. UNCHANGED <<home, mayHome, tmp, mayTmp, managed, budget>> /\ up' = up
  BY DEF Quarantine, fs
<1>3. /\ Held' = Held /\ Maybe' = Maybe
      /\ Temps' /\ OnTmp' = OnTmp /\ MaybeTmp' = MaybeTmp /\ Loose' = Loose
  BY <1>1, <1>2, SameHome, SameTmp
<1>4. Fields'
  BY <1>1, <1>2, DiskAssumption DEF Quarantine, Fields, Control, idx, Publishing
<1>5. Count'
  <2>1. ~recovery' => ~recovery
    BY DEF Quarantine
  <2>. QED
    BY <1>1, <1>2, <1>3, <2>1, CountSame
<1>6. Removals'
  BY <1>1, <1>2, <1>3
     DEF Quarantine, Removals, Control, Publishing, Retiring, Reclaiming, Attempted
<1>7. Renames'
  BY <1>1, <1>2, <1>3
     DEF Quarantine, Renames, Control, Publishing, Retiring, Reclaiming, Attempted, idx,
         Retirable, Fields
<1>8. Room'
  BY <1>1, <1>2, <1>3 DEF Quarantine, Room, Publishing, Retiring
<1>. QED
  BY <1>3, <1>4, <1>5, <1>6, <1>7, <1>8 DEF Space

\* An entry is distrusted.
LEMMA SpaceInvalidate ==
  ASSUME CrashSafe, Space, NEW m \in Manifest, Invalidate(m)
  PROVE  Space'
<1>1. Files /\ Temps /\ Fields /\ Count /\ Removals /\ Renames /\ Room /\ Control
  BY DEF CrashSafe, Space
<1>2. UNCHANGED <<home, mayHome, tmp, mayTmp, managed, budget>> /\ up' = up
  BY DEF Invalidate, fs
<1>3. /\ Held' = Held /\ Maybe' = Maybe
      /\ Temps' /\ OnTmp' = OnTmp /\ MaybeTmp' = MaybeTmp /\ Loose' = Loose
  BY <1>1, <1>2, SameHome, SameTmp
<1>4. Fields'
  BY <1>1, <1>2, DiskAssumption DEF Invalidate, Fields, Control, idx, Publishing
<1>5. Count'
  <2>1. ~recovery' => ~recovery
    BY DEF Invalidate
  <2>. QED
    BY <1>1, <1>2, <1>3, <2>1, CountSame
<1>6. Removals'
  BY <1>1, <1>2, <1>3
     DEF Invalidate, Removals, Control, Publishing, Retiring, Reclaiming, Attempted
<1>7. Renames'
  BY <1>1, <1>2, <1>3
     DEF Invalidate, Renames, Control, Publishing, Retiring, Reclaiming, Attempted, idx,
         Retirable, Fields
<1>8. Room'
  BY <1>1, <1>2, <1>3 DEF Invalidate, Room, Publishing, Retiring
<1>. QED
  BY <1>3, <1>4, <1>5, <1>6, <1>7, <1>8 DEF Space

\* The candidate becomes an entry: nothing is loose.
LEMMA SpacePublishEnd ==
  ASSUME CrashSafe, Space, PublishEnd
  PROVE  Space'
<1>1. Files /\ Temps /\ Fields /\ Count /\ Removals /\ Renames /\ Room /\ Control
  BY DEF CrashSafe, Space
<1>2. UNCHANGED <<home, mayHome, tmp, mayTmp, managed, budget>> /\ up' = up
  BY DEF PublishEnd, fs
<1>3. /\ Held' = Held /\ Maybe' = Maybe
      /\ Temps' /\ OnTmp' = OnTmp /\ MaybeTmp' = MaybeTmp /\ Loose' = Loose
  BY <1>1, <1>2, SameHome, SameTmp
<1>4. Fields'
  BY <1>1, <1>2, DiskAssumption DEF PublishEnd, Fields, Control, idx, Publishing
<1>5. Count'
  <2>1. ~recovery' => ~recovery
    BY DEF PublishEnd
  <2>. QED
    BY <1>1, <1>2, <1>3, <2>1, CountSame
<1>6. Removals'
  BY <1>1, <1>2, <1>3
     DEF PublishEnd, Removals, Control, Publishing, Retiring, Reclaiming, Attempted
<1>7. Renames'
  BY <1>1, <1>2, <1>3
     DEF PublishEnd, Renames, Control, Publishing, Retiring, Reclaiming, Attempted, idx,
         Retirable, Fields
<1>8. Room'
  BY <1>1, <1>2, <1>3 DEF PublishEnd, Room, Publishing, Retiring
<1>. QED
  BY <1>3, <1>4, <1>5, <1>6, <1>7, <1>8 DEF Space

\* A failed publication leaves its bytes where they are.
LEMMA SpacePublishThrow ==
  ASSUME CrashSafe, Space, PublishThrow
  PROVE  Space'
<1>1. Files /\ Temps /\ Fields /\ Count /\ Removals /\ Renames /\ Room /\ Control
  BY DEF CrashSafe, Space
<1>2. UNCHANGED <<home, mayHome, tmp, mayTmp, managed, budget>> /\ up' = up
  BY DEF PublishThrow, fs
<1>3. /\ Held' = Held /\ Maybe' = Maybe
      /\ Temps' /\ OnTmp' = OnTmp /\ MaybeTmp' = MaybeTmp /\ Loose' = Loose
  BY <1>1, <1>2, SameHome, SameTmp
<1>4. Fields'
  BY <1>1, <1>2, DiskAssumption DEF PublishThrow, Fields, Control, idx, Publishing
<1>5. Count'
  <2>1. ~recovery' => ~recovery
    BY DEF PublishThrow
  <2>. QED
    BY <1>1, <1>2, <1>3, <2>1, CountSame
<1>6. Removals'
  BY <1>1, <1>2, <1>3
     DEF PublishThrow, Removals, Control, Publishing, Retiring, Reclaiming, Attempted
<1>7. Renames'
  BY <1>1, <1>2, <1>3
     DEF PublishThrow, Renames, Control, Publishing, Retiring, Reclaiming, Attempted, idx,
         Retirable, Fields
<1>8. Room'
  BY <1>1, <1>2, <1>3 DEF PublishThrow, Room, Publishing, Retiring
<1>. QED
  BY <1>3, <1>4, <1>5, <1>6, <1>7, <1>8 DEF Space

\* A retirement begins: neither the manifest nor its payloads are loose.
LEMMA SpaceRetireBegin ==
  ASSUME CrashSafe, Space, NEW m \in Manifest, RetireBegin(m)
  PROVE  Space'
<1>1. Files /\ Temps /\ Fields /\ Count /\ Removals /\ Renames /\ Room /\ Control
  BY DEF CrashSafe, Space
<1>2. UNCHANGED <<home, mayHome, tmp, mayTmp, managed, budget>> /\ up' = up
  BY DEF RetireBegin, fs
<1>3. /\ Held' = Held /\ Maybe' = Maybe
      /\ Temps' /\ OnTmp' = OnTmp /\ MaybeTmp' = MaybeTmp /\ Loose' = Loose
  BY <1>1, <1>2, SameHome, SameTmp
<1>4. Fields'
  BY <1>1, <1>2, DiskAssumption DEF RetireBegin, Fields, Control, idx, Publishing
<1>5. Count'
  <2>1. ~recovery' => ~recovery
    BY DEF RetireBegin
  <2>. QED
    BY <1>1, <1>2, <1>3, <2>1, CountSame
<1>6. Removals'
  BY <1>1, <1>2, <1>3
     DEF RetireBegin, Removals, Control, Publishing, Retiring, Reclaiming, Attempted
<1>7. Renames'
  BY <1>1, <1>2, <1>3
     DEF RetireBegin, Renames, Control, Publishing, Retiring, Reclaiming, Attempted, idx,
         Retirable, Fields
<1>8. Room'
  BY <1>1, <1>2, <1>3 DEF RetireBegin, Room, Publishing, Retiring
<1>. QED
  BY <1>3, <1>4, <1>5, <1>6, <1>7, <1>8 DEF Space

\* A reclamation begins: from here on recovery is due.
LEMMA SpaceReclaimBegin ==
  ASSUME CrashSafe, Space, ReclaimBegin
  PROVE  Space'
<1>1. Files /\ Temps /\ Fields /\ Count /\ Removals /\ Renames /\ Room /\ Control
  BY DEF CrashSafe, Space
<1>2. UNCHANGED <<home, mayHome, tmp, mayTmp, managed, budget>> /\ up' = up
  BY DEF ReclaimBegin, fs
<1>3. /\ Held' = Held /\ Maybe' = Maybe
      /\ Temps' /\ OnTmp' = OnTmp /\ MaybeTmp' = MaybeTmp /\ Loose' = Loose
  BY <1>1, <1>2, SameHome, SameTmp
<1>4. Fields'
  BY <1>1, <1>2, DiskAssumption DEF ReclaimBegin, Fields, Control, idx, Publishing
<1>5. Count'
  <2>1. ~recovery' => ~recovery
    BY DEF ReclaimBegin
  <2>. QED
    BY <1>1, <1>2, <1>3, <2>1, CountSame
<1>6. Removals'
  BY <1>1, <1>2, <1>3
     DEF ReclaimBegin, Removals, Control, Publishing, Retiring, Reclaiming, Attempted
<1>7. Renames'
  BY <1>1, <1>2, <1>3
     DEF ReclaimBegin, Renames, Control, Publishing, Retiring, Reclaiming, Attempted, idx,
         Retirable, Fields
<1>8. Room'
  BY <1>1, <1>2, <1>3 DEF ReclaimBegin, Room, Publishing, Retiring
<1>. QED
  BY <1>3, <1>4, <1>5, <1>6, <1>7, <1>8 DEF Space

\* A publication begins only when what it has to write fits.
LEMMA SpacePublishBegin ==
  ASSUME CrashSafe, Space, NEW m \in Manifest, PublishBegin(m)
  PROVE  Space'
<1>1. Files /\ Temps /\ Fields /\ Count /\ Removals /\ Renames /\ Room /\ Control
  BY DEF CrashSafe, Space
<1>2. UNCHANGED <<home, mayHome, tmp, mayTmp, managed, budget, up, recovery>>
  BY DEF PublishBegin, fs
<1>3. /\ Held' = Held /\ Maybe' = Maybe
      /\ Temps' /\ OnTmp' = OnTmp /\ MaybeTmp' = MaybeTmp /\ Loose' = Loose
  BY <1>1, <1>2, SameHome, SameTmp
<1>4. Fields'
  BY <1>1, <1>2 DEF PublishBegin, Fields
<1>5. Count'
  BY <1>1, <1>2, <1>3, CountSame
<1>6. Removals'
  BY <1>1, <1>2, <1>3 DEF PublishBegin, Removals, Retiring, Reclaiming
<1>7. Renames'
  BY <1>1, <1>2, <1>3 DEF PublishBegin, Renames
<1>8. Room'
  <2>. DEFINE F == {p \in Deps[m] : ~Referenced(p)}
  <2>1. Deps[m] \subseteq Name /\ m \in Name
    BY DiskAssumption DEF Name
  <2>2. F \in SUBSET Name
    BY <2>1
  <2>3. \A p \in Deps[m] : home[p] = "absent" => p \in F /\ p \notin OnTmp
    BY DEF PublishBegin, Admitted, OnTmp, Sized
  <2>4. \A p \in F : home[p] = "absent"
    BY DEF PublishBegin, Admitted
  <2>5. \A x : x \in todo' \ OnTmp' <=> x \in F
    BY <1>3, <2>3, <2>4 DEF PublishBegin
  <2>6. managed + (Size[m] + Bytes(F)) <= budget
    BY DEF PublishBegin, Admitted, Additional
  <2>7. Bytes(todo' \ OnTmp') = Bytes(F)
    BY <2>5, BytesSame
  <2>8. Bytes(F) \in Nat /\ Size[m] \in Nat /\ managed \in Nat /\ budget \in Nat
    BY <1>1, <2>1, <2>2, BytesNat, SizeNat DEF Fields
  <2>9. managed' = managed /\ budget' = budget /\ subject' = m /\ pc' = "payload"
    BY DEF PublishBegin
  <2>. HIDE DEF F
  <2>10. managed' + Size[subject'] + Bytes(todo' \ OnTmp') <= budget'
    BY <2>6, <2>7, <2>8, <2>9
  <2>. QED
    BY <2>9, <2>10 DEF Room
<1>. QED
  BY <1>3, <1>4, <1>5, <1>6, <1>7, <1>8 DEF Space

\* An empty payload file.
LEMMA SpacePayloadCreate ==
  ASSUME CrashSafe, Space, NEW p \in Payload, PayloadCreate(p)
  PROVE  Space'
<1>1. Files /\ Temps /\ Fields /\ Count /\ Removals /\ Renames /\ Room /\ Control
  BY DEF CrashSafe, Space
<1>2. UNCHANGED <<managed, budget, up, recovery, subject, todo, idx>> /\ p \in Name
  BY <1>1 DEF PayloadCreate, elsewhere, Name, Control, Publishing
<1>3. /\ Temps' /\ UNCHANGED <<home, mayHome>>
      /\ OnTmp' = OnTmp /\ MaybeTmp' = MaybeTmp /\ Loose' = Loose
  BY <1>1, <1>2, CreateSets DEF PayloadCreate
<1>4. Held' = Held /\ Maybe' = Maybe
  BY <1>1, <1>3, SameHome
<1>5. Fields'
  BY <1>1, <1>2 DEF Fields, idx
<1>6. Count'
  BY <1>1, <1>2, <1>3, <1>4, CountSame
<1>7. Removals'
  BY <1>1, <1>2, <1>3, <1>4 DEF PayloadCreate, Removals, Retiring, Reclaiming
<1>8. Renames'
  BY <1>1, <1>2, <1>3, <1>4 DEF PayloadCreate, Renames, idx
<1>9. Room'
  BY <1>1, <1>2, <1>3 DEF PayloadCreate, Room
<1>. QED
  BY <1>3, <1>5, <1>6, <1>7, <1>8, <1>9 DEF Space

\* fsync of a payload file.
LEMMA SpacePayloadSync ==
  ASSUME CrashSafe, Space, NEW p \in Payload, PayloadSync(p)
  PROVE  Space'
<1>1. Files /\ Temps /\ Fields /\ Count /\ Removals /\ Renames /\ Room /\ Control
  BY DEF CrashSafe, Space
<1>2. UNCHANGED <<managed, budget, up, recovery, subject, todo, idx>> /\ p \in Name
  BY <1>1 DEF PayloadSync, elsewhere, Name, Control, Publishing
<1>3. /\ Temps' /\ UNCHANGED <<home, mayHome>>
      /\ OnTmp' = OnTmp /\ MaybeTmp' = MaybeTmp /\ Loose' = Loose
  BY <1>1, <1>2, FsyncSets DEF PayloadSync
<1>4. Held' = Held /\ Maybe' = Maybe
  BY <1>1, <1>3, SameHome
<1>5. Fields'
  BY <1>1, <1>2 DEF Fields, idx
<1>6. Count'
  BY <1>1, <1>2, <1>3, <1>4, CountSame
<1>7. Removals'
  BY <1>1, <1>2, <1>3, <1>4 DEF PayloadSync, Removals, Retiring, Reclaiming
<1>8. Renames'
  BY <1>1, <1>2, <1>3, <1>4 DEF PayloadSync, Renames, idx
<1>9. Room'
  BY <1>1, <1>2, <1>3 DEF PayloadSync, Room
<1>. QED
  BY <1>3, <1>5, <1>6, <1>7, <1>8, <1>9 DEF Space

\* An empty manifest file.
LEMMA SpaceManifestCreate ==
  ASSUME CrashSafe, Space, ManifestCreate
  PROVE  Space'
<1>1. Files /\ Temps /\ Fields /\ Count /\ Removals /\ Renames /\ Room /\ Control
  BY DEF CrashSafe, Space
<1>2. UNCHANGED <<managed, budget, up, recovery, subject, todo, idx>> /\ subject \in Name
  BY <1>1 DEF ManifestCreate, elsewhere, Name, Control, Publishing
<1>3. /\ Temps' /\ UNCHANGED <<home, mayHome>>
      /\ OnTmp' = OnTmp /\ MaybeTmp' = MaybeTmp /\ Loose' = Loose
  BY <1>1, <1>2, CreateSets DEF ManifestCreate
<1>4. Held' = Held /\ Maybe' = Maybe
  BY <1>1, <1>3, SameHome
<1>5. Fields'
  BY <1>1, <1>2 DEF Fields, idx
<1>6. Count'
  BY <1>1, <1>2, <1>3, <1>4, CountSame
<1>7. Removals'
  BY <1>1, <1>2, <1>3, <1>4 DEF ManifestCreate, Removals, Retiring, Reclaiming
<1>8. Renames'
  BY <1>1, <1>2, <1>3, <1>4 DEF ManifestCreate, Renames, idx
<1>9. Room'
  BY <1>1, <1>2, <1>3 DEF ManifestCreate, Room
<1>. QED
  BY <1>3, <1>5, <1>6, <1>7, <1>8, <1>9 DEF Space

\* fsync of the manifest file.
LEMMA SpaceManifestSync ==
  ASSUME CrashSafe, Space, ManifestSync
  PROVE  Space'
<1>1. Files /\ Temps /\ Fields /\ Count /\ Removals /\ Renames /\ Room /\ Control
  BY DEF CrashSafe, Space
<1>2. UNCHANGED <<managed, budget, up, recovery, subject, todo, idx>> /\ subject \in Name
  BY <1>1 DEF ManifestSync, elsewhere, Name, Control, Publishing
<1>3. /\ Temps' /\ UNCHANGED <<home, mayHome>>
      /\ OnTmp' = OnTmp /\ MaybeTmp' = MaybeTmp /\ Loose' = Loose
  BY <1>1, <1>2, FsyncSets DEF ManifestSync
<1>4. Held' = Held /\ Maybe' = Maybe
  BY <1>1, <1>3, SameHome
<1>5. Fields'
  BY <1>1, <1>2 DEF Fields, idx
<1>6. Count'
  BY <1>1, <1>2, <1>3, <1>4, CountSame
<1>7. Removals'
  BY <1>1, <1>2, <1>3, <1>4 DEF ManifestSync, Removals, Retiring, Reclaiming
<1>8. Renames'
  BY <1>1, <1>2, <1>3, <1>4 DEF ManifestSync, Renames, idx
<1>9. Room'
  BY <1>1, <1>2, <1>3 DEF ManifestSync, Room
<1>. QED
  BY <1>3, <1>5, <1>6, <1>7, <1>8, <1>9 DEF Space

\* A payload file is written: it was counted in what was still to be written.
LEMMA SpacePayloadWrite ==
  ASSUME CrashSafe, Space, NEW p \in Payload, PayloadWrite(p)
  PROVE  Space'
<1>1. Files /\ Temps /\ Fields /\ Count /\ Removals /\ Renames /\ Room /\ Control
  BY DEF CrashSafe, Space
<1>2. /\ UNCHANGED <<budget, up, recovery, subject, todo, idx>> /\ p \in Name
      /\ managed' = managed + Size[p] /\ Size[p] \in Nat
      /\ managed \in Nat /\ budget \in Nat
  BY <1>1, SizeNat DEF PayloadWrite, elsewhere, Name, Control, Publishing, Fields
<1>3. /\ Temps' /\ UNCHANGED <<home, mayHome>> /\ p \notin OnTmp
      /\ OnTmp' = OnTmp \cup {p} /\ MaybeTmp' = MaybeTmp \cup {p}
      /\ Loose' = Loose \ {p}
  BY <1>1, <1>2, WriteSets DEF PayloadWrite
<1>4. Held' = Held /\ Maybe' = Maybe
  BY <1>1, <1>3, SameHome
<1>5. Fields'
  BY <1>1, <1>2 DEF Fields, idx
<1>6. Count'
  <2>1. OnTmp \in SUBSET Name /\ Held \in SUBSET Name
    BY <1>1, TempsNested
  <2>2. Bytes(OnTmp \cup {p}) = Bytes(OnTmp) + Size[p]
    BY <1>2, <1>3, <2>1, BytesAdd
  <2>3. Bytes(OnTmp') = Bytes(OnTmp) + Size[p]
    BY <1>3, <2>2, Zenon
  <2>4. Bytes(Held') = Bytes(Held)
    BY <1>4, Zenon
  <2>5. Bytes(OnTmp) \in Nat /\ Bytes(Held) \in Nat
    BY <2>1, BytesNat
  <2>. QED
    BY <1>1, <1>2, <2>3, <2>4, <2>5 DEF Count
<1>7. Removals'
  BY <1>1, <1>2, <1>3, <1>4 DEF PayloadWrite, Removals, Retiring, Reclaiming
<1>8. Renames'
  BY <1>1, <1>2, <1>3, <1>4 DEF PayloadWrite, Renames, idx
<1>9. Room'
  <2>1. p \in todo \ OnTmp /\ todo \ OnTmp \in SUBSET Name
    BY <1>1, <1>3 DEF PayloadWrite, Control, Name
  <2>2. Bytes((todo \ OnTmp) \ {p}) = Bytes(todo \ OnTmp) - Size[p]
    BY <2>1, BytesRemove
  <2>3. Bytes((todo \ OnTmp) \ {p}) = Bytes(todo' \ OnTmp')
    <3>1. \A z : z \in (todo \ OnTmp) \ {p} <=> z \in todo' \ OnTmp'
      BY <1>2, <1>3
    <3>. QED
      BY <3>1, BytesSame
  <2>4. managed + Size[subject] + Bytes(todo \ OnTmp) <= budget
    BY <1>1 DEF PayloadWrite, Room
  <2>5. Bytes(todo \ OnTmp) \in Nat /\ Size[subject] \in Nat
    BY <1>1, <2>1, BytesNat, SizeNat DEF PayloadWrite, Control, Publishing, Name
  <2>6. managed' + Size[subject'] + Bytes(todo' \ OnTmp') <= budget'
    BY <1>2, <2>2, <2>3, <2>4, <2>5
  <2>. QED
    BY <2>6 DEF Room, PayloadWrite
<1>. QED
  BY <1>3, <1>5, <1>6, <1>7, <1>8, <1>9 DEF Space

\* The manifest file is written: its length was set aside.
LEMMA SpaceManifestWrite ==
  ASSUME CrashSafe, Space, ManifestWrite
  PROVE  Space'
<1>1. Files /\ Temps /\ Fields /\ Count /\ Removals /\ Renames /\ Room /\ Control
  BY DEF CrashSafe, Space
<1>2. /\ UNCHANGED <<budget, up, recovery, subject, todo, idx>> /\ subject \in Name
      /\ managed' = managed + Size[subject] /\ Size[subject] \in Nat
      /\ managed \in Nat /\ budget \in Nat
  BY <1>1, SizeNat DEF ManifestWrite, elsewhere, Name, Control, Publishing, Fields
<1>3. /\ Temps' /\ UNCHANGED <<home, mayHome>> /\ subject \notin OnTmp
      /\ OnTmp' = OnTmp \cup {subject} /\ MaybeTmp' = MaybeTmp \cup {subject}
      /\ Loose' = Loose \ {subject}
  BY <1>1, <1>2, WriteSets DEF ManifestWrite
<1>4. Held' = Held /\ Maybe' = Maybe
  BY <1>1, <1>3, SameHome
<1>5. Fields'
  BY <1>1, <1>2 DEF Fields, idx
<1>6. Count'
  <2>1. OnTmp \in SUBSET Name /\ Held \in SUBSET Name
    BY <1>1, TempsNested
  <2>2. Bytes(OnTmp \cup {subject}) = Bytes(OnTmp) + Size[subject]
    BY <1>2, <1>3, <2>1, BytesAdd
  <2>3. Bytes(OnTmp') = Bytes(OnTmp) + Size[subject]
    BY <1>3, <2>2, Zenon
  <2>4. Bytes(Held') = Bytes(Held)
    BY <1>4, Zenon
  <2>5. Bytes(OnTmp) \in Nat /\ Bytes(Held) \in Nat
    BY <2>1, BytesNat
  <2>. QED
    BY <1>1, <1>2, <2>3, <2>4, <2>5 DEF Count
<1>7. Removals'
  BY <1>1, <1>2, <1>3, <1>4 DEF ManifestWrite, Removals, Retiring, Reclaiming
<1>8. Renames'
  BY <1>1, <1>2, <1>3, <1>4 DEF ManifestWrite, Renames, idx
<1>9. Room'
  BY DEF ManifestWrite, Room
<1>. QED
  BY <1>3, <1>5, <1>6, <1>7, <1>8, <1>9 DEF Space

\* A payload file moves to its home; no entry can refer to it.
LEMMA SpacePayloadRename ==
  ASSUME CrashSafe, Space, NEW p \in Payload, PayloadRename(p)
  PROVE  Space'
<1>1. Files /\ Temps /\ Fields /\ Count /\ Removals /\ Renames /\ Room /\ Control
  BY DEF CrashSafe, Space
<1>2. /\ UNCHANGED <<managed, budget, up, recovery, subject, idx>> /\ p \in Name
      /\ tmp[p] = "whole" /\ Size[p] \in Nat
  BY <1>1, SizeNat DEF PayloadRename, elsewhere, Name, Control, Publishing, Publication, CrashSafe
<1>3. Held' = Held \cup {p} /\ Maybe' = Maybe \cup {p} /\ p \notin Held
  BY <1>1, <1>2, RenameSets DEF PayloadRename
<1>4. /\ Temps' /\ p \in OnTmp /\ p \in MaybeTmp
      /\ OnTmp' = OnTmp \ {p} /\ MaybeTmp' = MaybeTmp /\ Loose' = Loose \cup {p}
  BY <1>1, <1>2, RenameTemps DEF PayloadRename
<1>5. Fields'
  BY <1>1, <1>2 DEF Fields, idx
<1>6. OnTmp \in SUBSET Name /\ Held \in SUBSET Name
  BY <1>1, TempsNested
<1>7. Count'
  <2>1. Bytes(OnTmp \ {p}) = Bytes(OnTmp) - Size[p]
    BY <1>4, <1>6, BytesRemove
  <2>2. Bytes(Held \cup {p}) = Bytes(Held) + Size[p]
    BY <1>2, <1>3, <1>6, BytesAdd
  <2>3. Bytes(OnTmp') = Bytes(OnTmp) - Size[p]
    BY <1>4, <2>1, Zenon
  <2>4. Bytes(Held') = Bytes(Held) + Size[p]
    BY <1>3, <2>2, Zenon
  <2>5. Bytes(OnTmp) \in Nat /\ Bytes(Held) \in Nat
    BY <1>6, BytesNat
  <2>. QED
    BY <1>1, <1>2, <2>3, <2>4, <2>5 DEF Count, Fields
<1>8. Removals'
  BY <1>1, <1>2, <1>3 DEF PayloadRename, Removals, Retiring, Reclaiming
<1>9. Renames'
  <2>1. \A m \in durable : m \in Manifest /\ Deps[m] \subseteq Sure /\ m # p
    BY <1>1, DiskAssumption DEF CrashSafe, Control, Promised, Publishing, PayloadRename
  <2>2. p \notin Sure
    BY <1>1, <1>3, Nested
  <2>. QED
    BY <1>1, <1>2, <1>3, <1>4, <2>1, <2>2 DEF PayloadRename, Renames, idx
<1>10. Room'
  <2>1. \A z : z \in todo \ OnTmp <=> z \in todo' \ OnTmp'
    BY <1>3, <1>4 DEF PayloadRename
  <2>2. Bytes(todo \ OnTmp) = Bytes(todo' \ OnTmp')
    BY <2>1, BytesSame
  <2>. QED
    BY <1>1, <1>2, <2>2 DEF PayloadRename, Room
<1>. QED
  BY <1>4, <1>5, <1>7, <1>8, <1>9, <1>10 DEF Space

\* The manifest moves to its home; it is no entry yet.
LEMMA SpaceManifestRename ==
  ASSUME CrashSafe, Space, ManifestRename
  PROVE  Space'
<1>1. Files /\ Temps /\ Fields /\ Count /\ Removals /\ Renames /\ Room /\ Control
  BY DEF CrashSafe, Space
<1>2. /\ UNCHANGED <<managed, budget, up, recovery, subject, idx>> /\ subject \in Name
      /\ tmp[subject] = "whole" /\ Size[subject] \in Nat
  BY <1>1, SizeNat DEF ManifestRename, elsewhere, Name, Control, Publishing, Publication, CrashSafe
<1>3. Held' = Held \cup {subject} /\ Maybe' = Maybe \cup {subject} /\ subject \notin Held
  BY <1>1, <1>2, RenameSets DEF ManifestRename
<1>4. /\ Temps' /\ subject \in OnTmp /\ subject \in MaybeTmp
      /\ OnTmp' = OnTmp \ {subject} /\ MaybeTmp' = MaybeTmp /\ Loose' = Loose \cup {subject}
  BY <1>1, <1>2, RenameTemps DEF ManifestRename
<1>5. Fields'
  BY <1>1, <1>2 DEF Fields, idx
<1>6. OnTmp \in SUBSET Name /\ Held \in SUBSET Name
  BY <1>1, TempsNested
<1>7. Count'
  <2>1. Bytes(OnTmp \ {subject}) = Bytes(OnTmp) - Size[subject]
    BY <1>4, <1>6, BytesRemove
  <2>2. Bytes(Held \cup {subject}) = Bytes(Held) + Size[subject]
    BY <1>2, <1>3, <1>6, BytesAdd
  <2>3. Bytes(OnTmp') = Bytes(OnTmp) - Size[subject]
    BY <1>4, <2>1, Zenon
  <2>4. Bytes(Held') = Bytes(Held) + Size[subject]
    BY <1>3, <2>2, Zenon
  <2>5. Bytes(OnTmp) \in Nat /\ Bytes(Held) \in Nat
    BY <1>6, BytesNat
  <2>. QED
    BY <1>1, <1>2, <2>3, <2>4, <2>5 DEF Count, Fields
<1>8. Removals'
  BY <1>1, <1>2, <1>3 DEF ManifestRename, Removals, Retiring, Reclaiming
<1>9. Renames'
  <2>1. \A m \in durable : Deps[m] \subseteq Payload /\ m # subject
    BY <1>1, DiskAssumption DEF Control, Publishing, ManifestRename
  <2>2. subject \in Manifest
    BY <1>1 DEF Control, Publishing, ManifestRename
  <2>. QED
    BY <1>1, <1>2, <1>3, <1>4, <2>1, <2>2, DiskAssumption DEF ManifestRename, Renames, idx
<1>10. Room'
  BY DEF ManifestRename, Room
<1>. QED
  BY <1>4, <1>5, <1>7, <1>8, <1>9, <1>10 DEF Space

\* tmp/ is synced: nothing is loose.
LEMMA SpacePublishSyncTemporary ==
  ASSUME CrashSafe, Space, PublishSyncTemporary
  PROVE  Space'
<1>1. Files /\ Temps /\ Fields /\ Count /\ Removals /\ Renames /\ Room /\ Control
  BY DEF CrashSafe, Space
<1>2. UNCHANGED <<managed, budget, up, recovery, subject, todo, idx>>
  BY DEF PublishSyncTemporary, elsewhere
<1>3. /\ Temps' /\ UNCHANGED <<home, mayHome>>
      /\ OnTmp' = OnTmp /\ MaybeTmp' = OnTmp /\ Loose' = {}
  BY <1>1, SyncTemps DEF PublishSyncTemporary
<1>4. Held' = Held /\ Maybe' = Maybe
  BY <1>1, <1>3, SameHome
<1>5. Fields' /\ Count'
  BY <1>1, <1>2, <1>3, <1>4, CountSame DEF Fields, idx
<1>6. Removals'
  BY <1>1, <1>2, <1>4 DEF PublishSyncTemporary, Removals, Retiring, Reclaiming
<1>7. Renames'
  BY <1>1, <1>2, <1>3, <1>4 DEF PublishSyncTemporary, Renames, idx
<1>8. Room'
  <2>1. CASE pc = "payload" /\ todo = {}
    <3>1. Bytes(todo \ OnTmp) = 0
      <4>1. \A z : z \in todo \ OnTmp <=> z \in {}
        BY <2>1
      <4>. QED
        BY <4>1, BytesSame, BytesEmpty
    <3>2. subject \in Name /\ managed \in Nat
      BY <1>1, <2>1 DEF Control, Publishing, Name, Fields
    <3>3. managed + Size[subject] + 0 <= budget
      BY <1>1, <2>1, <3>1 DEF Room
    <3>4. managed + Size[subject] <= budget
      BY <3>2, <3>3, SizeNat
    <3>. QED
      BY <1>2, <3>4 DEF PublishSyncTemporary, Room
  <2>. QED
    BY <2>1 DEF PublishSyncTemporary
<1>. QED
  BY <1>3, <1>5, <1>6, <1>7, <1>8 DEF Space

\* tmp/ is synced again: the manifest is not loose either.
LEMMA SpacePublishSyncRenames ==
  ASSUME CrashSafe, Space, PublishSyncRenames
  PROVE  Space'
<1>1. Files /\ Temps /\ Fields /\ Count /\ Removals /\ Renames /\ Room /\ Control
  BY DEF CrashSafe, Space
<1>2. UNCHANGED <<managed, budget, up, recovery, subject, todo, idx>>
  BY DEF PublishSyncRenames, elsewhere
<1>3. /\ Temps' /\ UNCHANGED <<home, mayHome>>
      /\ OnTmp' = OnTmp /\ MaybeTmp' = OnTmp /\ Loose' = {}
  BY <1>1, SyncTemps DEF PublishSyncRenames
<1>4. Held' = Held /\ Maybe' = Maybe
  BY <1>1, <1>3, SameHome
<1>5. Fields' /\ Count'
  BY <1>1, <1>2, <1>3, <1>4, CountSame DEF Fields, idx
<1>6. Removals'
  BY <1>1, <1>2, <1>4 DEF PublishSyncRenames, Removals, Retiring, Reclaiming
<1>7. Renames'
  BY <1>1, <1>2, <1>3, <1>4 DEF PublishSyncRenames, Renames, idx
<1>8. Room'
  BY DEF PublishSyncRenames, Room
<1>. QED
  BY <1>3, <1>5, <1>6, <1>7, <1>8 DEF Space

\* chunks/ is synced.
LEMMA SpacePublishSyncChunks ==
  ASSUME CrashSafe, Space, PublishSyncChunks
  PROVE  Space'
<1>1. Files /\ Temps /\ Fields /\ Count /\ Removals /\ Renames /\ Room /\ Control
  BY DEF CrashSafe, Space
<1>2. UNCHANGED <<managed, budget, up, recovery, subject, todo, idx>>
  BY DEF PublishSyncChunks, elsewhere
<1>3. /\ Held' = Held /\ UNCHANGED <<tmp, mayTmp>>
      /\ Maybe' = {n \in Name : IF DirOf(n) = "chunks" THEN n \in Held ELSE n \in Maybe}
  BY <1>1, SyncSets DEF PublishSyncChunks, SyncDirectory
<1>4. Temps' /\ OnTmp' = OnTmp /\ MaybeTmp' = MaybeTmp /\ Loose' = Loose
  BY <1>1, <1>3, SameTmp
<1>5. Fields' /\ Count'
  BY <1>1, <1>2, <1>3, <1>4, CountSame DEF Fields, idx, PublishSyncChunks
<1>6. Removals'
  <2>1. Held \subseteq Maybe /\ Maybe \subseteq Name
    BY <1>1, Nested
  <2>. QED
    BY <1>1, <1>2, <1>3, <2>1, DiskAssumption
       DEF PublishSyncChunks, Removals, Control, Retiring, Publishing, Reclaiming, DirOf, Name, After
<1>7. Renames'
  BY <1>1, <1>2, <1>3, <1>4 DEF PublishSyncChunks, Renames, idx, After
<1>8. Room'
  BY <1>1, <1>2, <1>4 DEF PublishSyncChunks, Room, After
<1>. QED
  BY <1>4, <1>5, <1>6, <1>7, <1>8 DEF Space

\* private/ is synced.
LEMMA SpacePublishSyncPrivate ==
  ASSUME CrashSafe, Space, PublishSyncPrivate
  PROVE  Space'
<1>1. Files /\ Temps /\ Fields /\ Count /\ Removals /\ Renames /\ Room /\ Control
  BY DEF CrashSafe, Space
<1>2. UNCHANGED <<managed, budget, up, recovery, subject, todo, idx>>
  BY DEF PublishSyncPrivate, elsewhere
<1>3. /\ Held' = Held /\ UNCHANGED <<tmp, mayTmp>>
      /\ Maybe' = {n \in Name : IF DirOf(n) = "private" THEN n \in Held ELSE n \in Maybe}
  BY <1>1, SyncSets DEF PublishSyncPrivate, SyncDirectory
<1>4. Temps' /\ OnTmp' = OnTmp /\ MaybeTmp' = MaybeTmp /\ Loose' = Loose
  BY <1>1, <1>3, SameTmp
<1>5. Fields' /\ Count'
  BY <1>1, <1>2, <1>3, <1>4, CountSame DEF Fields, idx, PublishSyncPrivate
<1>6. Removals'
  <2>1. Held \subseteq Maybe /\ Maybe \subseteq Name
    BY <1>1, Nested
  <2>. QED
    BY <1>1, <1>2, <1>3, <2>1, DiskAssumption
       DEF PublishSyncPrivate, Removals, Control, Retiring, Publishing, Reclaiming, DirOf, Name, After
<1>7. Renames'
  BY <1>1, <1>2, <1>3, <1>4 DEF PublishSyncPrivate, Renames, idx, After
<1>8. Room'
  BY <1>1, <1>2, <1>4 DEF PublishSyncPrivate, Room, After
<1>. QED
  BY <1>4, <1>5, <1>6, <1>7, <1>8 DEF Space

\* manifests/ is synced.
LEMMA SpacePublishSyncManifests ==
  ASSUME CrashSafe, Space, PublishSyncManifests
  PROVE  Space'
<1>1. Files /\ Temps /\ Fields /\ Count /\ Removals /\ Renames /\ Room /\ Control
  BY DEF CrashSafe, Space
<1>2. UNCHANGED <<managed, budget, up, recovery, subject, todo, idx>>
  BY DEF PublishSyncManifests, elsewhere
<1>3. /\ Held' = Held /\ UNCHANGED <<tmp, mayTmp>>
      /\ Maybe' = {n \in Name : IF DirOf(n) = "manifests" THEN n \in Held ELSE n \in Maybe}
  BY <1>1, SyncSets DEF PublishSyncManifests, SyncDirectory
<1>4. Temps' /\ OnTmp' = OnTmp /\ MaybeTmp' = MaybeTmp /\ Loose' = Loose
  BY <1>1, <1>3, SameTmp
<1>5. Fields' /\ Count'
  BY <1>1, <1>2, <1>3, <1>4, CountSame DEF Fields, idx, PublishSyncManifests
<1>6. Removals'
  <2>1. Held \subseteq Maybe /\ Maybe \subseteq Name
    BY <1>1, Nested
  <2>. QED
    BY <1>1, <1>2, <1>3, <2>1, DiskAssumption
       DEF PublishSyncManifests, Removals, Control, Retiring, Publishing, Reclaiming, DirOf, Name, After
<1>7. Renames'
  BY <1>1, <1>2, <1>3, <1>4 DEF PublishSyncManifests, Renames, idx, After
<1>8. Room'
  BY <1>1, <1>2, <1>4 DEF PublishSyncManifests, Room, After
<1>. QED
  BY <1>4, <1>5, <1>6, <1>7, <1>8 DEF Space

\* The removal of the manifest is synced; its payloads are next.
LEMMA SpaceRetireSync ==
  ASSUME CrashSafe, Space, RetireSync
  PROVE  Space'
<1>1. Files /\ Temps /\ Fields /\ Count /\ Removals /\ Renames /\ Room /\ Control
  BY DEF CrashSafe, Space
<1>2. UNCHANGED <<managed, budget, up, recovery, subject, idx>>
  BY DEF RetireSync, elsewhere
<1>3. /\ Held' = Held /\ UNCHANGED <<tmp, mayTmp>>
      /\ Maybe' = {n \in Name : IF DirOf(n) = "manifests" THEN n \in Held ELSE n \in Maybe}
  BY <1>1, SyncSets DEF RetireSync, SyncDirectory
<1>4. Temps' /\ OnTmp' = OnTmp /\ MaybeTmp' = MaybeTmp /\ Loose' = Loose
  BY <1>1, <1>3, SameTmp
<1>5. Fields' /\ Count'
  BY <1>1, <1>2, <1>3, <1>4, CountSame DEF Fields, idx, RetireSync
<1>6. Removals'
  <2>1. Held \subseteq Maybe /\ Maybe \subseteq Name
    BY <1>1, Nested
  <2>. QED
    BY <1>1, <1>2, <1>3, <2>1, DiskAssumption
       DEF RetireSync, Removals, Control, Retiring, Publishing, Reclaiming, DirOf, Name, After
<1>7. Renames'
  BY <1>1, <1>2, <1>3, <1>4 DEF RetireSync, Renames, idx, After
<1>8. Room'
  BY <1>1, <1>2, <1>4 DEF RetireSync, Room, After
<1>. QED
  BY <1>4, <1>5, <1>6, <1>7, <1>8 DEF Space

\* The removals in chunks/ are synced.
LEMMA SpaceRetireSyncChunks ==
  ASSUME CrashSafe, Space, RetireSyncChunks
  PROVE  Space'
<1>1. Files /\ Temps /\ Fields /\ Count /\ Removals /\ Renames /\ Room /\ Control
  BY DEF CrashSafe, Space
<1>2. UNCHANGED <<managed, budget, up, recovery, subject, todo, idx>>
  BY DEF RetireSyncChunks, elsewhere
<1>3. /\ Held' = Held /\ UNCHANGED <<tmp, mayTmp>>
      /\ Maybe' = {n \in Name : IF DirOf(n) = "chunks" THEN n \in Held ELSE n \in Maybe}
  BY <1>1, SyncSets DEF RetireSyncChunks, SyncDirectory
<1>4. Temps' /\ OnTmp' = OnTmp /\ MaybeTmp' = MaybeTmp /\ Loose' = Loose
  BY <1>1, <1>3, SameTmp
<1>5. Fields' /\ Count'
  BY <1>1, <1>2, <1>3, <1>4, CountSame DEF Fields, idx, RetireSyncChunks
<1>6. Removals'
  <2>1. Held \subseteq Maybe /\ Maybe \subseteq Name
    BY <1>1, Nested
  <2>. QED
    BY <1>1, <1>2, <1>3, <2>1, DiskAssumption
       DEF RetireSyncChunks, Removals, Control, Retiring, Publishing, Reclaiming, DirOf, Name, After
<1>7. Renames'
  BY <1>1, <1>2, <1>3, <1>4 DEF RetireSyncChunks, Renames, idx, After
<1>8. Room'
  BY <1>1, <1>2, <1>4 DEF RetireSyncChunks, Room, After
<1>. QED
  BY <1>4, <1>5, <1>6, <1>7, <1>8 DEF Space

\* The removals in private/ are synced: the retirement is over and none is left.
LEMMA SpaceRetireEnd ==
  ASSUME CrashSafe, Space, RetireEnd
  PROVE  Space'
<1>1. Files /\ Temps /\ Fields /\ Count /\ Removals /\ Renames /\ Room /\ Control
  BY DEF CrashSafe, Space
<1>2. UNCHANGED <<managed, budget, up, recovery, todo, idx>>
  BY DEF RetireEnd, elsewhere
<1>3. /\ Held' = Held /\ UNCHANGED <<tmp, mayTmp>>
      /\ Maybe' = {n \in Name : IF DirOf(n) = "private" THEN n \in Held ELSE n \in Maybe}
  BY <1>1, SyncSets DEF RetireEnd, SyncDirectory
<1>4. Temps' /\ OnTmp' = OnTmp /\ MaybeTmp' = MaybeTmp /\ Loose' = Loose
  BY <1>1, <1>3, SameTmp
<1>5. Fields' /\ Count'
  BY <1>1, <1>2, <1>3, <1>4, CountSame DEF Fields, idx, RetireEnd
<1>6. Removals'
  <2>1. Held \subseteq Maybe /\ Maybe \subseteq Name
    BY <1>1, Nested
  <2>. QED
    BY <1>1, <1>2, <1>3, <2>1, DiskAssumption
       DEF RetireEnd, Removals, Control, Retiring, Publishing, Reclaiming, DirOf, Name, After
<1>7. Renames'
  BY <1>1, <1>2, <1>3, <1>4 DEF RetireEnd, Renames, idx, After
<1>8. Room'
  BY <1>1, <1>2, <1>4 DEF RetireEnd, Room, After
<1>. QED
  BY <1>4, <1>5, <1>6, <1>7, <1>8 DEF Space

\* The directory in hand is synced; reclamation goes on to the next.
LEMMA SpaceReclaimSync ==
  ASSUME CrashSafe, Space, ReclaimSync
  PROVE  Space'
<1>1. Files /\ Temps /\ Fields /\ Count /\ Removals /\ Renames /\ Room /\ Control
  BY DEF CrashSafe, Space
<1>2. UNCHANGED <<managed, budget, up, recovery, subject, todo, idx>>
  BY DEF ReclaimSync, elsewhere
<1>3. /\ Held' = Held /\ UNCHANGED <<tmp, mayTmp>>
      /\ Maybe' = {n \in Name : IF DirOf(n) = pc THEN n \in Held ELSE n \in Maybe}
  BY <1>1, SyncSets DEF ReclaimSync, SyncDirectory
<1>4. Temps' /\ OnTmp' = OnTmp /\ MaybeTmp' = MaybeTmp /\ Loose' = Loose
  BY <1>1, <1>3, SameTmp
<1>5. Fields' /\ Count'
  BY <1>1, <1>2, <1>3, <1>4, CountSame DEF Fields, idx, ReclaimSync
<1>6. Removals'
  <2>1. Held \subseteq Maybe /\ Maybe \subseteq Name
    BY <1>1, Nested
  <2>. QED
    BY <1>1, <1>2, <1>3, <2>1, DiskAssumption
       DEF ReclaimSync, Removals, Control, Retiring, Publishing, Reclaiming, DirOf, Name, After
<1>7. Renames'
  BY <1>1, <1>2, <1>3, <1>4 DEF ReclaimSync, Renames, idx, After
<1>8. Room'
  BY <1>1, <1>2, <1>4 DEF ReclaimSync, Room, After
<1>. QED
  BY <1>4, <1>5, <1>6, <1>7, <1>8 DEF Space

\* The manifest of a retirement is removed.
LEMMA SpaceRetireUnlink ==
  ASSUME CrashSafe, Space, RetireUnlink
  PROVE  Space'
<1>1. Files /\ Temps /\ Fields /\ Count /\ Removals /\ Renames /\ Room /\ Control
  BY DEF CrashSafe, Space
<1>2. /\ UNCHANGED <<budget, up, recovery, subject, todo, idx>> /\ subject \in Name
      /\ managed' = managed - Credit(subject)
  BY <1>1 DEF RetireUnlink, elsewhere, Control, Retiring, Name
<1>3. /\ Held' = Held \ {subject} /\ Maybe' = Maybe /\ UNCHANGED <<tmp, mayTmp>>
  BY <1>1, <1>2, UnlinkSets DEF RetireUnlink, Unlink
<1>4. Temps' /\ OnTmp' = OnTmp /\ MaybeTmp' = MaybeTmp /\ Loose' = Loose
  BY <1>1, <1>3, SameTmp
<1>5. Credit(subject) = (IF subject \in Held THEN Size[subject] ELSE 0)
  BY <1>1, <1>2 DEF Credit, Held, Files, Sized
<1>6. up /\ managed' \in Nat /\ Count'
  <2>1. OnTmp \in SUBSET Name /\ Held \in SUBSET Name
    BY <1>1, TempsNested
  <2>2. Bytes(OnTmp) \in Nat /\ Bytes(Held) \in Nat /\ Bytes(Held \ {subject}) \in Nat
        /\ Size[subject] \in Nat /\ managed \in Nat
    BY <1>1, <1>2, <2>1, BytesNat, SizeNat DEF Fields
  <2>3. Bytes(Held \ {subject}) = Bytes(Held) - Credit(subject)
    <3>1. CASE subject \in Held
      BY <1>5, <2>1, <3>1, BytesRemove
    <3>2. CASE subject \notin Held
      <4>1. Bytes(Held \ {subject}) = Bytes(Held)
        <5>1. \A z : z \in Held \ {subject} <=> z \in Held
          BY <3>2
        <5>. QED
          BY <5>1, BytesSame
      <4>. QED
        BY <1>5, <2>2, <3>2, <4>1
    <3>. QED
      BY <3>1, <3>2
  <2>4. Bytes(Held') = Bytes(Held) - Credit(subject)
    BY <1>3, <2>3, Zenon
  <2>5. Bytes(OnTmp') = Bytes(OnTmp)
    BY <1>4, Zenon
  <2>6. up
    BY <1>1 DEF RetireUnlink, Control
  <2>7. Credit(subject) \in Nat /\ Credit(subject) <= Bytes(Held)
    BY <1>5, <2>2, <2>3
  <2>8. managed >= Bytes(Held) + Bytes(OnTmp)
    BY <1>1, <2>6 DEF Count
  <2>. QED
    BY <1>1, <1>2, <2>2, <2>4, <2>5, <2>6, <2>7, <2>8 DEF Count
<1>7. Fields'
  BY <1>1, <1>2, <1>6 DEF Fields, idx
<1>8. Removals'
  BY <1>1, <1>2, <1>3, DiskAssumption
     DEF RetireUnlink, Removals, Control, Retiring, Reclaiming, Publishing, OrphansIn, DirOf, Name
<1>9. Renames'
  BY <1>1, <1>2, <1>3, <1>4
     DEF RetireUnlink, Renames, idx, Control, Retiring, Reclaiming, Publishing, Removals
<1>10. Room'
  BY <1>1 DEF RetireUnlink, Room, Control
<1>. QED
  BY <1>4, <1>6, <1>7, <1>8, <1>9, <1>10 DEF Space

\* A payload of a retirement is removed; it is not loose in tmp/.
LEMMA SpaceRetireRemove ==
  ASSUME CrashSafe, Space, NEW p \in Payload, RetireRemove(p)
  PROVE  Space'
<1>1. Files /\ Temps /\ Fields /\ Count /\ Removals /\ Renames /\ Room /\ Control
  BY DEF CrashSafe, Space
<1>2. /\ UNCHANGED <<budget, up, recovery, subject, idx>> /\ p \in Name
      /\ managed' = managed - Credit(p)
  BY <1>1 DEF RetireRemove, elsewhere, Control, Retiring, Name
<1>3. /\ Held' = Held \ {p} /\ Maybe' = Maybe /\ UNCHANGED <<tmp, mayTmp>>
  BY <1>1, <1>2, UnlinkSets DEF RetireRemove, Unlink
<1>4. Temps' /\ OnTmp' = OnTmp /\ MaybeTmp' = MaybeTmp /\ Loose' = Loose
  BY <1>1, <1>3, SameTmp
<1>5. Credit(p) = (IF p \in Held THEN Size[p] ELSE 0)
  BY <1>1, <1>2 DEF Credit, Held, Files, Sized
<1>6. up /\ managed' \in Nat /\ Count'
  <2>1. OnTmp \in SUBSET Name /\ Held \in SUBSET Name
    BY <1>1, TempsNested
  <2>2. Bytes(OnTmp) \in Nat /\ Bytes(Held) \in Nat /\ Bytes(Held \ {p}) \in Nat
        /\ Size[p] \in Nat /\ managed \in Nat
    BY <1>1, <1>2, <2>1, BytesNat, SizeNat DEF Fields
  <2>3. Bytes(Held \ {p}) = Bytes(Held) - Credit(p)
    <3>1. CASE p \in Held
      BY <1>5, <2>1, <3>1, BytesRemove
    <3>2. CASE p \notin Held
      <4>1. Bytes(Held \ {p}) = Bytes(Held)
        <5>1. \A z : z \in Held \ {p} <=> z \in Held
          BY <3>2
        <5>. QED
          BY <5>1, BytesSame
      <4>. QED
        BY <1>5, <2>2, <3>2, <4>1
    <3>. QED
      BY <3>1, <3>2
  <2>4. Bytes(Held') = Bytes(Held) - Credit(p)
    BY <1>3, <2>3, Zenon
  <2>5. Bytes(OnTmp') = Bytes(OnTmp)
    BY <1>4, Zenon
  <2>6. up
    BY <1>1 DEF RetireRemove, Control
  <2>7. Credit(p) \in Nat /\ Credit(p) <= Bytes(Held)
    BY <1>5, <2>2, <2>3
  <2>8. managed >= Bytes(Held) + Bytes(OnTmp)
    BY <1>1, <2>6 DEF Count
  <2>. QED
    BY <1>1, <1>2, <2>2, <2>4, <2>5, <2>6, <2>7, <2>8 DEF Count
<1>7. Fields'
  BY <1>1, <1>2, <1>6 DEF Fields, idx
<1>8. Removals'
  BY <1>1, <1>2, <1>3, DiskAssumption
     DEF RetireRemove, Removals, Control, Retiring, Reclaiming, Publishing, OrphansIn, DirOf, Name
<1>9. Renames'
  BY <1>1, <1>2, <1>3, <1>4
     DEF RetireRemove, Renames, idx, Control, Retiring, Reclaiming, Publishing, Removals
<1>10. Room'
  BY <1>1 DEF RetireRemove, Room, Control
<1>. QED
  BY <1>4, <1>6, <1>7, <1>8, <1>9, <1>10 DEF Space

\* An orphan is removed.
LEMMA SpaceReclaimRemove ==
  ASSUME CrashSafe, Space, NEW n \in Name, ReclaimRemove(n)
  PROVE  Space'
<1>1. Files /\ Temps /\ Fields /\ Count /\ Removals /\ Renames /\ Room /\ Control
  BY DEF CrashSafe, Space
<1>2. /\ UNCHANGED <<budget, up, recovery, subject, todo, idx>> /\ n \in Name
      /\ managed' = managed - Credit(n)
  BY <1>1 DEF ReclaimRemove, elsewhere, Control, Retiring, Name
<1>3. /\ Held' = Held \ {n} /\ Maybe' = Maybe /\ UNCHANGED <<tmp, mayTmp>>
  BY <1>1, <1>2, UnlinkSets DEF ReclaimRemove, Unlink
<1>4. Temps' /\ OnTmp' = OnTmp /\ MaybeTmp' = MaybeTmp /\ Loose' = Loose
  BY <1>1, <1>3, SameTmp
<1>5. Credit(n) = (IF n \in Held THEN Size[n] ELSE 0)
  BY <1>1, <1>2 DEF Credit, Held, Files, Sized
<1>6. up /\ managed' \in Nat /\ Count'
  <2>1. OnTmp \in SUBSET Name /\ Held \in SUBSET Name
    BY <1>1, TempsNested
  <2>2. Bytes(OnTmp) \in Nat /\ Bytes(Held) \in Nat /\ Bytes(Held \ {n}) \in Nat
        /\ Size[n] \in Nat /\ managed \in Nat
    BY <1>1, <1>2, <2>1, BytesNat, SizeNat DEF Fields
  <2>3. Bytes(Held \ {n}) = Bytes(Held) - Credit(n)
    <3>1. CASE n \in Held
      BY <1>5, <2>1, <3>1, BytesRemove
    <3>2. CASE n \notin Held
      <4>1. Bytes(Held \ {n}) = Bytes(Held)
        <5>1. \A z : z \in Held \ {n} <=> z \in Held
          BY <3>2
        <5>. QED
          BY <5>1, BytesSame
      <4>. QED
        BY <1>5, <2>2, <3>2, <4>1
    <3>. QED
      BY <3>1, <3>2
  <2>4. Bytes(Held') = Bytes(Held) - Credit(n)
    BY <1>3, <2>3, Zenon
  <2>5. Bytes(OnTmp') = Bytes(OnTmp)
    BY <1>4, Zenon
  <2>6. up
    BY <1>1 DEF ReclaimRemove, Control
  <2>7. Credit(n) \in Nat /\ Credit(n) <= Bytes(Held)
    BY <1>5, <2>2, <2>3
  <2>8. managed >= Bytes(Held) + Bytes(OnTmp)
    BY <1>1, <2>6 DEF Count
  <2>. QED
    BY <1>1, <1>2, <2>2, <2>4, <2>5, <2>6, <2>7, <2>8 DEF Count
<1>7. Fields'
  BY <1>1, <1>2, <1>6 DEF Fields, idx
<1>8. Removals'
  BY <1>1, <1>2, <1>3, DiskAssumption
     DEF ReclaimRemove, Removals, Control, Retiring, Reclaiming, Publishing, OrphansIn, DirOf, Name
<1>9. Renames'
  BY <1>1, <1>2, <1>3, <1>4
     DEF ReclaimRemove, Renames, idx, Control, Retiring, Reclaiming, Publishing, Removals
<1>10. Room'
  BY <1>1 DEF ReclaimRemove, Room, Control
<1>. QED
  BY <1>4, <1>6, <1>7, <1>8, <1>9, <1>10 DEF Space

\* Fewer files have no more bytes.
LEMMA BytesLess ==
  ASSUME NEW S \in SUBSET Name, NEW n
  PROVE  Bytes(S \ {n}) <= Bytes(S) /\ Bytes(S \ {n}) \in Nat
<1>1. S \ {n} \in SUBSET Name /\ {} \in SUBSET Name /\ S \ {n} \subseteq S \cup {}
  OBVIOUS
<1>2. Bytes(S \ {n}) <= Bytes(S) + Bytes({})
  BY <1>1, BytesCover
<1>. QED
  BY <1>1, <1>2, BytesEmpty, BytesNat

\* A retirement fails; a removal may have happened and was not counted.
LEMMA SpaceRetireThrow ==
  ASSUME CrashSafe, Space, RetireThrow
  PROVE  Space'
<1>1. Files /\ Temps /\ Fields /\ Count /\ Removals /\ Renames /\ Room /\ Control
  BY DEF CrashSafe, Space
<1>2. /\ UNCHANGED <<managed, budget, up, idx, tmp, mayTmp>> /\ recovery'
      /\ pc' = "idle" /\ subject' = None
  BY DEF RetireThrow, fs, Unlink
<1>3. Temps' /\ OnTmp' = OnTmp
  BY <1>1, <1>2, SameTmp
<1>4. OnTmp \in SUBSET Name /\ Held \in SUBSET Name
  BY <1>1, TempsNested
<1>5. Bytes(Held') <= Bytes(Held) /\ Bytes(Held') \in Nat
  <2>1. CASE UNCHANGED fs
    <3>1. Held' = Held
      BY <2>1 DEF fs, Held
    <3>2. Bytes(Held') = Bytes(Held)
      BY <3>1, Zenon
    <3>. QED
      BY <1>4, <3>2, BytesNat
  <2>2. ASSUME NEW n \in Name, Unlink(n)
        PROVE  Bytes(Held') <= Bytes(Held) /\ Bytes(Held') \in Nat
    <3>1. Held' = Held \ {n}
      BY <1>1, <2>2, UnlinkSets
    <3>2. Bytes(Held') = Bytes(Held \ {n})
      BY <3>1, Zenon
    <3>. QED
      BY <1>4, <3>2, BytesLess
  <2>. QED
    BY <1>1, <2>1, <2>2 DEF RetireThrow, Control, Retiring, Name
<1>6. Count'
  <2>1. Bytes(OnTmp') = Bytes(OnTmp)
    BY <1>3, Zenon
  <2>2. Bytes(Held) \in Nat /\ Bytes(OnTmp) \in Nat
    BY <1>4, BytesNat
  <2>. QED
    BY <1>1, <1>2, <1>5, <2>1, <2>2 DEF Count, Fields
<1>7. Fields'
  BY <1>1, <1>2 DEF Fields, idx
<1>8. Removals' /\ Renames' /\ Room'
  BY <1>2 DEF Removals, Renames, Room, Reclaiming
<1>. QED
  BY <1>3, <1>6, <1>7, <1>8 DEF Space

\* A reclamation fails in the same way; recovery stays due.
LEMMA SpaceReclaimThrow ==
  ASSUME CrashSafe, Space, ReclaimThrow
  PROVE  Space'
<1>1. Files /\ Temps /\ Fields /\ Count /\ Removals /\ Renames /\ Room /\ Control
  BY DEF CrashSafe, Space
<1>2. /\ UNCHANGED <<managed, budget, up, idx, subject>> /\ recovery' /\ recovery
      /\ pc' = "idle"
  BY <1>1 DEF ReclaimThrow, Removals
<1>3. OnTmp \in SUBSET Name /\ Held \in SUBSET Name
  BY <1>1, TempsNested
<1>4. Bytes(Held) \in Nat /\ Bytes(OnTmp) \in Nat
  BY <1>3, BytesNat
<1>5. /\ Temps'
      /\ Bytes(Held') <= Bytes(Held) /\ Bytes(Held') \in Nat
      /\ Bytes(OnTmp') <= Bytes(OnTmp) /\ Bytes(OnTmp') \in Nat
  <2>1. CASE UNCHANGED fs
    <3>1. Held' = Held /\ OnTmp' = OnTmp /\ Temps'
      BY <1>1, <2>1, SameTmp DEF fs, Held
    <3>2. Bytes(Held') = Bytes(Held) /\ Bytes(OnTmp') = Bytes(OnTmp)
      BY <3>1, Zenon
    <3>. QED
      BY <1>4, <3>1, <3>2
  <2>2. CASE \E n \in OrphansIn(pc) : Unlink(n)
    <3>1. PICK n \in Name : Unlink(n)
      BY <2>2 DEF OrphansIn
    <3>2. Held' = Held \ {n} /\ OnTmp' = OnTmp /\ Temps'
      BY <1>1, <3>1, UnlinkSets, SameTmp DEF Unlink
    <3>3. Bytes(Held') = Bytes(Held \ {n}) /\ Bytes(OnTmp') = Bytes(OnTmp)
      BY <3>2, Zenon
    <3>. QED
      BY <1>3, <1>4, <3>2, <3>3, BytesLess
  <2>3. CASE \E n \in Name : tmp[n] # "absent" /\ UnlinkTemporary(n)
    <3>1. PICK n \in Name : UnlinkTemporary(n)
      BY <2>3
    <3>2. OnTmp' = OnTmp \ {n} /\ Temps' /\ UNCHANGED <<home, mayHome>>
      BY <1>1, <3>1, UnlinkTemps
    <3>3. Held' = Held
      BY <1>1, <3>2, SameHome
    <3>4. Bytes(OnTmp') = Bytes(OnTmp \ {n}) /\ Bytes(Held') = Bytes(Held)
      BY <3>2, <3>3, Zenon
    <3>. QED
      BY <1>3, <1>4, <3>2, <3>4, BytesLess
  <2>. QED
    BY <2>1, <2>2, <2>3 DEF ReclaimThrow
<1>6. Count'
  BY <1>1, <1>2, <1>4, <1>5 DEF Count, Fields
<1>7. Fields'
  BY <1>1, <1>2 DEF Fields, idx
<1>8. Removals' /\ Renames' /\ Room'
  BY <1>2 DEF Removals, Renames, Room, Reclaiming
<1>. QED
  BY <1>5, <1>6, <1>7, <1>8 DEF Space

\* A temporary file is removed and no longer counted.
LEMMA SpaceReclaimTemporary ==
  ASSUME CrashSafe, Space, NEW n \in Name, ReclaimTemporary(n)
  PROVE  Space'
<1>1. Files /\ Temps /\ Fields /\ Count /\ Removals /\ Renames /\ Room /\ Control
  BY DEF CrashSafe, Space
<1>2. /\ UNCHANGED <<budget, up, recovery, subject, todo, idx, pc>> /\ pc = "tmp"
      /\ recovery /\ up
      /\ managed' = managed - (IF n \in OnTmp THEN Size[n] ELSE 0)
  BY <1>1 DEF ReclaimTemporary, elsewhere, Removals, Reclaiming, OnTmp, Control
<1>3. Temps' /\ OnTmp' = OnTmp \ {n} /\ UNCHANGED <<home, mayHome>>
  BY <1>1, UnlinkTemps DEF ReclaimTemporary
<1>4. Held' = Held /\ Maybe' = Maybe
  BY <1>1, <1>3, SameHome
<1>5. OnTmp \in SUBSET Name /\ Held \in SUBSET Name
  BY <1>1, TempsNested
<1>6. /\ Bytes(OnTmp) \in Nat /\ Bytes(Held) \in Nat /\ Size[n] \in Nat
      /\ Bytes(OnTmp \ {n}) \in Nat /\ managed \in Nat
  BY <1>1, <1>5, BytesNat, SizeNat, BytesLess DEF Fields
<1>7. Bytes(OnTmp \ {n}) = Bytes(OnTmp) - (IF n \in OnTmp THEN Size[n] ELSE 0)
  <2>1. CASE n \in OnTmp
    BY <1>5, <2>1, BytesRemove
  <2>2. CASE n \notin OnTmp
    <3>1. \A z : z \in OnTmp \ {n} <=> z \in OnTmp
      BY <2>2
    <3>2. Bytes(OnTmp \ {n}) = Bytes(OnTmp)
      BY <3>1, BytesSame
    <3>. QED
      BY <1>6, <2>2, <3>2
  <2>. QED
    BY <2>1, <2>2
<1>8. Bytes(OnTmp') = Bytes(OnTmp \ {n}) /\ Bytes(Held') = Bytes(Held)
  BY <1>3, <1>4, Zenon
<1>9. managed' \in Nat /\ Count'
  <2>1. managed >= Bytes(Held) + Bytes(OnTmp)
    BY <1>1, <1>2 DEF Count
  <2>. QED
    BY <1>2, <1>6, <1>7, <1>8, <2>1 DEF Count
<1>10. Fields'
  BY <1>1, <1>2, <1>9 DEF Fields, idx
<1>11. Removals' /\ Renames' /\ Room'
  BY <1>1, <1>2, <1>4 DEF Removals, Renames, Room
<1>. QED
  BY <1>3, <1>9, <1>10, <1>11 DEF Space

\* The reclamation ends: every directory and tmp/ are synced, the count is taken
\* afresh.
LEMMA SpaceReclaimEnd ==
  ASSUME CrashSafe, Space, ReclaimEnd
  PROVE  Space'
<1>1. Files /\ Temps /\ Fields /\ Count /\ Removals /\ Renames /\ Room /\ Control
  BY DEF CrashSafe, Space
<1>2. /\ UNCHANGED <<budget, up, subject, todo, idx>> /\ pc = "tmp" /\ pc' = "idle"
      /\ managed' = Scanned(home, tmp)
  BY DEF ReclaimEnd
<1>3. Temps' /\ UNCHANGED <<home, mayHome>> /\ OnTmp' = OnTmp /\ Loose' = {}
  BY <1>1, SyncTemps DEF ReclaimEnd
<1>4. Held' = Held /\ Maybe' = Maybe
  BY <1>1, <1>3, SameHome
<1>5. OnTmp \in SUBSET Name /\ Held \in SUBSET Name
  BY <1>1, TempsNested
<1>6. managed' = Bytes(Held) + Bytes(OnTmp)
  BY <1>1, <1>2, ScannedIs
<1>7. Bytes(OnTmp') = Bytes(OnTmp) /\ Bytes(Held') = Bytes(Held)
  BY <1>3, <1>4, Zenon
<1>8. Bytes(OnTmp) \in Nat /\ Bytes(Held) \in Nat
  BY <1>5, BytesNat
<1>9. managed' \in Nat /\ Count'
  BY <1>6, <1>7, <1>8 DEF Count
<1>10. Fields'
  BY <1>1, <1>2, <1>9 DEF Fields, idx
<1>11. Removals' /\ Renames' /\ Room'
  BY <1>1, <1>2, <1>3, <1>4 DEF Removals, Renames, Room, Reclaiming
<1>. QED
  BY <1>3, <1>9, <1>10, <1>11 DEF Space

\* A start counts what is there and syncs every directory.
LEMMA SpaceStartup ==
  ASSUME CrashSafe, Space, NEW b \in Budgets, Startup(b)
  PROVE  Space'
<1>1. Files /\ Temps /\ Fields /\ Count /\ Removals /\ Renames /\ Room /\ Control
  BY DEF CrashSafe, Space
<1>2. /\ UNCHANGED <<home, tmp, pc, subject, todo>> /\ ~up /\ pc = "idle"
      /\ managed' = Scanned(home, tmp) /\ budget' = b /\ quarantined' = {}
      /\ mayHome' = [n \in Name |-> {home[n]}] /\ mayTmp' = [n \in Name |-> {tmp[n]}]
  BY <1>1 DEF Startup, Control
<1>3. Temps' /\ OnTmp' = OnTmp
  BY <1>1, <1>2 DEF Files, Temps, OnTmp
<1>4. MaybeTmp' = OnTmp
  BY <1>2 DEF MaybeTmp, OnTmp
<1>5. Held' = Held /\ Maybe' = Held
  BY <1>1, <1>2 DEF Files, Held, Maybe
<1>6. Loose' = {}
  BY <1>3, <1>4 DEF Loose
<1>7. OnTmp \in SUBSET Name /\ Held \in SUBSET Name
  BY <1>1, TempsNested
<1>8. managed' = Bytes(Held) + Bytes(OnTmp)
  BY <1>1, <1>2, ScannedIs
<1>9. Bytes(OnTmp') = Bytes(OnTmp) /\ Bytes(Held') = Bytes(Held)
  BY <1>3, <1>5, Zenon
<1>10. Bytes(OnTmp) \in Nat /\ Bytes(Held) \in Nat
  BY <1>7, BytesNat
<1>11. managed' \in Nat /\ Count'
  BY <1>8, <1>9, <1>10 DEF Count
<1>12. Fields'
  BY <1>1, <1>2, <1>11, SizeAssumption DEF Fields
<1>13. Removals' /\ Renames' /\ Room'
  BY <1>2, <1>5, <1>6 DEF Removals, Renames, Room, Reclaiming
<1>. QED
  BY <1>3, <1>11, <1>12, <1>13 DEF Space

\* After a crash nothing is promised but that tmp/ holds what it may hold.
LEMMA SpaceCrash ==
  ASSUME CrashSafe, Space, Crash
  PROVE  Space'
<1>1. Files /\ Temps
  BY DEF CrashSafe, Space
<1>2. Temps'
  <2>1. CASE UNCHANGED fs
    BY <1>1, <2>1, SameTmp DEF fs
  <2>2. CASE PowerFailure
    BY <1>1, <2>2, PowerTemps
  <2>. QED
    BY <2>1, <2>2 DEF Crash
<1>. QED
  BY <1>2 DEF Crash, Space, Fields, Count, Removals, Renames, Room, Reclaiming

\* A payload is lost while the store is closed.
LEMMA SpaceLosePayload ==
  ASSUME CrashSafe, Space, NEW p \in Payload, LosePayload(p)
  PROVE  Space'
<1>1. /\ Temps /\ Fields /\ Control
      /\ UNCHANGED <<tmp, mayTmp, up, idx, managed, budget, pc, subject>>
      /\ ~up /\ pc = "idle"
  BY DEF CrashSafe, Space, LosePayload, Control
<1>2. Temps'
  BY <1>1, SameTmp
<1>. QED
  BY <1>1, <1>2
     DEF Space, Fields, Count, Removals, Renames, Room, Reclaiming, idx

\* A new directory is empty.
LEMMA SpaceInit == Init => Space
BY DEF Init, Space, Temps, Fields, Count, Removals, Renames, Room, Reclaiming, Content

\* Nothing happens.
LEMMA SpaceStutter ==
  ASSUME CrashSafe, Space, UNCHANGED vars
  PROVE  Space'
<1>1. Files /\ Temps /\ Fields /\ Count /\ Removals /\ Renames /\ Room
  BY DEF CrashSafe, Space
<1>2. /\ UNCHANGED <<home, mayHome, tmp, mayTmp, managed, budget, up, recovery, pc,
                     subject, todo, idx>>
  BY DEF vars, fs
<1>3. /\ Held' = Held /\ Maybe' = Maybe
      /\ Temps' /\ OnTmp' = OnTmp /\ MaybeTmp' = MaybeTmp /\ Loose' = Loose
  BY <1>1, <1>2, SameHome, SameTmp
<1>4. Count'
  BY <1>1, <1>2, <1>3, CountSame
<1>5. Fields' /\ Removals' /\ Renames'
  BY <1>1, <1>2, <1>3 DEF Fields, Removals, Renames, idx
<1>6. Room'
  BY <1>1, <1>2, <1>3 DEF Room
<1>. QED
  BY <1>3, <1>4, <1>5, <1>6 DEF Space

\* Every step keeps the count, the removals, the renames and the room.
LEMMA SpaceNext ==
  ASSUME CrashSafe, Space, [Next]_vars
  PROVE  Space'
BY SpacePin, SpaceUnpin, SpaceQuarantine, SpaceInvalidate, SpacePublishBegin,
   SpacePayloadCreate, SpacePayloadWrite, SpacePayloadSync, SpacePayloadRename,
   SpacePublishSyncTemporary, SpacePublishSyncChunks, SpacePublishSyncPrivate,
   SpaceManifestCreate, SpaceManifestWrite, SpaceManifestSync, SpaceManifestRename,
   SpacePublishSyncManifests, SpacePublishSyncRenames, SpacePublishEnd,
   SpacePublishThrow, SpaceRetireBegin, SpaceRetireUnlink, SpaceRetireSync,
   SpaceRetireSyncChunks, SpaceRetireEnd, SpaceRetireThrow, SpaceRetireRemove,
   SpaceReclaimBegin, SpaceReclaimSync, SpaceReclaimEnd, SpaceReclaimThrow,
   SpaceReclaimRemove, SpaceReclaimTemporary, SpaceStartup, SpaceCrash,
   SpaceLosePayload, SpaceStutter
   DEF Next

-----------------------------------------------------------------------------
(* Growth *)

\* What may be left after a power failure is covered by what is counted.
LEMMA Covered ==
  ASSUME CrashSafe, Space, pc \in Publishing
  PROVE  /\ MayRemain \in SUBSET Name /\ Bytes(MayRemain) \in Nat
         /\ Bytes(MayRemain) <= managed /\ managed \in Nat
<1>1. Files /\ Temps /\ Fields /\ Count /\ Removals /\ Renames /\ Control
  BY DEF CrashSafe, Space
<1>2. up /\ ~recovery /\ pc \notin Retiring
  BY <1>1 DEF Control, Publishing, Retiring
<1>3. Maybe \subseteq Held /\ Loose \subseteq Held
  BY <1>1, <1>2 DEF Removals, Renames
<1>4. OnTmp \in SUBSET Name /\ Held \in SUBSET Name /\ MaybeTmp \subseteq OnTmp \cup Loose
  BY <1>1, TempsNested
<1>5. MayRemain \subseteq Held \cup OnTmp /\ MayRemain \in SUBSET Name
  BY <1>1, <1>3, <1>4, MayRemainIs
<1>6. Bytes(MayRemain) <= Bytes(Held) + Bytes(OnTmp)
  BY <1>4, <1>5, BytesCover
<1>7. managed = Bytes(Held) + Bytes(OnTmp)
  BY <1>1, <1>2 DEF Count
<1>. QED
  BY <1>1, <1>5, <1>6, <1>7, BytesNat DEF Fields

\* A write adds one name to what may be left.
LEMMA WriteGrowth ==
  ASSUME CrashSafe, Space, pc \in Publishing, NEW n \in Name,
         Rewrite(n, "empty", "dirty"), budget' = budget, budget \in Nat,
         managed + Size[n] <= budget
  PROVE  Bytes(MayRemain') <= budget'
<1>1. Files /\ Temps /\ Size[n] \in Nat
  BY SizeNat DEF CrashSafe, Space
<1>2. Temps' /\ UNCHANGED <<home, mayHome>> /\ MaybeTmp' = MaybeTmp \cup {n}
      /\ tmp' \in [Name -> Content]
  BY <1>1, WriteSets DEF Rewrite, Files, Content
<1>3. Files' /\ Maybe' = Maybe
  BY <1>1, <1>2, SameHome, TmpFiles
<1>4. MayRemain' = Maybe' \cup MaybeTmp'
  BY <1>2, <1>3 DEF Files, Temps, MayRemain, Maybe, MaybeTmp, Sized
<1>5. MayRemain' = MayRemain \cup {n}
  BY <1>1, <1>2, <1>3, <1>4, MayRemainIs
<1>6. Bytes(MayRemain \cup {n}) <= Bytes(MayRemain) + Size[n]
  <2>1. CASE n \in MayRemain
    <3>1. \A z : z \in MayRemain \cup {n} <=> z \in MayRemain
      BY <2>1
    <3>2. Bytes(MayRemain \cup {n}) = Bytes(MayRemain)
      BY <3>1, BytesSame
    <3>. QED
      BY <1>1, <3>2, Covered
  <2>2. CASE n \notin MayRemain
    <3>1. Bytes(MayRemain \cup {n}) = Bytes(MayRemain) + Size[n]
      BY <2>2, Covered, BytesAdd
    <3>. QED
      BY <1>1, <3>1, Covered
  <2>. QED
    BY <2>1, <2>2
<1>7. Bytes(MayRemain') = Bytes(MayRemain \cup {n})
  BY <1>5, Zenon
<1>8. Bytes(MayRemain \cup {n}) \in Nat
  BY Covered, BytesNat
<1>. QED
  BY <1>1, <1>6, <1>7, <1>8, Covered

\* Only the two writes let more remain.
LEMMA NoGrowth ==
  ASSUME CrashSafe, CrashSafe', Space, Space', [Next]_vars,
         \A p \in Payload : ~PayloadWrite(p), ~ManifestWrite
  PROVE  MayRemain' \subseteq MayRemain
<1>1. Files /\ Temps /\ Control /\ Files' /\ Temps'
  BY DEF CrashSafe, Space
<1>2. MayRemain = Maybe \cup MaybeTmp
  BY <1>1, MayRemainIs
<1>3. MayRemain' = Maybe' \cup MaybeTmp'
  BY <1>1 DEF Files, Temps, MayRemain, Maybe, MaybeTmp, Sized
<1>4. Held \subseteq Maybe /\ OnTmp \subseteq MaybeTmp
  BY <1>1, Nested, TempsNested
<1>5. ASSUME UNCHANGED fs PROVE MayRemain' \subseteq MayRemain
  BY <1>5 DEF fs, MayRemain
<1>6. ASSUME NEW n \in Name, Create(n) PROVE MayRemain' \subseteq MayRemain
  BY <1>1, <1>2, <1>3, <1>6, CreateSets, SameHome
<1>7. ASSUME NEW n \in Name, Rewrite(n, "dirty", "whole")
      PROVE  MayRemain' \subseteq MayRemain
  BY <1>1, <1>2, <1>3, <1>7, FsyncSets, SameHome
<1>8. ASSUME NEW n \in Name, tmp[n] = "whole", RenameNoReplace(n)
      PROVE  MayRemain' \subseteq MayRemain
  BY <1>1, <1>2, <1>3, <1>8, RenameSets, RenameTemps
<1>9. ASSUME NEW n \in Name, Unlink(n) PROVE MayRemain' \subseteq MayRemain
  BY <1>1, <1>2, <1>3, <1>9, UnlinkSets, SameTmp DEF Unlink
<1>10. ASSUME NEW n \in Name, UnlinkTemporary(n) PROVE MayRemain' \subseteq MayRemain
  BY <1>1, <1>2, <1>3, <1>10, UnlinkTemps, SameHome
<1>11. ASSUME NEW d, SyncDirectory(d) PROVE MayRemain' \subseteq MayRemain
  <2>1. Maybe' \subseteq Maybe \cup Held
    BY <1>1, <1>11, SyncSets
  <2>2. MaybeTmp' = MaybeTmp
    BY <1>1, <1>11, SameTmp DEF SyncDirectory
  <2>. QED
    BY <1>2, <1>3, <1>4, <2>1, <2>2
<1>12. ASSUME SyncTemporary PROVE MayRemain' \subseteq MayRemain
  BY <1>1, <1>2, <1>3, <1>4, <1>12, SyncTemps, SameHome
<1>13. ASSUME PowerFailure PROVE MayRemain' \subseteq MayRemain
  BY <1>1, <1>2, <1>3, <1>13, PowerSets, PowerTemps
<1>14. ASSUME NEW b \in Budgets, Startup(b) PROVE MayRemain' \subseteq MayRemain
  <2>1. /\ mayHome' = [n \in Name |-> {home[n]}]
        /\ mayTmp' = [n \in Name |-> {tmp[n]}]
    BY <1>14 DEF Startup
  <2>2. Maybe' \subseteq Held /\ MaybeTmp' \subseteq OnTmp
    BY <2>1 DEF Maybe, Held, MaybeTmp, OnTmp
  <2>. QED
    BY <1>2, <1>3, <1>4, <2>2
<1>15. ASSUME NEW p \in Payload, LosePayload(p) PROVE MayRemain' \subseteq MayRemain
  <2>1. mayHome' = [mayHome EXCEPT ![p] = {"absent"}] /\ UNCHANGED <<tmp, mayTmp>>
    BY <1>15 DEF LosePayload
  <2>2. Maybe' \subseteq Maybe
    BY <1>1, <2>1 DEF Files, Maybe
  <2>. QED
    BY <1>1, <1>2, <1>3, <2>1, <2>2, SameTmp
<1>16. CASE UNCHANGED vars
  BY <1>5, <1>16 DEF vars, fs
<1>17. Payload \subseteq Name
  BY DEF Name
<1>18. pc \in Publishing \cup Retiring => subject \in Name
  BY <1>1 DEF Control, Name
<1>19. CASE \/ Crash \/ \E b \in Budgets : Startup(b)
            \/ \E p \in Payload : LosePayload(p)
  BY <1>5, <1>13, <1>14, <1>15, <1>19 DEF Crash
<1>20. CASE \/ \E r \in Reader, m \in Manifest : Pin(r, m)
            \/ \E r \in Reader : Unpin(r)
            \/ \E p \in Payload : Quarantine(p)
            \/ \E m \in Manifest : Invalidate(m)
            \/ \E m \in Manifest : PublishBegin(m)
            \/ PublishEnd \/ PublishThrow
            \/ \E m \in Manifest : RetireBegin(m)
            \/ ReclaimBegin
  BY <1>5, <1>20
     DEF Pin, Unpin, Quarantine, Invalidate, PublishBegin, PublishEnd, PublishThrow,
         RetireBegin, ReclaimBegin
<1>21. CASE \/ \E p \in Payload : PayloadCreate(p)
            \/ \E p \in Payload : PayloadSync(p)
            \/ ManifestCreate \/ ManifestSync
  BY <1>6, <1>7, <1>17, <1>18, <1>21
     DEF PayloadCreate, PayloadSync, ManifestCreate, ManifestSync, Publishing
<1>22. CASE \/ \E p \in Payload : PayloadRename(p)
            \/ ManifestRename
  <2>1. pc = "manifestRename" => tmp[subject] = "whole"
    BY DEF CrashSafe, Publication
  <2>. QED
    BY <1>8, <1>17, <1>18, <1>22, <2>1 DEF PayloadRename, ManifestRename, Publishing
<1>23. CASE \/ PublishSyncTemporary \/ PublishSyncChunks \/ PublishSyncPrivate
            \/ PublishSyncManifests \/ PublishSyncRenames
            \/ RetireSync \/ RetireSyncChunks \/ RetireEnd \/ ReclaimSync \/ ReclaimEnd
  BY <1>11, <1>12, <1>23
     DEF PublishSyncTemporary, PublishSyncChunks, PublishSyncPrivate,
         PublishSyncManifests, PublishSyncRenames, RetireSync, RetireSyncChunks,
         RetireEnd, ReclaimSync, ReclaimEnd
<1>24. CASE \/ RetireUnlink \/ \E p \in Payload : RetireRemove(p)
            \/ \E n \in Name : ReclaimRemove(n)
            \/ \E n \in Name : ReclaimTemporary(n)
  BY <1>9, <1>10, <1>17, <1>18, <1>24
     DEF RetireUnlink, RetireRemove, ReclaimRemove, ReclaimTemporary, Retiring
<1>25. CASE RetireThrow \/ ReclaimThrow
  BY <1>1, <1>5, <1>9, <1>10, <1>17, <1>18, <1>25
     DEF RetireThrow, ReclaimThrow, OrphansIn, Control
<1>. QED
  BY <1>16, <1>19, <1>20, <1>21, <1>22, <1>23, <1>24, <1>25 DEF Next

-----------------------------------------------------------------------------
(* Theorems *)

\* Count, removals, renames and room hold in every reachable state.
THEOREM SpaceInvariant == Spec => [](CrashSafe /\ Space)
<1>1. Init => CrashSafe /\ Space
  BY InitCrashSafe, SpaceInit
<1>2. CrashSafe /\ Space /\ [Next]_vars => (CrashSafe /\ Space)'
  BY NextCrashSafe, SpaceNext, StutterCrashSafe
<1>. QED
  BY <1>1, <1>2, PTL DEF Spec

\* Stats().managed_bytes is exact unless an outcome is uncertain, and never too
\* low, through every crash, failed step, retirement and reclamation.
THEOREM ManagedBytesAreExact == Spec => []ManagedBytesExact
<1>1. CrashSafe /\ Space => ManagedBytesExact
  <2>. SUFFICES ASSUME CrashSafe, Space PROVE ManagedBytesExact
    OBVIOUS
  <2>1. Files /\ Temps /\ Fields /\ Count /\ Control /\ Readers
    BY DEF CrashSafe, Space
  <2>2. entries \ durable = IF pc \in Publishing THEN {subject} ELSE {}
    BY <2>1 DEF Control
  <2>3. durable \subseteq entries
    BY <2>1 DEF Control
  <2>4. pins \in [Reader -> Manifest \cup {None}]
    BY <2>1, <2>3 DEF Readers, Control
  <2>5. TypeOK
    BY <2>1, <2>2, <2>3, <2>4 DEF TypeOK, Files, Temps, Fields, Control
  <2>. QED
    BY <2>1, <2>5, ScannedIs DEF ManagedBytesExact, Count
<1>. QED
  BY <1>1, SpaceInvariant, PTL

\* Publish never spends capacity that a removal freed before the removal is
\* durable: whatever a power failure brings back, a publication that writes
\* stays within budget_bytes.
THEOREM GrowthStaysWithinBudget == Spec => GrowthWithinBudget
<1>1. ASSUME CrashSafe, Space, CrashSafe', Space', [Next]_vars
      PROVE  [MayRemain' \subseteq MayRemain \/ Bytes(MayRemain)' <= budget']_vars
  <2>1. budget \in Nat /\ managed \in Nat
    BY <1>1 DEF Space, Fields
  <2>2. ASSUME NEW p \in Payload, PayloadWrite(p) PROVE Bytes(MayRemain') <= budget'
    <3>1. /\ pc = "payload" /\ subject \in Manifest /\ todo \subseteq Payload
          /\ p \in todo /\ budget' = budget /\ Rewrite(p, "empty", "dirty")
      BY <1>1, <2>2 DEF CrashSafe, Control, PayloadWrite, elsewhere, Publishing
    <3>2. p \in Name /\ subject \in Name /\ todo \ OnTmp \in SUBSET Name
      BY <3>1 DEF Name
    <3>3. p \in todo \ OnTmp
      BY <1>1, <3>1, <3>2, WriteSets DEF CrashSafe, Space
    <3>4. Bytes(todo \ OnTmp) >= Size[p] /\ Bytes(todo \ OnTmp) \in Nat
      BY <3>2, <3>3, BytesRemove, BytesNat
    <3>5. managed + Size[subject] + Bytes(todo \ OnTmp) <= budget
      BY <1>1, <3>1 DEF Space, Room
    <3>6. Size[p] \in Nat /\ Size[subject] \in Nat
      BY <3>2, SizeNat
    <3>7. managed + Size[p] <= budget
      BY <2>1, <3>4, <3>5, <3>6
    <3>. QED
      BY <1>1, <2>1, <3>1, <3>2, <3>7, WriteGrowth DEF Publishing
  <2>3. CASE ManifestWrite
    <3>1. /\ pc = "manifestWrite" /\ subject \in Name /\ budget' = budget
          /\ Rewrite(subject, "empty", "dirty")
      BY <1>1, <2>3 DEF CrashSafe, Control, ManifestWrite, elsewhere, Publishing, Name
    <3>2. managed + Size[subject] <= budget
      BY <1>1, <3>1 DEF Space, Room
    <3>3. Bytes(MayRemain') <= budget'
      BY <1>1, <2>1, <3>1, <3>2, WriteGrowth DEF Publishing
    <3>. QED
      BY <3>3
  <2>. QED
    BY <1>1, <2>2, <2>3, NoGrowth
<1>. QED
  BY <1>1, SpaceInvariant, PTL DEF Spec, GrowthWithinBudget
=============================================================================
