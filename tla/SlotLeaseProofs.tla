-------------------------- MODULE SlotLeaseProofs --------------------------
(***************************************************************************)
(* Safety of SlotLease, for any number of ranges, readers, validity checks *)
(* and rows, any piece and batch size.                                     *)
(*                                                                         *)
(* The invariant turns on one notion, a settled range: preserved or        *)
(* retired, and read by nobody in the slot.  A range that is not settled   *)
(* must still be in the slot as it was captured (Sources); the mutation    *)
(* guard may change the slot because every range it concerns is either     *)
(* still on its list or settled (Passed); and a range that is settled      *)
(* stays so.  The last fact, with what pieces do to the backing, is        *)
(* Advance: the only thing a step may do to a registered range.  Each step *)
(* lemma shows that its action lets every range advance, or, for capture,  *)
(* expiry, write and release, why the invariant survives it anyway.        *)
(***************************************************************************)
EXTENDS SlotLease, FiniteSetTheorems, TLAPS


\* A registration nobody reads in the slot any more.
Settled(r) == Complete(r) /\ row[r].readers = 0

\* Registered ranges are not empty, and a range that is not registered is fresh.
Ranges ==
  \A r \in Row :
    /\ row[r].borrowed => row[r].first <= row[r].end /\ row[r].copied <= Count(r)
    /\ row[r].held => row[r].borrowed
    /\ ~row[r].borrowed => row[r] = Unborrowed

\* Where the foreground thread can be, and which ranges it holds there.
Foregrounds ==
  /\ fg.pc \notin {"reassign", "overwrite", "release"} => fg.stage = None /\ fg.todo = {}
  /\ fg.pc # "reassign" => fg.batch = {} /\ fg.await = {}
  /\ fg.stage = None => fg.cur = NoRow
  /\ fg.stage # None => fg.cur \in Registered /\ fg.batch = {} /\ fg.await = {}
  /\ fg.todo \subseteq Registered /\ fg.batch \subseteq Registered /\ fg.await \subseteq Registered
  /\ fg.todo \cap fg.batch = {} /\ fg.cur \notin fg.todo
  /\ fg.batch = {} \/ fg.await = {}
  /\ fg.stage \in {"copy", "copying"} => row[fg.cur].backed /\ ~Complete(fg.cur)
  /\ fg.stage = "readers" => Complete(fg.cur)
  /\ \A r \in fg.batch : row[r].backed /\ ~Complete(r)
  /\ \A r \in fg.await : Complete(r)
  /\ fg.pc = "overwrite" => valid <= fg.next \/ (fg.lo = 1 /\ fg.hi = MaxRows)

\* The idle worker works on one incomplete range, and only while no lease is executing.
IdlePiece ==
  /\ idle.cur # NoRow <=> spilling
  /\ spilling => /\ fg.pc \in {"free", "drain"} /\ idle.cur \in Registered
                 /\ row[idle.cur].backed /\ ~Complete(idle.cur)

\* Blocked readers and validity checks keep the range they look at alive.
Referrers ==
  /\ \A p \in Reader : want[p] # NoRow => row[want[p]].borrowed /\ want[p] \notin pins[p]
  /\ \A c \in Checker :
       /\ chk[c].pc = "done" <=> chk[c].row = NoRow
       /\ chk[c].row # NoRow => row[chk[c].row].borrowed
       /\ chk[c].pc = "generation" => chk[c].result
       /\ chk[c].pc = "recheck" => Complete(chk[c].row)
       /\ chk[c].pc = "returned" /\ ~chk[c].result => row[chk[c].row].retired

\* A range that is not settled is in the slot as it was captured, under the bound.
Sources ==
  \A r \in Registered : ~Settled(r) =>
    /\ row[r].gen = gen /\ created /\ row[r].end <= valid /\ row[r].end <= bound
    /\ Same(content, row[r].data, r)

\* Pieces copied so far are what was captured.
Pieces ==
  \A r \in Registered :
    /\ \A i \in row[r].first..(row[r].first + row[r].copied - 1) : row[r].got[i] = row[r].data[i]
    /\ row[r].materialized => row[r].copied = Count(r)
    /\ row[r].retired /\ row[r].backed => row[r].lost

\* The ranges the guard under way has to preserve.
Concerned(r) ==
  \/ fg.pc \in {"release", "reassign", "create"}
  \/ fg.pc = "overwrite" /\ row[r].first <= fg.hi /\ fg.lo <= row[r].end
\* The guard has this range in hand or on a list.
Working(r) == r \in fg.todo \/ r \in fg.batch \/ r \in fg.await \/ r = fg.cur

\* Ranges a guard has passed are settled.
Passed == \A r \in Registered : Concerned(r) => Working(r) \/ Settled(r)

\* The bounds leave room for the steps a lease still has to make.
Room ==
  /\ fg.pc # "free" => gen < MaxGen
  /\ fg.pc = "reassign" \/ (fg.pc = "drain" /\ fg.why # "live")
       \/ (fg.pc = "release" /\ fg.why # "drop") => gen + 1 < MaxGen
  /\ fg.pc = "overwrite" => clock < MaxWrites

\* The inductive invariant.
IInv == /\ TypeOK /\ Ranges /\ Foregrounds /\ IdlePiece /\ Referrers /\ Sources /\ Pieces
        /\ Passed /\ Room /\ ReadersCounted /\ ClosedOnlyWhilePreserving

-----------------------------------------------------------------------------
(* What a step may do to a range *)

\* The captured range is the same.
SameRange(s, t) ==
  /\ t.borrowed = s.borrowed /\ t.backed = s.backed /\ t.first = s.first
  /\ t.end = s.end /\ t.gen = s.gen /\ t.data = s.data

\* A range moves from s to t without being captured or expiring: the captured
\* range stays what it is, it never becomes incomplete again, a settled range
\* stays settled, and pieces only add captured rows.
Advance(s, t) ==
  /\ t \in RowState /\ SameRange(s, t)
  /\ t.held => s.held
  /\ s.materialized => t.materialized
  /\ s.retired => t.retired
  /\ (s.materialized \/ s.retired) /\ s.readers = 0 => t.readers = 0
  /\ ~s.borrowed => t = s
  /\ s.borrowed =>
       /\ t.copied <= s.end - s.first + 1
       /\ \A i \in s.first..(s.first + t.copied - 1) : t.got[i] = t.data[i]
       /\ t.materialized => t.copied = s.end - s.first + 1
       /\ t.retired /\ t.backed => t.lost

\* Every range advances.
Advances == row' \in [Row -> RowState] /\ \A r \in Row : Advance(row[r], row'[r])

\* A step that leaves the ranges alone lets every range advance.
LEMMA SameRows ==
  ASSUME TypeOK, Ranges, Pieces, row' = row
  PROVE  Advances
BY DEF TypeOK, Ranges, Pieces, Registered, Count, Advances, Advance, SameRange

\* Ranges advance and the slot stays as it is.
LEMMA AdvanceKeeps ==
  ASSUME TypeOK, Ranges, Sources, Pieces, Advances,
         UNCHANGED <<content, gen, created, valid, bound>>
  PROVE  Ranges' /\ Sources' /\ Pieces'
<1>1. Ranges'
  BY DEF Ranges, Advances, Advance, SameRange, Count, TypeOK, RowState
<1>2. Sources'
  BY DEF Sources, Advances, Advance, SameRange, Settled, Complete, Registered, Same, RowsOf,
         TypeOK, RowState
<1>3. Pieces'
  BY DEF Pieces, Advances, Advance, SameRange, Count, Registered, TypeOK, RowState
<1> QED BY <1>1, <1>2, <1>3

\* Ranges advance and the other threads stay where they are.
LEMMA ReferrersKept ==
  ASSUME TypeOK, Referrers, Advances, UNCHANGED Threads
  PROVE  Referrers'
BY DEF Referrers, Advances, Advance, SameRange, Complete, Threads, TypeOK

\* The number of readers with a source pin on r.
Pinners(r) == Cardinality({p \in Reader : r \in pins[p]})

\* Source pins on a range are finitely many.
LEMMA PinnersNat ==
  ASSUME NEW r
  PROVE  Pinners(r) \in Nat /\ (Pinners(r) = 0 => \A p \in Reader : r \notin pins[p])
<1> DEFINE P == {p \in Reader : r \in pins[p]}
<1>1. P \in SUBSET Reader
  OBVIOUS
<1>2. IsFiniteSet(P)
  BY <1>1, SlotAssumption, FS_Subset
<1>3. Cardinality(P) \in Nat /\ (Cardinality(P) = 0 <=> P = {})
  BY <1>2, FS_CardinalityType, FS_EmptySet
<1> QED BY <1>3 DEF Pinners

\* A source pin or a running copy is counted.
LEMMA ReadersPositive ==
  ASSUME TypeOK, ReadersCounted, NEW r \in Row,
         \/ \E p \in Reader : r \in pins[p]
         \/ r \in fg.batch
         \/ fg.cur = r /\ fg.stage = "copying"
         \/ idle.cur = r /\ idle.pc = "copying"
  PROVE  row[r].readers > 0
<1>1. /\ row[r].readers = Pinners(r)
             + (IF r \in fg.batch \/ (fg.cur = r /\ fg.stage = "copying") THEN 1 ELSE 0)
             + (IF idle.cur = r /\ idle.pc = "copying" THEN 1 ELSE 0)
      /\ Pinners(r) \in Nat
      /\ (Pinners(r) = 0 => \A p \in Reader : r \notin pins[p])
  BY PinnersNat DEF ReadersCounted, Pinners
<1> QED BY <1>1


\* A copied piece adds captured rows.
LEMMA CopiedFields ==
  ASSUME TypeOK, Ranges, Sources, Pieces, NEW r \in Row, row[r].borrowed, ~Complete(r),
         NEW n \in Nat, n <= Remaining(r)
  PROVE  LET c == Copied(r, n)
         IN /\ c \in RowState
            /\ c.borrowed = row[r].borrowed /\ c.held = row[r].held /\ c.backed = row[r].backed
            /\ c.first = row[r].first /\ c.end = row[r].end /\ c.gen = row[r].gen
            /\ c.materialized = row[r].materialized /\ c.retired = row[r].retired
            /\ c.closing = row[r].closing /\ c.idleFailed = row[r].idleFailed
            /\ c.readers = row[r].readers /\ c.lost = row[r].lost /\ c.data = row[r].data
            /\ c.copied = row[r].copied + n
            /\ c.copied <= c.end - c.first + 1
            /\ \A i \in c.first..(c.first + c.copied - 1) : c.got[i] = c.data[i]
<1> DEFINE c == Copied(r, n)
<1>1. /\ row[r] \in RowState /\ row[r].copied + n <= row[r].end - row[r].first + 1
      /\ content \in [Position -> Version]
  <2>1. row[r] \in RowState /\ content \in [Position -> Version]
    BY DEF TypeOK
  <2>2. row[r].copied + n <= row[r].end - row[r].first + 1
    BY <2>1, SlotAssumption DEF Remaining, Count, RowState, Position
  <2> QED BY <2>1, <2>2
<1>2. c = [row[r] EXCEPT !.copied = row[r].copied + n,
             !.got = [i \in Position |->
                IF i \in (row[r].first + row[r].copied)
                           ..(row[r].first + row[r].copied + n - 1)
                THEN content[i] ELSE row[r].got[i]]]
  BY DEF Copied
<1>3. row[r].copied + n \in 0..MaxRows
  BY <1>1, SlotAssumption DEF RowState, Position
<1>4. [i \in Position |->
                IF i \in (row[r].first + row[r].copied)
                           ..(row[r].first + row[r].copied + n - 1)
                THEN content[i] ELSE row[r].got[i]] \in [Position -> Version]
  BY <1>1 DEF RowState
<1>5. /\ c \in RowState
            /\ c.borrowed = row[r].borrowed /\ c.held = row[r].held /\ c.backed = row[r].backed
            /\ c.first = row[r].first /\ c.end = row[r].end /\ c.gen = row[r].gen
            /\ c.materialized = row[r].materialized /\ c.retired = row[r].retired
            /\ c.closing = row[r].closing /\ c.idleFailed = row[r].idleFailed
            /\ c.readers = row[r].readers /\ c.lost = row[r].lost /\ c.data = row[r].data
            /\ c.copied = row[r].copied + n
  BY <1>1, <1>2, <1>3, <1>4 DEF RowState
<1>6. ASSUME NEW i \in c.first..(c.first + c.copied - 1)
      PROVE  c.got[i] = c.data[i]
  <2>1. /\ i \in Position /\ i \in row[r].first..row[r].end
        /\ i \in row[r].first..(row[r].first + row[r].copied + n - 1)
    <3>1. /\ row[r].first \in Nat /\ row[r].first >= 1 /\ row[r].end \in Nat /\ row[r].end <= MaxRows
          /\ row[r].copied \in Nat
      BY <1>1, SlotAssumption DEF RowState, Position
    <3>2. c.first = row[r].first /\ c.copied = row[r].copied + n
      BY <1>5
    <3>3. row[r].copied + n <= row[r].end - row[r].first + 1
      BY <1>1
    <3>4. i \in row[r].first..(row[r].first + (row[r].copied + n) - 1)
      BY <3>2
    <3> QED BY <3>1, <3>3, <3>4, SlotAssumption DEF Position
  <2>2. content[i] = row[r].data[i]
    BY <2>1 DEF Sources, Settled, Same, RowsOf, Registered
  <2>3. c.got[i] = IF i \in (row[r].first + row[r].copied)..(row[r].first + row[r].copied + n - 1)
                   THEN content[i] ELSE row[r].got[i]
    BY <1>1, <1>2, <2>1 DEF RowState
  <2>4. CASE i \in (row[r].first + row[r].copied)..(row[r].first + row[r].copied + n - 1)
    BY <2>2, <2>3, <2>4, <1>5
  <2>5. CASE i \notin (row[r].first + row[r].copied)..(row[r].first + row[r].copied + n - 1)
    <3>1. i \in row[r].first..(row[r].first + row[r].copied - 1)
      BY <2>1, <2>5, <1>1 DEF RowState, Position
    <3>2. row[r].got[i] = row[r].data[i]
      BY <3>1 DEF Pieces, Registered
    <3> QED BY <2>3, <2>5, <3>2, <1>5
  <2> QED BY <2>4, <2>5
<1>7. c.copied <= c.end - c.first + 1
  BY <1>1, <1>5
<1> QED BY <1>5, <1>6, <1>7

\* The fields that dropping a source pin leaves alone.
LEMMA UnreadFields ==
  ASSUME NEW s \in RowState, s.readers > 0
  PROVE  LET t == Unread(s)
         IN /\ t \in RowState /\ SameRange(s, t)
            /\ t.copied = s.copied /\ t.got = s.got /\ t.held = s.held
            /\ t.materialized = s.materialized /\ t.retired = s.retired /\ t.lost = s.lost
            /\ t.closing = s.closing /\ t.idleFailed = s.idleFailed
            /\ t.readers = s.readers - 1
BY DEF Unread, RowState, SameRange

\* The fields that taking a source pin leaves alone.
Read(s) == [s EXCEPT !.readers = @ + 1]

\* A copy takes its source pin: only the count changes.
LEMMA ReadFields ==
  ASSUME NEW s \in RowState
  PROVE  LET t == Read(s)
         IN /\ t \in RowState /\ SameRange(s, t)
            /\ t.copied = s.copied /\ t.got = s.got /\ t.held = s.held
            /\ t.materialized = s.materialized /\ t.retired = s.retired /\ t.lost = s.lost
            /\ t.closing = s.closing /\ t.readers = s.readers + 1
BY DEF Read, RowState, SameRange

\* The fields that publication leaves alone.
LEMMA PublishedFields ==
  ASSUME NEW s \in RowState
  PROVE  LET t == Published(s)
         IN /\ t \in RowState /\ SameRange(s, t)
            /\ t.copied = s.copied /\ t.got = s.got /\ t.held = s.held
            /\ t.materialized = TRUE /\ t.retired = s.retired /\ t.lost = s.lost
            /\ t.closing = FALSE /\ t.readers = s.readers
<1>1. Published(s) \in RowState
  <2>1. [s EXCEPT !.materialized = TRUE] \in RowState
    BY DEF RowState
  <2> QED BY <2>1 DEF Published, RowState
<1> QED BY <1>1 DEF Published, RowState, SameRange

\* A range of which only flags and the reader count change advances.
LEMMA FlagsAdvance ==
  ASSUME TypeOK, Ranges, Pieces, NEW r \in Row, row[r].borrowed,
         NEW t \in RowState, SameRange(row[r], t),
         t.copied = row[r].copied, t.got = row[r].got, t.materialized = row[r].materialized,
         t.held => row[r].held,
         row[r].retired => t.retired,
         t.retired /\ t.backed => t.lost,
         Settled(r) => t.readers = 0
  PROVE  Advance(row[r], t)
<1>1. /\ row[r].copied <= row[r].end - row[r].first + 1
      /\ \A i \in row[r].first..(row[r].first + row[r].copied - 1) : row[r].got[i] = row[r].data[i]
      /\ row[r].materialized => row[r].copied = row[r].end - row[r].first + 1
  BY DEF Ranges, Pieces, Registered, Count
<1>2. (row[r].materialized \/ row[r].retired) /\ row[r].readers = 0 => t.readers = 0
  BY DEF Settled, Complete
<1>3. t.data = row[r].data
  BY DEF SameRange
<1> QED BY <1>1, <1>2, <1>3, Zenon DEF Advance

\* A range that gets a piece of n rows, all that are missing if it is then
\* complete, advances.
LEMMA PieceAdvances ==
  ASSUME TypeOK, Ranges, Sources, Pieces, NEW r \in Row, row[r].borrowed, ~Complete(r),
         NEW n \in Nat, n <= Remaining(r), NEW t \in RowState,
         SameRange(Copied(r, n), t), t.copied = Copied(r, n).copied,
         t.got = Copied(r, n).got, t.held => row[r].held, ~t.retired,
         t.materialized => n = Remaining(r)
  PROVE  Advance(row[r], t)
<1> DEFINE c == Copied(r, n)
<1>1. /\ SameRange(row[r], c) /\ c.copied = row[r].copied + n
      /\ c.copied <= c.end - c.first + 1
      /\ \A i \in c.first..(c.first + c.copied - 1) : c.got[i] = c.data[i]
  BY CopiedFields DEF SameRange
<1>2. SameRange(row[r], t)
  BY <1>1 DEF SameRange
<1>3. t.materialized => t.copied = row[r].end - row[r].first + 1
  <2>1. row[r] \in RowState
    BY DEF TypeOK
  <2>2. row[r].copied \in Nat /\ row[r].end \in Nat /\ row[r].first \in Nat
    BY <2>1, SlotAssumption DEF RowState, Position
  <2>3. t.materialized => n = row[r].end - row[r].first + 1 - row[r].copied
    BY <2>2 DEF Remaining, Count
  <2>4. t.copied = row[r].copied + n
    BY <1>1
  <2> QED BY <2>2, <2>3, <2>4
<1>4. /\ t.copied <= row[r].end - row[r].first + 1
      /\ \A i \in row[r].first..(row[r].first + t.copied - 1) : t.got[i] = t.data[i]
  BY <1>1 DEF SameRange
<1>5. ~row[r].materialized /\ ~row[r].retired
  BY DEF Complete
<1> QED BY <1>2, <1>3, <1>4, <1>5, Zenon DEF Advance

\* A step on one range.
LEMMA OneRow ==
  ASSUME TypeOK, Ranges, Pieces, NEW r \in Row, NEW t \in RowState, Advance(row[r], t),
         row' = [row EXCEPT ![r] = t]
  PROVE  Advances /\ row'[r] = t /\ \A q \in Row \ {r} : row'[q] = row[q]
<1>1. row \in [Row -> RowState]
  BY DEF TypeOK
<1>2. row' \in [Row -> RowState] /\ row'[r] = t /\ \A q \in Row \ {r} : row'[q] = row[q]
  BY <1>1
<1>3. ASSUME NEW q \in Row, q # r
      PROVE  Advance(row[q], row'[q])
  BY <1>1, <1>2, <1>3 DEF Ranges, Pieces, Registered, Count, Advance, SameRange
<1> QED BY <1>2, <1>3 DEF Advances

-----------------------------------------------------------------------------
(* Steps of the foreground thread on one range *)

\* Copies of r that the foreground thread has under way.
FgCopies(r)   == IF r \in fg.batch \/ (fg.cur = r /\ fg.stage = "copying") THEN 1 ELSE 0
\* Copies of r that the idle worker has under way.
IdleCopies(r) == IF idle.cur = r /\ idle.pc = "copying" THEN 1 ELSE 0

\* The count when copies begin and end and source pins do not change.
LEMMA Counted ==
  ASSUME TypeOK, ReadersCounted, pins' = pins,
         \A r \in Row : row'[r].readers = row[r].readers
            + (FgCopies(r)' - FgCopies(r)) + (IdleCopies(r)' - IdleCopies(r))
  PROVE  ReadersCounted'
<1> SUFFICES ASSUME NEW r \in Row
             PROVE  row'[r].readers = Pinners(r)' + FgCopies(r)' + IdleCopies(r)'
  BY DEF ReadersCounted, Pinners, FgCopies, IdleCopies
<1>1. Pinners(r)' = Pinners(r) /\ Pinners(r) \in Nat
  BY PinnersNat DEF Pinners
<1>2. row[r].readers = Pinners(r) + FgCopies(r) + IdleCopies(r)
  BY DEF ReadersCounted, Pinners, FgCopies, IdleCopies
<1>3. FgCopies(r) \in Nat /\ IdleCopies(r) \in Nat /\ FgCopies(r)' \in Nat /\ IdleCopies(r)' \in Nat
  BY DEF FgCopies, IdleCopies
<1> QED BY <1>1, <1>2, <1>3

\* The range the foreground thread is preserving.
LEMMA CurrentRange ==
  ASSUME IInv, fg.stage # None
  PROVE  /\ fg.cur \in Row /\ row[fg.cur].borrowed /\ row[fg.cur] \in RowState
         /\ fg.batch = {} /\ fg.await = {} /\ fg.cur \notin fg.todo
         /\ fg.pc \in {"reassign", "overwrite", "release"}
         /\ (fg.stage \in {"copy", "copying"} => row[fg.cur].backed /\ ~Complete(fg.cur))
         /\ (fg.stage = "copying" => row[fg.cur].readers > 0)
         /\ ~spilling
<1>1. fg.cur \in Registered /\ fg.batch = {} /\ fg.await = {} /\ fg.cur \notin fg.todo
  BY DEF IInv, Foregrounds
<1>2. fg.pc \in {"reassign", "overwrite", "release"}
  BY DEF IInv, Foregrounds
<1>3. fg.cur \in Row /\ row[fg.cur].borrowed /\ row[fg.cur] \in RowState
  BY <1>1 DEF Registered, IInv, TypeOK
<1>4. fg.stage \in {"copy", "copying"} => row[fg.cur].backed /\ ~Complete(fg.cur)
  BY DEF IInv, Foregrounds
<1>5. fg.stage = "copying" => row[fg.cur].readers > 0
  BY <1>3, ReadersPositive DEF IInv
<1>6. ~spilling
  BY <1>2 DEF IInv, IdlePiece
<1> QED BY <1>1, <1>2, <1>3, <1>4, <1>5, <1>6

\* A step on one range that leaves the slot and the other threads alone.
LEMMA OneRangeStep ==
  ASSUME IInv, NEW r \in Row, NEW t \in RowState, Advance(row[r], t),
         row' = [row EXCEPT ![r] = t],
         UNCHANGED <<SlotState, Threads>>
  PROVE  /\ row' \in [Row -> RowState] /\ Ranges' /\ Sources' /\ Pieces' /\ Referrers'
         /\ row'[r] = t /\ \A q \in Row \ {r} : row'[q] = row[q]
         /\ \A q \in Row : SameRange(row[q], row'[q])
         /\ \A q \in Row : Settled(q) => Settled(q)'
         /\ \A q \in Row : Complete(q) => Complete(q)'
<1>1. Advances /\ row'[r] = t /\ \A q \in Row \ {r} : row'[q] = row[q]
  BY OneRow DEF IInv
<1>2. Ranges' /\ Sources' /\ Pieces' /\ Referrers'
  BY <1>1, AdvanceKeeps, ReferrersKept DEF IInv, SlotState, Threads
<1>3. \A q \in Row : Advance(row[q], row'[q])
  BY <1>1 DEF Advances
<1>4. \A q \in Row : SameRange(row[q], row'[q])
  BY <1>3 DEF Advance
<1>5. \A q \in Row : (Settled(q) => Settled(q)') /\ (Complete(q) => Complete(q)')
  BY <1>3 DEF Advance, Settled, Complete
<1> QED BY <1>1, <1>2, <1>4, <1>5 DEF Advances

\* The guard goes on: what it has left, or finishes now, is settled.
LEMMA PassedKept ==
  ASSUME Passed, fg'.pc = fg.pc, fg'.lo = fg.lo, fg'.hi = fg.hi,
         \A q \in Row : SameRange(row[q], row'[q]),
         \A q \in Row : Settled(q) => Settled(q)',
         \A q \in Row : Working(q) => Working(q)' \/ Settled(q)'
  PROVE  Passed'
BY DEF Passed, Concerned, Registered, SameRange

\* CopyPiece pins the source and submits the transfer.
LEMMA CopyStartStep ==
  ASSUME IInv, CopyStart
  PROVE  IInv'
<1> USE DEF IInv
<1>1. PICK r \in Row :
      /\ r = fg.cur /\ row[r].borrowed /\ row[r].backed /\ ~Complete(r) /\ row[r] \in RowState
      /\ fg.stage = "copy" /\ fg.batch = {} /\ fg.await = {} /\ r \notin fg.todo
      /\ fg.pc \in {"reassign", "overwrite", "release"} /\ ~spilling
  BY CurrentRange DEF CopyStart, None
<1>2. /\ row' = [row EXCEPT ![r] = Read(row[r])] /\ fg' = [fg EXCEPT !.stage = "copying"]
      /\ UNCHANGED <<SlotState, Threads>> /\ UNCHANGED <<stop, idle>>
  BY <1>1 DEF CopyStart, Read
<1>3. PICK t \in RowState :
      /\ t = Read(row[r]) /\ SameRange(row[r], t) /\ t.copied = row[r].copied /\ t.got = row[r].got
      /\ t.held = row[r].held /\ t.materialized = row[r].materialized
      /\ t.retired = row[r].retired /\ t.lost = row[r].lost /\ t.closing = row[r].closing
      /\ t.readers = row[r].readers + 1
  BY <1>1, ReadFields
<1>4. Advance(row[r], t)
  BY <1>1, <1>3, FlagsAdvance DEF Settled, Complete
<1>5. /\ row' \in [Row -> RowState] /\ Ranges' /\ Sources' /\ Pieces' /\ Referrers'
      /\ row'[r] = t /\ \A q \in Row \ {r} : row'[q] = row[q]
      /\ \A q \in Row : SameRange(row[q], row'[q])
      /\ \A q \in Row : Settled(q) => Settled(q)'
      /\ \A q \in Row : Complete(q) => Complete(q)'
  BY <1>1, <1>2, <1>3, <1>4, OneRangeStep
<1>7. TypeOK'
  BY <1>2, <1>5 DEF TypeOK, SlotState, Threads
<1>8. Complete(r)' = Complete(r)
  BY <1>3, <1>5 DEF Complete
<1>9. Foregrounds'
  BY <1>1, <1>2, <1>5, <1>8 DEF Foregrounds, Registered, Complete, TypeOK, None, SameRange, SlotState
<1>10. IdlePiece'
  BY <1>1, <1>2 DEF IdlePiece, spilling, TypeOK
<1>11. Passed'
  <2>1. fg'.pc = fg.pc /\ fg'.lo = fg.lo /\ fg'.hi = fg.hi /\ \A q \in Row : Working(q)' = Working(q)
    BY <1>2 DEF Working, TypeOK
  <2> QED BY <1>5, <2>1, PassedKept
<1>12. Room'
  BY <1>2 DEF Room, TypeOK, SlotState
<1>13. ReadersCounted'
  <2>1. ASSUME NEW q \in Row
        PROVE  row'[q].readers = row[q].readers
                 + (FgCopies(q)' - FgCopies(q)) + (IdleCopies(q)' - IdleCopies(q))
    <3>1. row[q].readers \in Nat
      BY DEF TypeOK, RowState
    <3> QED BY <1>1, <1>2, <1>3, <1>5, <3>1 DEF FgCopies, IdleCopies, TypeOK
  <2> QED BY <1>2, <2>1, Counted DEF Threads
<1>14. ClosedOnlyWhilePreserving'
  BY <1>1, <1>2, <1>3, <1>5 DEF ClosedOnlyWhilePreserving, Registered, TypeOK, SameRange
<1> QED BY <1>5, <1>7, <1>9, <1>10, <1>11, <1>12, <1>13, <1>14

\* Preserve takes up the range r, which becomes t, and goes to stage g.
LEMMA TakeUp ==
  ASSUME IInv, NEW r \in fg.todo, fg.stage = None, fg.batch = {}, fg.await = {},
         fg.pc \in {"reassign", "overwrite", "release"},
         NEW t \in RowState, NEW g \in {"readers", "copy"},
         SameRange(row[r], t), t.copied = row[r].copied, t.got = row[r].got,
         t.held = row[r].held, t.materialized = row[r].materialized, t.lost = row[r].lost,
         t.readers = row[r].readers,
         row[r].retired => t.retired, t.retired /\ t.backed => row[r].retired,
         g = "readers" => ~t.closing /\ (t.materialized \/ t.retired),
         g = "copy" => t.backed /\ ~t.materialized /\ ~t.retired,
         row' = [row EXCEPT ![r] = t],
         fg' = [fg EXCEPT !.cur = r, !.todo = @ \ {r}, !.stage = g],
         UNCHANGED <<SlotState, Threads>>, UNCHANGED <<stop, idle>>
  PROVE  IInv'
<1> USE DEF IInv
<1>1. /\ r \in Row /\ row[r].borrowed /\ row[r] \in RowState /\ ~spilling
      /\ fg.cur = NoRow /\ NoRow \notin Row
  BY SlotAssumption DEF Foregrounds, Registered, TypeOK, IdlePiece
<1>2. /\ fg'.pc = fg.pc /\ fg'.why = fg.why /\ fg'.cur = r /\ fg'.todo = fg.todo \ {r}
      /\ fg'.stage = g /\ fg'.batch = {} /\ fg'.await = {}
      /\ fg'.lo = fg.lo /\ fg'.hi = fg.hi /\ fg'.next = fg.next
  BY DEF TypeOK
<1>3. Settled(r) => t.readers = 0
  BY DEF Settled
<1>4. Advance(row[r], t)
  <2>1. (row[r].retired => t.retired) /\ (t.retired /\ t.backed => t.lost)
    BY <1>1 DEF Pieces, Registered, SameRange
  <2> QED BY <1>1, <1>3, <2>1, FlagsAdvance
<1>5. /\ row' \in [Row -> RowState] /\ Ranges' /\ Sources' /\ Pieces' /\ Referrers'
      /\ row'[r] = t /\ \A q \in Row \ {r} : row'[q] = row[q]
      /\ \A q \in Row : SameRange(row[q], row'[q])
      /\ \A q \in Row : Settled(q) => Settled(q)'
      /\ \A q \in Row : Complete(q) => Complete(q)'
  BY <1>1, <1>2, <1>3, <1>4, OneRangeStep
<1>6. TypeOK'
  BY <1>1, <1>2, <1>5 DEF TypeOK, SlotState, Threads
<1>7. (g = "copy" => ~Complete(r)') /\ (g = "readers" => Complete(r)')
  BY <1>1, <1>3, <1>5 DEF Complete, SameRange
<1>8. Foregrounds'
  BY <1>1, <1>2, <1>5, <1>7 DEF Foregrounds, Registered, Complete, TypeOK, None, SameRange, SlotState
<1>9. IdlePiece'
  BY <1>1, <1>2 DEF IdlePiece, spilling, TypeOK
<1>10. Passed'
  <2>1. \A q \in Row : Working(q) => Working(q)' \/ Settled(q)'
    BY <1>1, <1>2 DEF Working
  <2> QED BY <1>2, <1>5, <2>1, PassedKept
<1>11. Room'
  BY <1>1, <1>2 DEF Room, TypeOK, SlotState
<1>12. ReadersCounted'
  <2>1. ASSUME NEW q \in Row
        PROVE  row'[q].readers = row[q].readers
                 + (FgCopies(q)' - FgCopies(q)) + (IdleCopies(q)' - IdleCopies(q))
    <3>1. row[q].readers \in Nat
      BY DEF TypeOK, RowState
    <3> QED BY <1>1, <1>2, <1>3, <1>5, <3>1 DEF FgCopies, IdleCopies, None
  <2> QED BY <1>2, <2>1, Counted DEF Threads
<1>13. ClosedOnlyWhilePreserving'
  BY <1>1, <1>2, <1>3, <1>5 DEF ClosedOnlyWhilePreserving, Registered, SameRange, None
<1> QED BY <1>5, <1>6, <1>8, <1>9, <1>10, <1>11, <1>12, <1>13


\* Preserve begins: the range is closed and copied, or retired for want of backing.
LEMMA PreserveBeginStep ==
  ASSUME IInv, NEW r \in Row, PreserveBegin(r)
  PROVE  IInv'
<1>1. /\ r \in fg.todo /\ fg.stage = None /\ fg.batch = {} /\ fg.await = {}
      /\ fg.pc \in {"reassign", "overwrite", "release"} /\ row[r] \in RowState
      /\ row \in [Row -> RowState]
      /\ UNCHANGED <<SlotState, Threads>> /\ UNCHANGED <<stop, idle>>
  BY DEF PreserveBegin, IInv, TypeOK
<1>2. CASE ~row[r].backed
  <2> DEFINE t == [row[r] EXCEPT !.retired = TRUE, !.closing = FALSE]
  <2>1. /\ t \in RowState /\ SameRange(row[r], t) /\ t.copied = row[r].copied
        /\ t.got = row[r].got /\ t.held = row[r].held /\ t.materialized = row[r].materialized
        /\ t.lost = row[r].lost /\ t.readers = row[r].readers /\ t.retired /\ ~t.closing
        /\ ~t.backed
    BY <1>1, <1>2 DEF RowState, SameRange
  <2>2. row' = [row EXCEPT ![r] = t]
    BY <1>1, <1>2 DEF PreserveBegin
  <2>3. fg' = [fg EXCEPT !.cur = r, !.todo = @ \ {r}, !.stage = "readers"]
    BY <1>2 DEF PreserveBegin
  <2> HIDE DEF t
  <2> QED BY <1>1, <2>1, <2>2, <2>3, TakeUp
<1>3. CASE row[r].backed /\ Complete(r)
  <2> DEFINE t == [row[r] EXCEPT !.retired = row[r].retired, !.closing = FALSE]
  <2>1. /\ t \in RowState /\ SameRange(row[r], t) /\ t.copied = row[r].copied
        /\ t.got = row[r].got /\ t.held = row[r].held /\ t.materialized = row[r].materialized
        /\ t.lost = row[r].lost /\ t.readers = row[r].readers /\ t.retired = row[r].retired
        /\ ~t.closing /\ t.backed /\ (t.materialized \/ t.retired)
    BY <1>1, <1>3 DEF RowState, SameRange, Complete
  <2>2. row' = [row EXCEPT ![r] = t]
    <3>1. row[r].retired \in BOOLEAN
      BY <1>1 DEF RowState
    <3>2. /\ (row[r].retired \/ ~row[r].backed) = row[r].retired
          /\ (row[r].backed /\ ~Complete(r)) = FALSE
      BY <1>3, <3>1
    <3>3. row' = [row EXCEPT ![r].retired = row[r].retired \/ ~row[r].backed,
                             ![r].closing = row[r].backed /\ ~Complete(r)]
      BY DEF PreserveBegin
    <3> QED BY <1>1, <3>2, <3>3
  <2>3. fg' = [fg EXCEPT !.cur = r, !.todo = @ \ {r}, !.stage = "readers"]
    BY <1>3 DEF PreserveBegin
  <2> HIDE DEF t
  <2> QED BY <1>1, <2>1, <2>2, <2>3, TakeUp
<1>4. CASE row[r].backed /\ ~Complete(r)
  <2> DEFINE t == [row[r] EXCEPT !.retired = FALSE, !.closing = TRUE]
  <2>1. /\ t \in RowState /\ SameRange(row[r], t) /\ t.copied = row[r].copied
        /\ t.got = row[r].got /\ t.held = row[r].held /\ t.materialized = row[r].materialized
        /\ t.lost = row[r].lost /\ t.readers = row[r].readers /\ t.retired = row[r].retired
        /\ t.backed /\ ~t.materialized /\ ~t.retired
    BY <1>1, <1>4 DEF RowState, SameRange, Complete
  <2>2. row' = [row EXCEPT ![r] = t]
    BY <1>1, <1>4 DEF PreserveBegin, Complete
  <2>3. fg' = [fg EXCEPT !.cur = r, !.todo = @ \ {r}, !.stage = "copy"]
    BY <1>4 DEF PreserveBegin
  <2> HIDE DEF t
  <2> QED BY <1>1, <2>1, <2>2, <2>3, TakeUp
<1> QED BY <1>2, <1>3, <1>4


\* A copy of the range r under way ends, or a piece of it: the range becomes t,
\* preservation goes on at stage g.
LEMMA CopyGoesOn ==
  ASSUME IInv, NEW r, r = fg.cur, fg.stage = "copying",
         NEW t \in RowState, NEW g \in {"readers", "copy"},
         Advance(row[r], t), t.readers = row[r].readers - 1,
         g = "readers" => ~t.closing /\ (t.materialized \/ t.retired),
         g = "copy" => ~t.materialized /\ ~t.retired,
         row' = [row EXCEPT ![r] = t], fg' = [fg EXCEPT !.stage = g],
         UNCHANGED <<SlotState, Threads>>, UNCHANGED <<stop, idle>>
  PROVE  IInv'
<1> USE DEF IInv
<1>1. /\ r \in Row /\ row[r].borrowed /\ row[r] \in RowState /\ ~spilling
      /\ fg.batch = {} /\ fg.await = {} /\ r \notin fg.todo /\ row[r].backed
      /\ fg.pc \in {"reassign", "overwrite", "release"} /\ NoRow \notin Row
  BY CurrentRange, SlotAssumption DEF None
<1>2. /\ fg'.pc = fg.pc /\ fg'.why = fg.why /\ fg'.cur = r /\ fg'.todo = fg.todo
      /\ fg'.stage = g /\ fg'.batch = {} /\ fg'.await = {}
      /\ fg'.lo = fg.lo /\ fg'.hi = fg.hi /\ fg'.next = fg.next
  BY <1>1 DEF TypeOK
<1>3. row[r].readers > 0
  BY CurrentRange DEF None
<1>4. fg'.stage # None
  BY <1>2 DEF None
<1>5. /\ row' \in [Row -> RowState] /\ Ranges' /\ Sources' /\ Pieces' /\ Referrers'
      /\ row'[r] = t /\ \A q \in Row \ {r} : row'[q] = row[q]
      /\ \A q \in Row : SameRange(row[q], row'[q])
      /\ \A q \in Row : Settled(q) => Settled(q)'
      /\ \A q \in Row : Complete(q) => Complete(q)'
  BY <1>1, <1>2, <1>3, <1>4, OneRangeStep
<1>6. TypeOK'
  BY <1>1, <1>2, <1>5 DEF TypeOK, SlotState, Threads
<1>7. (g = "copy" => ~Complete(r)') /\ (g = "readers" => Complete(r)') /\ t.backed
  BY <1>1, <1>5 DEF Complete, SameRange
<1>8. Foregrounds'
  BY <1>1, <1>2, <1>5, <1>7 DEF Foregrounds, Registered, Complete, TypeOK, None, SameRange, SlotState
<1>9. IdlePiece'
  BY <1>1, <1>2 DEF IdlePiece, spilling, TypeOK
<1>10. Passed'
  <2>1. \A q \in Row : Working(q) => Working(q)' \/ Settled(q)'
    BY <1>1, <1>2 DEF Working
  <2> QED BY <1>2, <1>5, <2>1, PassedKept
<1>11. Room'
  BY <1>1, <1>2 DEF Room, TypeOK, SlotState
<1>12. ReadersCounted'
  <2>1. ASSUME NEW q \in Row
        PROVE  row'[q].readers = row[q].readers
                 + (FgCopies(q)' - FgCopies(q)) + (IdleCopies(q)' - IdleCopies(q))
    <3>1. row[q].readers \in Nat
      BY DEF TypeOK, RowState
    <3> QED BY <1>1, <1>2, <1>3, <1>5, <3>1 DEF FgCopies, IdleCopies, None
  <2> QED BY <1>2, <2>1, Counted DEF Threads
<1>13. ClosedOnlyWhilePreserving'
  BY <1>1, <1>2, <1>3, <1>5 DEF ClosedOnlyWhilePreserving, Registered, SameRange, None
<1> QED BY <1>5, <1>6, <1>8, <1>9, <1>10, <1>11, <1>12, <1>13


\* A guard gives up on the range r, which becomes t: the exception leaves it.
LEMMA GivesUp ==
  ASSUME IInv, NEW r, r = fg.cur, fg.stage \in {"copy", "copying"}, fg.pc # "release",
         NEW t \in RowState, Advance(row[r], t), ~t.closing,
         t.readers = IF fg.stage = "copying" THEN row[r].readers - 1 ELSE row[r].readers,
         row' = [row EXCEPT ![r] = t], fg' = Refused, StopAfterRefusal,
         UNCHANGED <<SlotState, Threads>>, idle' = idle
  PROVE  IInv'
<1> USE DEF IInv
<1>1. /\ r \in Row /\ row[r].borrowed /\ row[r] \in RowState /\ ~spilling
      /\ fg.batch = {} /\ NoRow \notin Row
      /\ fg.pc \in {"reassign", "overwrite"} /\ stop' \in BOOLEAN
  BY CurrentRange, SlotAssumption DEF None, StopAfterRefusal, TypeOK
<1>2. /\ fg'.pc \in {"free", "exec"} /\ (fg'.pc = "exec" => fg.pc # "free")
      /\ fg'.stage = None /\ fg'.cur = NoRow
      /\ fg'.todo = {} /\ fg'.batch = {} /\ fg'.await = {}
  BY <1>1 DEF Refused, Idle
<1>3. fg.stage = "copying" => row[r].readers > 0
  BY CurrentRange DEF None
<1>4. Advance(row[r], t)
  OBVIOUS
<1>5. /\ row' \in [Row -> RowState] /\ Ranges' /\ Sources' /\ Pieces' /\ Referrers'
      /\ row'[r] = t /\ \A q \in Row \ {r} : row'[q] = row[q]
      /\ \A q \in Row : SameRange(row[q], row'[q])
      /\ \A q \in Row : Settled(q) => Settled(q)'
      /\ \A q \in Row : Complete(q) => Complete(q)'
  BY <1>1, <1>2, <1>3, <1>4, OneRangeStep
<1>6. TypeOK'
  BY <1>1, <1>2, <1>5, SlotAssumption DEF TypeOK, SlotState, Threads, Refused, Idle, None, NoRow, Position
<1>7. \A q \in Row : row'[q].closing => row[q].closing /\ q # r
  BY <1>1, <1>5 DEF Complete, SameRange
<1>8. Foregrounds'
  BY <1>1, <1>2, <1>5, <1>7 DEF Foregrounds, Registered, Complete, TypeOK, None, SameRange, SlotState
<1>9. IdlePiece'
  BY <1>1, <1>2 DEF IdlePiece, spilling, TypeOK
<1>10. Passed'
  BY <1>2 DEF Passed, Concerned
<1>11. Room'
  BY <1>1, <1>2 DEF Room, TypeOK, SlotState
<1>12. ReadersCounted'
  <2>1. ASSUME NEW q \in Row
        PROVE  row'[q].readers = row[q].readers
                 + (FgCopies(q)' - FgCopies(q)) + (IdleCopies(q)' - IdleCopies(q))
    <3>1. row[q].readers \in Nat
      BY DEF TypeOK, RowState
    <3> QED BY <1>1, <1>2, <1>3, <1>5, <3>1 DEF FgCopies, IdleCopies, None
  <2> QED BY <1>2, <2>1, Counted DEF Threads
<1>13. ClosedOnlyWhilePreserving'
  BY <1>1, <1>2, <1>3, <1>5 DEF ClosedOnlyWhilePreserving, Registered, SameRange, None
<1> QED BY <1>5, <1>6, <1>8, <1>9, <1>10, <1>11, <1>12, <1>13


\* The size of the next piece.
LEMMA PieceSize ==
  ASSUME TypeOK, Ranges, NEW r \in Row, row[r].borrowed
  PROVE  /\ PieceOf(r) \in Nat /\ PieceOf(r) <= Remaining(r) /\ Remaining(r) \in Nat
         /\ \A n \in Nat : Full(Copied(r, n)) <=> n = Remaining(r)
<1>1. /\ row[r].copied \in Nat /\ row[r].end \in Nat /\ row[r].first \in Nat
      /\ row[r] \in RowState /\ row[r].copied <= row[r].end - row[r].first + 1
  <2>1. row[r] \in RowState
    BY DEF TypeOK
  <2>2. row[r].copied <= row[r].end - row[r].first + 1
    BY DEF Ranges, Count
  <2> QED BY <2>1, <2>2, SlotAssumption DEF RowState, Position
<1>2. PieceOf(r) \in Nat /\ PieceOf(r) <= Remaining(r) /\ Remaining(r) \in Nat
  BY <1>1, SlotAssumption DEF PieceOf, Least, Remaining, Count
<1>3. ASSUME NEW n \in Nat
      PROVE  Full(Copied(r, n)) <=> n = Remaining(r)
  <2>1. Copied(r, n).copied = row[r].copied + n /\ Copied(r, n).end = row[r].end
        /\ Copied(r, n).first = row[r].first
    BY <1>1 DEF Copied, RowState
  <2> QED BY <1>1, <2>1 DEF Full, Remaining, Count
<1> QED BY <1>2, <1>3

\* A piece of r arrives and the copy's source pin is dropped: u is what the
\* range becomes, published if it is then complete.
LEMMA PieceArrives ==
  ASSUME IInv, NEW r \in Row, row[r].borrowed, ~Complete(r), row[r].readers > 0,
         NEW n \in Nat, n <= Remaining(r)
  PROVE  LET c == Copied(r, n)
             u == Unread(c)
             v == Unread(Published(c))
         IN /\ u \in RowState /\ Advance(row[r], u) /\ u.readers = row[r].readers - 1
            /\ ~u.materialized /\ ~u.retired /\ u.closing = row[r].closing
            /\ n = Remaining(r) =>
                 /\ v \in RowState /\ Advance(row[r], v) /\ v.readers = row[r].readers - 1
                 /\ v.materialized /\ ~v.closing /\ ~v.retired
<1> USE DEF IInv
<1> DEFINE c == Copied(r, n)
           p == Published(c)
           u == Unread(c)
           v == Unread(p)
<1>1. /\ c \in RowState
      /\ c.held = row[r].held /\ c.materialized = row[r].materialized
      /\ c.retired = row[r].retired /\ c.closing = row[r].closing /\ c.readers = row[r].readers
  BY CopiedFields
<1>2. ~c.materialized /\ ~c.retired
  BY <1>1 DEF Complete
<1>3. /\ p \in RowState /\ SameRange(c, p) /\ p.copied = c.copied /\ p.got = c.got
      /\ p.held = c.held /\ p.materialized /\ p.retired = c.retired /\ p.lost = c.lost
      /\ ~p.closing /\ p.readers = c.readers
  BY <1>1, PublishedFields
<1>4. /\ u \in RowState /\ SameRange(c, u) /\ u.copied = c.copied /\ u.got = c.got
      /\ u.held = c.held /\ u.materialized = c.materialized /\ u.retired = c.retired
      /\ u.closing = c.closing /\ u.readers = c.readers - 1
  BY <1>1, UnreadFields
<1>5. /\ v \in RowState /\ SameRange(p, v) /\ v.copied = p.copied /\ v.got = p.got
      /\ v.held = p.held /\ v.materialized = p.materialized /\ v.retired = p.retired
      /\ v.closing = p.closing /\ v.readers = p.readers - 1
  BY <1>1, <1>3, UnreadFields
<1> HIDE DEF u, v, p
<1>6. Advance(row[r], u)
  BY <1>1, <1>2, <1>4, PieceAdvances
<1>7. n = Remaining(r) => Advance(row[r], v)
  <2>1. SameRange(c, v)
    BY <1>3, <1>5 DEF SameRange
  <2> QED BY <1>1, <1>2, <1>3, <1>5, <2>1, PieceAdvances
<1> HIDE DEF c
<1>8. /\ u \in RowState /\ Advance(row[r], u) /\ u.readers = row[r].readers - 1
      /\ ~u.materialized /\ ~u.retired /\ u.closing = row[r].closing
  BY <1>1, <1>2, <1>4, <1>6
<1>9. n = Remaining(r) =>
        /\ v \in RowState /\ Advance(row[r], v) /\ v.readers = row[r].readers - 1
        /\ v.materialized /\ ~v.closing /\ ~v.retired
  BY <1>1, <1>2, <1>3, <1>5, <1>7
<1> QED BY <1>8, <1>9 DEF u, v, p, c

\* A piece arrives; the last one publishes the range.
LEMMA CopyDoneStep ==
  ASSUME IInv, CopyDone
  PROVE  IInv'
<1>1. PICK r \in Row :
      /\ r = fg.cur /\ fg.stage = "copying" /\ row[r].borrowed /\ ~Complete(r)
      /\ row[r].readers > 0
  BY CurrentRange DEF CopyDone, None
<1> DEFINE n == PieceOf(r)
           c == Copied(r, n)
<1>2. n \in Nat /\ n <= Remaining(r) /\ (Full(c) <=> n = Remaining(r))
  BY <1>1, PieceSize DEF IInv
<1>3. UNCHANGED <<SlotState, Threads>> /\ UNCHANGED <<stop, idle>>
  BY DEF CopyDone
<1>4. CASE Full(c)
  <2>1. row' = [row EXCEPT ![r] = Unread(Published(c))] /\ fg' = [fg EXCEPT !.stage = "readers"]
    BY <1>1, <1>4 DEF CopyDone
  <2>2. PICK t : /\ t = Unread(Published(c)) /\ t \in RowState /\ Advance(row[r], t)
                 /\ t.readers = row[r].readers - 1 /\ t.materialized /\ ~t.closing
    BY <1>1, <1>2, <1>4, PieceArrives
  <2> QED BY <1>1, <1>3, <2>1, <2>2, CopyGoesOn
<1>5. CASE ~Full(c)
  <2>1. row' = [row EXCEPT ![r] = Unread(c)] /\ fg' = [fg EXCEPT !.stage = "copy"]
    BY <1>1, <1>5 DEF CopyDone
  <2>2. PICK t : /\ t = Unread(c) /\ t \in RowState /\ Advance(row[r], t)
                 /\ t.readers = row[r].readers - 1 /\ ~t.materialized /\ ~t.retired
    BY <1>1, <1>2, PieceArrives
  <2> QED BY <1>1, <1>3, <2>1, <2>2, CopyGoesOn
<1> QED BY <1>4, <1>5

\* Cancellation before or after a piece: the range opens again.
LEMMA CopyCancelledStep ==
  ASSUME IInv, CopyCancelled
  PROVE  IInv'
<1>1. PICK r \in Row :
      /\ r = fg.cur /\ fg.stage \in {"copy", "copying"} /\ fg.pc # "release"
      /\ row[r].borrowed /\ ~Complete(r) /\ row[r] \in RowState
      /\ (fg.stage = "copying" => row[r].readers > 0)
  BY CurrentRange DEF CopyCancelled, None, Releasing
<1>2. UNCHANGED <<SlotState, Threads>> /\ idle' = idle /\ fg' = Refused /\ StopAfterRefusal
  BY DEF CopyCancelled
<1>3. CASE fg.stage = "copying"
  <2> DEFINE u == Unread(Copied(r, PieceOf(r)))
             t == [u EXCEPT !.closing = FALSE]
  <2>1. row' = [row EXCEPT ![r] = t]
    BY <1>1, <1>3 DEF CopyCancelled
  <2>2. /\ u \in RowState /\ Advance(row[r], u) /\ u.readers = row[r].readers - 1
        /\ ~u.materialized /\ ~u.retired
    BY <1>1, <1>3, PieceSize, PieceArrives DEF IInv
  <2> HIDE DEF u
  <2>3. /\ t \in RowState /\ SameRange(u, t) /\ t.copied = u.copied /\ t.got = u.got
        /\ t.held = u.held /\ t.materialized = u.materialized /\ t.retired = u.retired
        /\ t.lost = u.lost /\ t.readers = u.readers /\ ~t.closing
    BY <2>2 DEF RowState, SameRange
  <2> HIDE DEF t
  <2>4. Advance(row[r], t)
    <3>1. SameRange(row[r], t)
      BY <2>2, <2>3 DEF Advance, SameRange
    <3>2. t.data = u.data /\ u.data = row[r].data /\ u.first = row[r].first
      BY <2>2, <2>3 DEF Advance, SameRange
    <3>3. /\ u.copied <= row[r].end - row[r].first + 1
          /\ \A i \in row[r].first..(row[r].first + u.copied - 1) : u.got[i] = u.data[i]
          /\ (u.held => row[r].held) /\ ~row[r].materialized /\ ~row[r].retired
      BY <1>1, <2>2 DEF Advance, Complete
    <3> QED BY <1>1, <2>2, <2>3, <3>1, <3>2, <3>3 DEF Advance
  <2> QED BY <1>1, <1>2, <1>3, <2>1, <2>2, <2>3, <2>4, GivesUp
<1>4. CASE fg.stage = "copy"
  <2> DEFINE t == [row[r] EXCEPT !.closing = FALSE]
  <2>1. row' = [row EXCEPT ![r] = t]
    BY <1>1, <1>4 DEF CopyCancelled
  <2>2. /\ t \in RowState /\ SameRange(row[r], t) /\ t.copied = row[r].copied
        /\ t.got = row[r].got /\ t.held = row[r].held /\ t.materialized = row[r].materialized
        /\ t.retired = row[r].retired /\ t.lost = row[r].lost /\ t.readers = row[r].readers
        /\ ~t.closing
    BY <1>1 DEF RowState, SameRange
  <2> HIDE DEF t
  <2>3. Advance(row[r], t)
    BY <1>1, <2>2, FlagsAdvance DEF IInv, Settled, Complete
  <2> QED BY <1>1, <1>2, <1>4, <2>1, <2>2, <2>3, GivesUp
<1> QED BY <1>1, <1>3, <1>4

\* A failed copy: refused, or the range is lost when the release cannot refuse.
LEMMA CopyFailedStep ==
  ASSUME IInv, CopyFailed
  PROVE  IInv'
<1>1. PICK r \in Row :
      /\ r = fg.cur /\ fg.stage = "copying" /\ row[r].borrowed /\ ~Complete(r)
      /\ row[r] \in RowState /\ row[r].readers > 0
  BY CurrentRange DEF CopyFailed, None
<1> DEFINE u == Unread(row[r])
<1>2. /\ u \in RowState /\ SameRange(row[r], u) /\ u.copied = row[r].copied
      /\ u.got = row[r].got /\ u.held = row[r].held /\ u.materialized = row[r].materialized
      /\ u.retired = row[r].retired /\ u.lost = row[r].lost /\ u.readers = row[r].readers - 1
  BY <1>1, UnreadFields
<1>3. /\ UNCHANGED <<SlotState, Threads>> /\ idle' = idle
      /\ row' = [row EXCEPT ![r] = [u EXCEPT !.closing = FALSE,
                                             !.retired = row[r].retired \/ Releasing,
                                             !.lost = row[r].lost \/ Releasing]]
  <2>1. row' = [row EXCEPT ![fg.cur] =
                 [Unread(row[fg.cur]) EXCEPT !.closing = FALSE,
                                             !.retired = row[fg.cur].retired \/ Releasing,
                                             !.lost = row[fg.cur].lost \/ Releasing]]
    BY DEF CopyFailed
  <2>2. UNCHANGED <<SlotState, Threads>> /\ idle' = idle
    BY DEF CopyFailed
  <2> QED BY <1>1, <2>1, <2>2
<1> HIDE DEF u
<1>4. CASE Releasing
  <2> DEFINE t == [u EXCEPT !.closing = FALSE, !.retired = TRUE, !.lost = TRUE]
  <2>1. row' = [row EXCEPT ![r] = t]
    BY <1>3, <1>4
  <2>2. fg' = [fg EXCEPT !.stage = "readers"] /\ stop' = stop
    BY <1>4 DEF CopyFailed
  <2>3. t \in RowState
    <3>1. [u EXCEPT !.closing = FALSE] \in RowState
      BY <1>2 DEF RowState
    <3> QED BY <3>1 DEF RowState
  <2>4. /\ SameRange(u, t) /\ t.copied = u.copied /\ t.got = u.got
        /\ t.held = u.held /\ t.materialized = u.materialized /\ t.retired
        /\ t.lost /\ t.readers = u.readers /\ ~t.closing
    BY <1>2 DEF RowState, SameRange
  <2> HIDE DEF t
  <2>5. SameRange(row[r], t)
    BY <1>2, <2>4 DEF SameRange
  <2>6. Advance(row[r], t)
    <3>1. ~Settled(r)
      BY <1>1 DEF Settled
    <3> QED BY <1>1, <1>2, <2>3, <2>4, <2>5, <3>1, FlagsAdvance DEF IInv
  <2> QED BY <1>1, <1>2, <1>3, <2>1, <2>2, <2>3, <2>4, <2>6, CopyGoesOn
<1>5. CASE ~Releasing
  <2> DEFINE t == [u EXCEPT !.closing = FALSE, !.retired = u.retired, !.lost = u.lost]
  <2>1. row' = [row EXCEPT ![r] = t]
    <3>1. u.retired \in BOOLEAN /\ u.lost \in BOOLEAN
      BY <1>2 DEF RowState
    <3>2. (row[r].retired \/ Releasing) = u.retired /\ (row[r].lost \/ Releasing) = u.lost
      BY <1>2, <1>5, <3>1
    <3> QED BY <1>3, <3>2
  <2>2. fg' = Refused /\ StopAfterRefusal /\ fg.pc # "release"
    BY <1>5 DEF CopyFailed, Releasing
  <2>3. t \in RowState
    <3>1. [u EXCEPT !.closing = FALSE] \in RowState
      BY <1>2 DEF RowState
    <3>2. u.retired \in BOOLEAN /\ u.lost \in BOOLEAN
      BY <1>2 DEF RowState
    <3> QED BY <3>1, <3>2 DEF RowState
  <2>4. /\ SameRange(u, t) /\ t.copied = u.copied /\ t.got = u.got
        /\ t.held = u.held /\ t.materialized = u.materialized /\ t.retired = u.retired
        /\ t.lost = u.lost /\ t.readers = u.readers /\ ~t.closing
    BY <1>2 DEF RowState, SameRange
  <2> HIDE DEF t
  <2>5. SameRange(row[r], t)
    BY <1>2, <2>4 DEF SameRange
  <2>6. Advance(row[r], t)
    <3>1. ~Settled(r) /\ ~t.retired
      BY <1>1, <1>2, <2>4 DEF Settled, Complete
    <3> QED BY <1>1, <1>2, <2>3, <2>4, <2>5, <3>1, FlagsAdvance DEF IInv
  <2> QED BY <1>1, <1>2, <1>3, <2>1, <2>2, <2>3, <2>4, <2>6, GivesUp
<1> QED BY <1>4, <1>5

-----------------------------------------------------------------------------
(* Steps of the idle worker and of readers *)

\* Ranges move on while the foreground thread stays where it is.
LEMMA ForegroundKept ==
  ASSUME IInv, fg' = fg, UNCHANGED SlotState,
         \A q \in Row : SameRange(row[q], row'[q]),
         \A q \in Row : Settled(q) => Settled(q)',
         \A q \in Row : Complete(q) => Complete(q)',
         \/ fg.pc \in {"free", "drain"}
         \/ \A q \in Row : Complete(q)' => Complete(q)
  PROVE  Foregrounds' /\ Passed' /\ Room'
<1> USE DEF IInv
<1>1. Passed'
  BY PassedKept DEF Working
<1>2. Room'
  BY DEF Room, SlotState
<1>3. Foregrounds'
  <2>1. CASE fg.pc \in {"free", "drain"}
    BY <2>1 DEF Foregrounds, None
  <2>2. CASE \A q \in Row : Complete(q)' => Complete(q)
    <3>1. \A q \in Row : row'[q].borrowed = row[q].borrowed /\ row'[q].backed = row[q].backed
      BY DEF SameRange
    <3>2. Registered' = Registered
      BY <3>1 DEF Registered
    <3>3. \A q \in Row : Complete(q)' = Complete(q)
      BY <2>2 DEF Complete
    <3>4. fg.batch \subseteq Row /\ fg.await \subseteq Row /\ (fg.stage # None => fg.cur \in Row)
      BY DEF Foregrounds, Registered
    <3>5. \A q \in fg.batch : row'[q].backed /\ ~Complete(q)'
      BY <3>1, <3>3, <3>4 DEF Foregrounds
    <3>6. \A q \in fg.await : Complete(q)'
      BY <3>3, <3>4 DEF Foregrounds
    <3>7. /\ fg.stage \in {"copy", "copying"} => row'[fg.cur].backed /\ ~Complete(fg.cur)'
          /\ fg.stage = "readers" => Complete(fg.cur)'
      BY <3>1, <3>3, <3>4 DEF Foregrounds, None, Complete
    <3> QED BY <3>2, <3>5, <3>6, <3>7 DEF Foregrounds, SlotState
  <2> QED BY <2>1, <2>2
<1> QED BY <1>1, <1>2, <1>3

\* The idle worker's range, and where the foreground thread is meanwhile.
LEMMA IdleRange ==
  ASSUME IInv, spilling
  PROVE  /\ idle.cur \in Row /\ row[idle.cur].borrowed /\ row[idle.cur] \in RowState
         /\ row[idle.cur].backed /\ ~Complete(idle.cur)
         /\ (idle.pc = "copying" => row[idle.cur].readers > 0)
         /\ fg.pc \in {"free", "drain"} /\ fg.stage = None /\ fg.cur = NoRow /\ fg.batch = {}
         /\ \A q \in Registered : ~row[q].closing
<1> USE DEF IInv
<1>1. /\ idle.cur \in Registered /\ row[idle.cur].backed /\ ~Complete(idle.cur)
      /\ fg.pc \in {"free", "drain"}
  BY DEF IdlePiece
<1>2. idle.cur \in Row /\ row[idle.cur].borrowed /\ row[idle.cur] \in RowState
  BY <1>1 DEF Registered, TypeOK
<1>3. idle.pc = "copying" => row[idle.cur].readers > 0
  BY <1>2, ReadersPositive
<1>4. fg.stage = None /\ fg.cur = NoRow /\ fg.batch = {}
  BY <1>1 DEF Foregrounds
<1>5. \A q \in Registered : ~row[q].closing
  BY <1>4 DEF ClosedOnlyWhilePreserving, None
<1> QED BY <1>1, <1>2, <1>3, <1>4, <1>5

\* A step of the idle worker on its range, which becomes t.
LEMMA IdleStep ==
  ASSUME IInv, spilling, NEW r, r = idle.cur, NEW t \in RowState, Advance(row[r], t), ~t.closing,
         row' = [row EXCEPT ![r] = t], fg' = fg, stop' = stop, UNCHANGED <<SlotState, Threads>>,
         NEW k, idle' = k,
         k \in [pc : {"wait", "spill", "copying", "stopped"}, cur : Row \cup {NoRow},
                pending : BOOLEAN, failed : BOOLEAN],
         \/ k.pc = "copying" /\ k.cur = r /\ ~t.materialized /\ ~t.retired
         \/ k.pc = "wait" /\ k.cur = NoRow,
         t.readers = row[r].readers + (IF k.pc = "copying" THEN 1 ELSE 0)
                                    - (IF idle.pc = "copying" THEN 1 ELSE 0)
  PROVE  IInv'
<1> USE DEF IInv
<1>1. /\ r \in Row /\ row[r].borrowed /\ row[r] \in RowState /\ row[r].backed
      /\ fg.pc \in {"free", "drain"} /\ fg.stage = None /\ fg.cur = NoRow /\ fg.batch = {}
      /\ NoRow \notin Row /\ \A q \in Registered : ~row[q].closing
  BY IdleRange, SlotAssumption
<1>2. /\ row' \in [Row -> RowState] /\ Ranges' /\ Sources' /\ Pieces' /\ Referrers'
      /\ row'[r] = t /\ \A q \in Row \ {r} : row'[q] = row[q]
      /\ \A q \in Row : SameRange(row[q], row'[q])
      /\ \A q \in Row : Settled(q) => Settled(q)'
      /\ \A q \in Row : Complete(q) => Complete(q)'
  BY <1>1, OneRangeStep
<1>3. TypeOK'
  BY <1>2 DEF TypeOK, SlotState, Threads
<1>4. Foregrounds' /\ Passed' /\ Room'
  BY <1>1, <1>2, ForegroundKept
<1>5. IdlePiece'
  BY <1>1, <1>2 DEF IdlePiece, spilling, Registered, Complete, SameRange
<1>6. ReadersCounted'
  <2>1. ASSUME NEW q \in Row
        PROVE  row'[q].readers = row[q].readers
                 + (FgCopies(q)' - FgCopies(q)) + (IdleCopies(q)' - IdleCopies(q))
    <3>1. row[q].readers \in Nat
      BY DEF TypeOK, RowState
    <3> QED BY <1>1, <1>2, <3>1 DEF FgCopies, IdleCopies
  <2> QED BY <2>1, Counted DEF Threads
<1>7. ClosedOnlyWhilePreserving'
  BY <1>1, <1>2 DEF ClosedOnlyWhilePreserving, Registered, SameRange
<1> QED BY <1>2, <1>3, <1>4, <1>5, <1>6, <1>7

\* The idle worker pins its source and submits a piece.
LEMMA IdleCopyStartStep ==
  ASSUME IInv, IdleCopyStart
  PROVE  IInv'
<1>1. PICK r \in Row :
      /\ r = idle.cur /\ idle.pc = "spill" /\ row[r].borrowed /\ row[r] \in RowState
      /\ ~Complete(r) /\ ~row[r].closing
  BY IdleRange DEF IdleCopyStart, spilling, Registered
<1>2. /\ row' = [row EXCEPT ![r] = Read(row[r])] /\ fg' = fg /\ stop' = stop
      /\ UNCHANGED <<SlotState, Threads>> /\ idle' = [idle EXCEPT !.pc = "copying"]
  BY <1>1 DEF IdleCopyStart, Read
<1>3. PICK t \in RowState :
      /\ t = Read(row[r]) /\ SameRange(row[r], t) /\ t.copied = row[r].copied /\ t.got = row[r].got
      /\ t.held = row[r].held /\ t.materialized = row[r].materialized
      /\ t.retired = row[r].retired /\ t.lost = row[r].lost /\ t.closing = row[r].closing
      /\ t.readers = row[r].readers + 1
  BY <1>1, ReadFields
<1>4. Advance(row[r], t)
  BY <1>1, <1>3, FlagsAdvance DEF IInv, Settled, Complete
<1>5. PICK k : /\ k = idle'
               /\ k \in [pc : {"wait", "spill", "copying", "stopped"}, cur : Row \cup {NoRow},
                         pending : BOOLEAN, failed : BOOLEAN]
               /\ k.pc = "copying" /\ k.cur = r
  BY <1>1, <1>2 DEF IInv, TypeOK
<1>6. /\ t.readers = row[r].readers + (IF k.pc = "copying" THEN 1 ELSE 0)
                                    - (IF idle.pc = "copying" THEN 1 ELSE 0)
      /\ ~t.materialized /\ ~t.retired /\ ~t.closing
  BY <1>1, <1>3, <1>5 DEF Complete, RowState
<1>7. row' = [row EXCEPT ![r] = t] /\ spilling
  BY <1>1, <1>2, <1>3 DEF spilling
<1>8. fg' = fg /\ stop' = stop /\ UNCHANGED <<SlotState, Threads>>
  BY <1>2
<1> QED BY <1>1, <1>4, <1>5, <1>6, <1>7, <1>8, IdleStep

\* The idle worker's piece arrives.
LEMMA IdleCopyDoneStep ==
  ASSUME IInv, IdleCopyDone
  PROVE  IInv'
<1>1. PICK r \in Row :
      /\ r = idle.cur /\ idle.pc = "copying" /\ row[r].borrowed /\ row[r] \in RowState
      /\ ~Complete(r) /\ ~row[r].closing /\ row[r].readers > 0
  BY IdleRange DEF IdleCopyDone, spilling, Registered
<1> DEFINE n == PieceOf(r)
           c == Copied(r, n)
<1>2. n \in Nat /\ n <= Remaining(r) /\ (Full(c) <=> n = Remaining(r))
  BY <1>1, PieceSize DEF IInv
<1>3. /\ row' = [row EXCEPT ![r] = Unread(IF Full(c) THEN Published(c) ELSE c)]
      /\ fg' = fg /\ stop' = stop /\ UNCHANGED <<SlotState, Threads>>
      /\ idle' = [idle EXCEPT !.pc = "wait", !.cur = NoRow, !.failed = FALSE]
  BY <1>1 DEF IdleCopyDone
<1>4. PICK k : /\ k = idle'
               /\ k \in [pc : {"wait", "spill", "copying", "stopped"}, cur : Row \cup {NoRow},
                         pending : BOOLEAN, failed : BOOLEAN]
               /\ k.pc = "wait" /\ k.cur = NoRow
  <2>1. idle \in [pc : {"wait", "spill", "copying", "stopped"}, cur : Row \cup {NoRow},
                   pending : BOOLEAN, failed : BOOLEAN]
    BY DEF IInv, TypeOK
  <2>2. idle' = [idle EXCEPT !.pc = "wait", !.cur = NoRow, !.failed = FALSE]
    BY <1>3
  <2>3. [idle EXCEPT !.pc = "wait", !.cur = NoRow] \in
          [pc : {"wait", "spill", "copying", "stopped"}, cur : Row \cup {NoRow},
           pending : BOOLEAN, failed : BOOLEAN]
    BY <2>1
  <2>4. idle' \in [pc : {"wait", "spill", "copying", "stopped"}, cur : Row \cup {NoRow},
                    pending : BOOLEAN, failed : BOOLEAN]
    BY <2>2, <2>3
  <2>5. idle'.pc = "wait" /\ idle'.cur = NoRow
    BY <2>1, <2>2
  <2> QED BY <2>4, <2>5
<1>5. PICK t : /\ t = Unread(IF Full(c) THEN Published(c) ELSE c)
               /\ t \in RowState /\ Advance(row[r], t) /\ ~t.closing
               /\ t.readers = row[r].readers - 1
  <2>1. CASE Full(c)
    BY <1>1, <1>2, <2>1, PieceArrives
  <2>2. CASE ~Full(c)
    BY <1>1, <1>2, <2>2, PieceArrives
  <2> QED BY <2>1, <2>2
<1>6. t.readers = row[r].readers + 0 - 1
  BY <1>1, <1>5 DEF RowState
<1> QED BY <1>1, <1>3, <1>4, <1>5, <1>6, IdleStep DEF spilling

\* The idle worker's piece fails.
LEMMA IdleCopyFailedStep ==
  ASSUME IInv, IdleCopyFailed
  PROVE  IInv'
<1>1. PICK r \in Row :
      /\ r = idle.cur /\ idle.pc = "copying" /\ row[r].borrowed /\ row[r] \in RowState
      /\ ~Complete(r) /\ ~row[r].closing /\ row[r].readers > 0
  BY IdleRange DEF IdleCopyFailed, spilling, Registered
<1> DEFINE u == Unread(row[r])
           t == [u EXCEPT !.idleFailed = TRUE]
<1>2. /\ row' = [row EXCEPT ![r] = t]
      /\ fg' = fg /\ stop' = stop /\ UNCHANGED <<SlotState, Threads>>
      /\ idle' = [idle EXCEPT !.pc = "wait", !.cur = NoRow, !.failed = TRUE]
  BY <1>1 DEF IdleCopyFailed
<1>3. PICK k : /\ k = idle'
               /\ k \in [pc : {"wait", "spill", "copying", "stopped"}, cur : Row \cup {NoRow},
                         pending : BOOLEAN, failed : BOOLEAN]
               /\ k.pc = "wait" /\ k.cur = NoRow
  <2>1. idle \in [pc : {"wait", "spill", "copying", "stopped"}, cur : Row \cup {NoRow},
                   pending : BOOLEAN, failed : BOOLEAN]
    BY DEF IInv, TypeOK
  <2>2. idle' = [idle EXCEPT !.pc = "wait", !.cur = NoRow, !.failed = TRUE]
    BY <1>2
  <2>3. [idle EXCEPT !.pc = "wait", !.cur = NoRow] \in
          [pc : {"wait", "spill", "copying", "stopped"}, cur : Row \cup {NoRow},
           pending : BOOLEAN, failed : BOOLEAN]
    BY <2>1
  <2>4. idle' \in [pc : {"wait", "spill", "copying", "stopped"}, cur : Row \cup {NoRow},
                    pending : BOOLEAN, failed : BOOLEAN]
    BY <2>2, <2>3
  <2>5. idle'.pc = "wait" /\ idle'.cur = NoRow
    BY <2>1, <2>2
  <2> QED BY <2>4, <2>5
<1>4. /\ u \in RowState /\ SameRange(row[r], u) /\ u.copied = row[r].copied
      /\ u.got = row[r].got /\ u.held = row[r].held /\ u.materialized = row[r].materialized
      /\ u.retired = row[r].retired /\ u.lost = row[r].lost /\ u.closing = row[r].closing
      /\ u.readers = row[r].readers - 1
  BY <1>1, UnreadFields
<1> HIDE DEF u
<1>5. /\ t \in RowState /\ SameRange(u, t) /\ t.copied = u.copied /\ t.got = u.got
      /\ t.held = u.held /\ t.materialized = u.materialized /\ t.retired = u.retired
      /\ t.lost = u.lost /\ t.readers = u.readers /\ t.closing = u.closing
  BY <1>4 DEF RowState, SameRange
<1> HIDE DEF t
<1>6. Advance(row[r], t)
  <2>1. SameRange(row[r], t) /\ ~Settled(r) /\ ~t.retired
    BY <1>1, <1>4, <1>5 DEF SameRange, Settled, Complete
  <2> QED BY <1>1, <1>4, <1>5, <2>1, FlagsAdvance DEF IInv
<1>7. t.readers = row[r].readers + 0 - 1 /\ ~t.closing
  BY <1>1, <1>4, <1>5 DEF RowState
<1> QED BY <1>1, <1>2, <1>3, <1>5, <1>6, <1>7, IdleStep DEF spilling

\* A reader takes a source pin on r.
LEMMA PinnersAdd ==
  ASSUME pins \in [Reader -> SUBSET Row], NEW p \in Reader, NEW r, r \notin pins[p],
         pins' = [pins EXCEPT ![p] = @ \cup {r}]
  PROVE  Pinners(r)' = Pinners(r) + 1 /\ \A q : q # r => Pinners(q)' = Pinners(q)
<1> DEFINE S == {x \in Reader : r \in pins[x]}
<1>1. {x \in Reader : r \in pins'[x]} = S \cup {p} /\ p \notin S
  OBVIOUS
<1>2. IsFiniteSet(S)
  <2>1. S \in SUBSET Reader
    OBVIOUS
  <2> QED BY <2>1, SlotAssumption, FS_Subset
<1>3. Cardinality(S \cup {p}) = Cardinality(S) + 1
  BY <1>1, <1>2, FS_AddElement
<1>4. ASSUME NEW q, q # r
      PROVE  {x \in Reader : q \in pins'[x]} = {x \in Reader : q \in pins[x]}
  BY <1>4
<1> QED BY <1>1, <1>3, <1>4 DEF Pinners

\* A reader drops its source pin on r.
LEMMA PinnersRemove ==
  ASSUME pins \in [Reader -> SUBSET Row], NEW p \in Reader, NEW r, r \in pins[p],
         pins' = [pins EXCEPT ![p] = @ \ {r}]
  PROVE  Pinners(r)' = Pinners(r) - 1 /\ \A q : q # r => Pinners(q)' = Pinners(q)
<1> DEFINE S == {x \in Reader : r \in pins[x]}
<1>1. {x \in Reader : r \in pins'[x]} = S \ {p} /\ p \in S
  OBVIOUS
<1>2. IsFiniteSet(S)
  <2>1. S \in SUBSET Reader
    OBVIOUS
  <2> QED BY <2>1, SlotAssumption, FS_Subset
<1>3. Cardinality(S \ {p}) = Cardinality(S) - 1
  BY <1>1, <1>2, FS_RemoveElement
<1>4. ASSUME NEW q, q # r
      PROVE  {x \in Reader : q \in pins'[x]} = {x \in Reader : q \in pins[x]}
  BY <1>4
<1> QED BY <1>1, <1>3, <1>4 DEF Pinners

\* The count when source pins change and copies do not.
LEMMA CountedPins ==
  ASSUME TypeOK, ReadersCounted, UNCHANGED <<fg, idle>>,
         \A r \in Row : row'[r].readers = row[r].readers + (Pinners(r)' - Pinners(r))
  PROVE  ReadersCounted'
<1> SUFFICES ASSUME NEW r \in Row
             PROVE  row'[r].readers = Pinners(r)' + FgCopies(r)' + IdleCopies(r)'
  BY DEF ReadersCounted, Pinners, FgCopies, IdleCopies
<1>1. Pinners(r) \in Nat /\ Pinners(r)' \in Nat
  <2>1. \A S \in SUBSET Reader : Cardinality(S) \in Nat
    BY SlotAssumption, FS_Subset, FS_CardinalityType
  <2> QED BY <2>1 DEF Pinners
<1>2. row[r].readers = Pinners(r) + FgCopies(r) + IdleCopies(r)
  BY DEF ReadersCounted, Pinners, FgCopies, IdleCopies
<1>3. /\ FgCopies(r) \in Nat /\ IdleCopies(r) \in Nat
      /\ FgCopies(r)' = FgCopies(r) /\ IdleCopies(r)' = IdleCopies(r)
  BY DEF FgCopies, IdleCopies
<1> QED BY <1>1, <1>2, <1>3

\* A reader's step on the range r, which becomes t.
LEMMA ReaderStep ==
  ASSUME IInv, NEW r \in Row, row[r].borrowed, NEW t \in RowState, Advance(row[r], t),
         t.materialized = row[r].materialized, t.retired = row[r].retired,
         t.closing = row[r].closing,
         row' = [row EXCEPT ![r] = t], UNCHANGED <<fg, stop, idle, chk>>, UNCHANGED SlotState,
         pins' \in [Reader -> SUBSET Row], want' \in [Reader -> Row \cup {NoRow}],
         \A p \in Reader : want'[p] # NoRow => want'[p] = want[p] /\ pins'[p] = pins[p],
         \A q \in Row : row'[q].readers = row[q].readers + (Pinners(q)' - Pinners(q))
  PROVE  IInv'
<1> USE DEF IInv
<1>1. Advances /\ row'[r] = t /\ \A q \in Row \ {r} : row'[q] = row[q]
  BY OneRow
<1>2. Ranges' /\ Sources' /\ Pieces'
  BY <1>1, AdvanceKeeps DEF SlotState
<1>3. /\ \A q \in Row : SameRange(row[q], row'[q])
      /\ \A q \in Row : Settled(q) => Settled(q)'
      /\ \A q \in Row : Complete(q)' = Complete(q)
      /\ \A q \in Row : row'[q].closing = row[q].closing
  <2>1. \A q \in Row : Advance(row[q], row'[q])
    BY <1>1 DEF Advances
  <2> QED BY <1>1, <2>1 DEF Advance, Settled, Complete
<1>4. TypeOK'
  BY <1>1 DEF TypeOK, SlotState, Advances
<1>5. Foregrounds' /\ Passed' /\ Room'
  BY <1>3, ForegroundKept
<1>6. IdlePiece'
  BY <1>3 DEF IdlePiece, spilling, Registered, SameRange, Complete
<1>7. Referrers'
  <2>1. \A q \in Row : row'[q].borrowed = row[q].borrowed
    BY <1>3 DEF SameRange
  <2>2. \A p \in Reader : want'[p] # NoRow => row'[want'[p]].borrowed /\ want'[p] \notin pins'[p]
    BY <2>1 DEF Referrers, TypeOK
  <2>3. \A c \in Checker : chk[c].row # NoRow =>
          row'[chk[c].row].borrowed /\ (Complete(chk[c].row) => Complete(chk[c].row)')
    <3> SUFFICES ASSUME NEW c \in Checker, chk[c].row # NoRow
                 PROVE  row'[chk[c].row].borrowed /\ (Complete(chk[c].row) => Complete(chk[c].row)')
      OBVIOUS
    <3>1. chk[c].row \in Row /\ row[chk[c].row].borrowed
      BY DEF TypeOK, Referrers
    <3> QED BY <1>3, <2>1, <3>1 DEF Complete
  <2>4. chk' = chk
    OBVIOUS
  <2> QED BY <2>2, <2>3, <2>4 DEF Referrers, Complete
<1>8. ReadersCounted'
  BY CountedPins
<1>9. ClosedOnlyWhilePreserving'
  BY <1>3 DEF ClosedOnlyWhilePreserving, Registered, SameRange
<1> QED BY <1>2, <1>4, <1>5, <1>6, <1>7, <1>8, <1>9

\* BorrowedRows::Pin admits a reader to the slot.
LEMMA PinSourceStep ==
  ASSUME IInv, NEW p \in Reader, PinSource(p)
  PROVE  IInv'
<1>1. PICK r \in Row :
      /\ r = want[p] /\ row[r].borrowed /\ row[r] \in RowState /\ ~Complete(r) /\ r \notin pins[p]
      /\ pins \in [Reader -> SUBSET Row] /\ want \in [Reader -> Row \cup {NoRow}]
  BY DEF PinSource, IInv, TypeOK, Referrers
<1>2. /\ row' = [row EXCEPT ![r] = Read(row[r])]
      /\ pins' = [pins EXCEPT ![p] = @ \cup {r}] /\ want' = [want EXCEPT ![p] = NoRow]
      /\ UNCHANGED <<fg, stop, idle, chk>> /\ UNCHANGED SlotState
  BY <1>1 DEF PinSource, Read
<1>3. PICK t \in RowState :
      /\ t = Read(row[r]) /\ SameRange(row[r], t) /\ t.copied = row[r].copied /\ t.got = row[r].got
      /\ t.held = row[r].held /\ t.materialized = row[r].materialized
      /\ t.retired = row[r].retired /\ t.lost = row[r].lost /\ t.closing = row[r].closing
      /\ t.readers = row[r].readers + 1
  BY <1>1, ReadFields
<1>4. Advance(row[r], t)
  BY <1>1, <1>3, FlagsAdvance DEF IInv, Settled, Complete
<1>5. /\ pins' \in [Reader -> SUBSET Row] /\ want' \in [Reader -> Row \cup {NoRow}]
      /\ \A q \in Reader : want'[q] # NoRow => want'[q] = want[q] /\ pins'[q] = pins[q]
  BY <1>1, <1>2
<1>6. row' = [row EXCEPT ![r] = t]
  BY <1>2, <1>3
<1>7. \A q \in Row : row'[q].readers = row[q].readers + (Pinners(q)' - Pinners(q))
  <2>1. Pinners(r)' = Pinners(r) + 1 /\ \A q : q # r => Pinners(q)' = Pinners(q)
    BY <1>1, <1>2, PinnersAdd
  <2>2. \A q \in Row : Pinners(q) \in Nat /\ row[q].readers \in Nat
    BY PinnersNat DEF IInv, TypeOK, RowState
  <2>3. row'[r] = t /\ \A q \in Row \ {r} : row'[q] = row[q]
    BY <1>6 DEF IInv, TypeOK
  <2> QED BY <1>3, <2>1, <2>2, <2>3
<1> QED BY <1>1, <1>2, <1>3, <1>4, <1>5, <1>6, <1>7, ReaderStep

\* RowPin::Release.
LEMMA UnpinStep ==
  ASSUME IInv, NEW p \in Reader, NEW r \in Row, Unpin(p, r)
  PROVE  IInv'
<1>1. /\ row[r] \in RowState /\ r \in pins[p] /\ want[p] = NoRow
      /\ pins \in [Reader -> SUBSET Row] /\ want \in [Reader -> Row \cup {NoRow}]
  BY DEF Unpin, IInv, TypeOK
<1>2. row[r].readers > 0
  BY <1>1, ReadersPositive DEF IInv
<1>3. row[r].borrowed
  BY <1>2 DEF IInv, Ranges, Unborrowed
<1> DEFINE t == Unread(row[r])
<1>4. /\ row' = [row EXCEPT ![r] = t]
      /\ pins' = [pins EXCEPT ![p] = @ \ {r}] /\ want' = want
      /\ UNCHANGED <<fg, stop, idle, chk>> /\ UNCHANGED SlotState
  BY DEF Unpin
<1>5. /\ t \in RowState /\ SameRange(row[r], t) /\ t.copied = row[r].copied /\ t.got = row[r].got
      /\ t.held = row[r].held /\ t.materialized = row[r].materialized
      /\ t.retired = row[r].retired /\ t.lost = row[r].lost /\ t.closing = row[r].closing
      /\ t.readers = row[r].readers - 1
  BY <1>1, <1>2, UnreadFields
<1> HIDE DEF t
<1>6. Advance(row[r], t)
  <2>1. ~Settled(r) /\ (t.retired /\ t.backed => t.lost)
    BY <1>2, <1>3, <1>5 DEF Settled, IInv, Pieces, Registered, SameRange
  <2> QED BY <1>3, <1>5, <2>1, FlagsAdvance DEF IInv
<1>7. /\ pins' \in [Reader -> SUBSET Row] /\ want' \in [Reader -> Row \cup {NoRow}]
      /\ \A q \in Reader : want'[q] # NoRow => want'[q] = want[q] /\ pins'[q] = pins[q]
  BY <1>1, <1>4
<1>8. \A q \in Row : row'[q].readers = row[q].readers + (Pinners(q)' - Pinners(q))
  <2>1. Pinners(r)' = Pinners(r) - 1 /\ \A q : q # r => Pinners(q)' = Pinners(q)
    BY <1>1, <1>4, PinnersRemove
  <2>2. \A q \in Row : Pinners(q) \in Nat /\ row[q].readers \in Nat
    BY PinnersNat DEF IInv, TypeOK, RowState
  <2>3. row'[r] = t /\ \A q \in Row \ {r} : row'[q] = row[q]
    BY <1>4 DEF IInv, TypeOK
  <2> QED BY <1>5, <2>1, <2>2, <2>3
<1> QED BY <1>3, <1>4, <1>5, <1>6, <1>7, <1>8, ReaderStep

\* The checkpoint drops its handle.
LEMMA DropRowsStep ==
  ASSUME IInv, NEW r \in Row, DropRows(r)
  PROVE  IInv'
<1> DEFINE t == [row[r] EXCEPT !.held = FALSE]
<1>1. /\ row[r] \in RowState /\ row[r].borrowed
      /\ pins \in [Reader -> SUBSET Row] /\ want \in [Reader -> Row \cup {NoRow}]
  BY DEF DropRows, IInv, TypeOK, Ranges
<1>2. /\ row' = [row EXCEPT ![r] = t] /\ pins' = pins /\ want' = want
      /\ UNCHANGED <<fg, stop, idle, chk>> /\ UNCHANGED SlotState
  BY DEF DropRows, Threads
<1>3. /\ t \in RowState /\ SameRange(row[r], t) /\ t.copied = row[r].copied /\ t.got = row[r].got
      /\ ~t.held /\ t.materialized = row[r].materialized
      /\ t.retired = row[r].retired /\ t.lost = row[r].lost /\ t.closing = row[r].closing
      /\ t.readers = row[r].readers
  BY <1>1 DEF RowState, SameRange
<1> HIDE DEF t
<1>4. Advance(row[r], t)
  <2>1. (Settled(r) => t.readers = 0) /\ (t.retired /\ t.backed => t.lost)
    BY <1>1, <1>3 DEF Settled, IInv, Pieces, Registered, SameRange
  <2> QED BY <1>1, <1>3, <2>1, FlagsAdvance DEF IInv
<1>5. \A q \in Row : row'[q].readers = row[q].readers + (Pinners(q)' - Pinners(q))
  <2>1. \A q \in Row : Pinners(q) \in Nat /\ row[q].readers \in Nat /\ Pinners(q)' = Pinners(q)
    BY <1>2, PinnersNat DEF IInv, TypeOK, RowState, Pinners
  <2>2. row'[r] = t /\ \A q \in Row \ {r} : row'[q] = row[q]
    BY <1>2 DEF IInv, TypeOK
  <2> QED BY <1>3, <2>1, <2>2
<1> QED BY <1>1, <1>2, <1>3, <1>4, <1>5, ReaderStep

-----------------------------------------------------------------------------
(* The batched reassignment *)

\* A range joins the batch without being awaited.
LEMMA BatchSubmitStep ==
  ASSUME IInv, NEW r \in Row, BatchSubmit(r)
  PROVE  IInv'
<1> USE DEF IInv
<1>1. /\ r \in fg.todo /\ fg.pc = "reassign" /\ fg.stage = None /\ fg.await = {}
      /\ row[r].borrowed /\ row[r].backed /\ ~Complete(r) /\ row[r] \in RowState
      /\ r \notin fg.batch /\ fg.cur = NoRow /\ NoRow \notin Row /\ ~spilling
      /\ fg.todo \subseteq Row /\ fg.batch \subseteq Row
  BY SlotAssumption DEF BatchSubmit, Batchable, Foregrounds, Registered, TypeOK, IdlePiece
<1> DEFINE t == [row[r] EXCEPT !.readers = @ + 1, !.closing = TRUE]
<1>2. /\ row' = [row EXCEPT ![r] = t]
      /\ fg' = [fg EXCEPT !.todo = @ \ {r}, !.batch = @ \cup {r}]
      /\ UNCHANGED <<SlotState, Threads>> /\ UNCHANGED <<stop, idle>>
  <2>1. row \in [Row -> RowState]
    BY DEF TypeOK
  <2> QED BY <2>1 DEF BatchSubmit
<1>3. /\ t \in RowState /\ SameRange(row[r], t) /\ t.copied = row[r].copied /\ t.got = row[r].got
      /\ t.held = row[r].held /\ t.materialized = row[r].materialized
      /\ t.retired = row[r].retired /\ t.lost = row[r].lost /\ t.readers = row[r].readers + 1
  <2>1. t \in RowState
    <3>1. [row[r] EXCEPT !.readers = @ + 1] \in RowState
      BY <1>1 DEF RowState
    <3> QED BY <3>1 DEF RowState
  <2>2. row[r] \in RowState
    BY <1>1
  <2> QED BY <2>1, <2>2 DEF RowState, SameRange
<1> HIDE DEF t
<1>4. Advance(row[r], t)
  <2>1. ~Settled(r) /\ ~t.retired
    BY <1>1, <1>3 DEF Settled, Complete
  <2> QED BY <1>1, <1>3, <2>1, FlagsAdvance
<1>5. /\ row' \in [Row -> RowState] /\ Ranges' /\ Sources' /\ Pieces' /\ Referrers'
      /\ row'[r] = t /\ \A q \in Row \ {r} : row'[q] = row[q]
      /\ \A q \in Row : SameRange(row[q], row'[q])
      /\ \A q \in Row : Settled(q) => Settled(q)'
      /\ \A q \in Row : Complete(q) => Complete(q)'
  BY <1>1, <1>2, <1>3, <1>4, OneRangeStep
<1>6. /\ fg'.pc = fg.pc /\ fg'.why = fg.why /\ fg'.cur = fg.cur /\ fg'.todo = fg.todo \ {r}
      /\ fg'.stage = fg.stage /\ fg'.batch = fg.batch \cup {r} /\ fg'.await = fg.await
      /\ fg'.lo = fg.lo /\ fg'.hi = fg.hi /\ fg'.next = fg.next
  BY <1>2 DEF TypeOK
<1>7. TypeOK'
  BY <1>1, <1>2, <1>5 DEF TypeOK, SlotState, Threads
<1>8. /\ \A q \in Row : Complete(q)' = Complete(q)
      /\ \A q \in Row : row'[q].borrowed = row[q].borrowed /\ row'[q].backed = row[q].backed
  BY <1>3, <1>5 DEF Complete, SameRange
<1>9. Foregrounds'
  BY <1>1, <1>6, <1>8 DEF Foregrounds, Registered, None
<1>10. IdlePiece'
  BY <1>1, <1>2, <1>6 DEF IdlePiece, spilling
<1>11. Passed'
  <2>1. \A q \in Row : Working(q) => Working(q)' \/ Settled(q)'
    BY <1>6 DEF Working
  <2> QED BY <1>5, <1>6, <2>1, PassedKept
<1>12. Room'
  BY <1>2, <1>6 DEF Room, SlotState
<1>13. ReadersCounted'
  <2>1. ASSUME NEW q \in Row
        PROVE  row'[q].readers = row[q].readers
                 + (FgCopies(q)' - FgCopies(q)) + (IdleCopies(q)' - IdleCopies(q))
    <3>1. row[q].readers \in Nat
      BY DEF TypeOK, RowState
    <3> QED BY <1>1, <1>2, <1>3, <1>5, <1>6, <3>1 DEF FgCopies, IdleCopies, None
  <2> QED BY <1>2, <2>1, Counted DEF Threads
<1>14. ClosedOnlyWhilePreserving'
  BY <1>1, <1>5, <1>6, <1>8 DEF ClosedOnlyWhilePreserving, Registered
<1> QED BY <1>5, <1>7, <1>9, <1>10, <1>11, <1>12, <1>13, <1>14

\* What the batch leaves behind: the ranges in ok are published, the others are
\* open again, and no copy keeps its source pin.
LEMMA BatchSettles ==
  ASSUME IInv, NEW ok \in SUBSET fg.batch, row' = BatchSettled(ok)
  PROVE  /\ Advances
         /\ \A q \in Row \ fg.batch : row'[q] = row[q]
         /\ \A q \in fg.batch : /\ row'[q].readers = row[q].readers - 1 /\ ~row'[q].closing
                                /\ (q \in ok <=> row'[q].materialized) /\ ~row'[q].retired
<1> USE DEF IInv
<1>1. row \in [Row -> RowState] /\ fg.batch \subseteq Row
  BY DEF TypeOK
<1>2. ASSUME NEW q \in Row \ fg.batch
      PROVE  row'[q] = row[q] /\ Advance(row[q], row'[q]) /\ row'[q] \in RowState
  <2>1. row'[q] = row[q]
    BY <1>2 DEF BatchSettled
  <2> QED BY <1>1, <1>2, <2>1 DEF Ranges, Pieces, Registered, Count, Advance, SameRange
<1>3. ASSUME NEW q \in fg.batch
      PROVE  /\ row'[q] \in RowState /\ Advance(row[q], row'[q])
             /\ row'[q].readers = row[q].readers - 1 /\ ~row'[q].closing
             /\ (q \in ok <=> row'[q].materialized) /\ ~row'[q].retired
  <2>1. /\ q \in Row /\ row[q] \in RowState /\ row[q].borrowed /\ ~Complete(q)
        /\ row[q].readers > 0
    BY <1>1, <1>3, ReadersPositive DEF Foregrounds, Registered
  <2>2. CASE q \in ok
    <3>1. row'[q] = Unread(Published(Copied(q, Remaining(q))))
      BY <2>1, <2>2 DEF BatchSettled
    <3>2. Remaining(q) \in Nat /\ Remaining(q) <= Remaining(q)
      BY <2>1, PieceSize
    <3> DEFINE v == Unread(Published(Copied(q, Remaining(q))))
    <3>3. /\ v \in RowState /\ Advance(row[q], v) /\ v.readers = row[q].readers - 1
          /\ v.materialized /\ ~v.closing /\ ~v.retired
      BY <2>1, <3>2, PieceArrives
    <3> HIDE DEF v
    <3> QED BY <2>2, <3>1, <3>3 DEF v
  <2>3. CASE q \notin ok
    <3> DEFINE u == Unread(row[q])
               t == [u EXCEPT !.closing = FALSE]
    <3>1. row'[q] = t
      BY <2>1, <2>3 DEF BatchSettled
    <3>2. /\ u \in RowState /\ SameRange(row[q], u) /\ u.copied = row[q].copied
          /\ u.got = row[q].got /\ u.held = row[q].held /\ u.materialized = row[q].materialized
          /\ u.retired = row[q].retired /\ u.lost = row[q].lost /\ u.readers = row[q].readers - 1
      BY <2>1, UnreadFields
    <3> HIDE DEF u
    <3>3. /\ t \in RowState /\ SameRange(u, t) /\ t.copied = u.copied /\ t.got = u.got
          /\ t.held = u.held /\ t.materialized = u.materialized /\ t.retired = u.retired
          /\ t.lost = u.lost /\ t.readers = u.readers /\ ~t.closing
      BY <3>2 DEF RowState, SameRange
    <3> HIDE DEF t
    <3>4. SameRange(row[q], t) /\ ~Settled(q) /\ ~t.retired /\ ~t.materialized
      BY <2>1, <3>2, <3>3 DEF SameRange, Settled, Complete
    <3>5. Advance(row[q], t)
      BY <2>1, <3>2, <3>3, <3>4, FlagsAdvance
    <3> QED BY <2>3, <3>1, <3>2, <3>3, <3>4, <3>5
  <2> QED BY <2>2, <2>3
<1>4. row' \in [Row -> RowState]
  <2>1. DOMAIN row' = Row /\ row' = [q \in Row |-> row'[q]]
    BY DEF BatchSettled
  <2> QED BY <1>1, <1>2, <1>3, <2>1
<1> QED BY <1>1, <1>2, <1>3, <1>4 DEF Advances

\* The batch is published as a whole.
LEMMA BatchFinishStep ==
  ASSUME IInv, BatchFinish
  PROVE  IInv'
<1> USE DEF IInv
<1>1. /\ fg.pc = "reassign" /\ fg.batch # {} /\ fg.stage = None /\ fg.cur = NoRow
      /\ NoRow \notin Row /\ ~spilling /\ fg.batch \subseteq Row /\ fg.batch \subseteq Registered
      /\ row' = BatchSettled(fg.batch)
      /\ UNCHANGED <<SlotState, Threads>> /\ UNCHANGED <<stop, idle>>
  BY SlotAssumption DEF BatchFinish, Foregrounds, TypeOK, IdlePiece
<1>2. /\ fg'.pc = fg.pc /\ fg'.why = fg.why /\ fg'.cur = fg.cur /\ fg'.todo = fg.todo
      /\ fg'.stage = fg.stage /\ fg'.batch = {} /\ fg'.await = fg.batch
      /\ fg'.lo = fg.lo /\ fg'.hi = fg.hi /\ fg'.next = fg.next
  BY DEF TypeOK, BatchFinish
<1>3. /\ Advances
      /\ \A q \in Row \ fg.batch : row'[q] = row[q]
      /\ \A q \in fg.batch : row'[q].readers = row[q].readers - 1 /\ ~row'[q].closing
                             /\ row'[q].materialized
  BY <1>1, BatchSettles
<1>4. Ranges' /\ Sources' /\ Pieces' /\ Referrers'
  BY <1>1, <1>3, AdvanceKeeps, ReferrersKept DEF SlotState, Threads
<1>5. /\ \A q \in Row : SameRange(row[q], row'[q])
      /\ \A q \in Row : Settled(q) => Settled(q)'
      /\ \A q \in Row : Complete(q) => Complete(q)'
  <2>1. \A q \in Row : Advance(row[q], row'[q])
    BY <1>3 DEF Advances
  <2> QED BY <2>1 DEF Advance, Settled, Complete
<1>6. TypeOK'
  <2>1. fg' = [fg EXCEPT !.batch = {}, !.await = fg.batch]
    BY DEF BatchFinish
  <2> QED BY <1>1, <1>3, <2>1 DEF TypeOK, SlotState, Threads, Advances
<1>7. /\ \A q \in Row : row'[q].borrowed = row[q].borrowed
      /\ \A q \in fg.batch : Complete(q)'
  BY <1>3, <1>5 DEF SameRange, Complete
<1>8. Foregrounds'
  BY <1>1, <1>2, <1>7 DEF Foregrounds, Registered, None
<1>9. IdlePiece'
  BY <1>1, <1>2 DEF IdlePiece, spilling
<1>10. Passed'
  <2>1. \A q \in Row : Working(q) => Working(q)' \/ Settled(q)'
    <3>1. fg.await = {}
      BY <1>1 DEF Foregrounds
    <3> QED BY <1>2, <3>1 DEF Working
  <2> QED BY <1>2, <1>5, <2>1, PassedKept
<1>11. Room'
  BY <1>1, <1>2 DEF Room, SlotState
<1>12. ReadersCounted'
  <2>1. ASSUME NEW q \in Row
        PROVE  row'[q].readers = row[q].readers
                 + (FgCopies(q)' - FgCopies(q)) + (IdleCopies(q)' - IdleCopies(q))
    <3>1. row[q].readers \in Nat
      BY DEF TypeOK, RowState
    <3> QED BY <1>1, <1>2, <1>3, <3>1 DEF FgCopies, IdleCopies, None
  <2> QED BY <1>1, <2>1, Counted DEF Threads
<1>13. ClosedOnlyWhilePreserving'
  BY <1>1, <1>2, <1>3, <1>7 DEF ClosedOnlyWhilePreserving, Registered
<1> QED BY <1>4, <1>6, <1>8, <1>9, <1>10, <1>11, <1>12, <1>13

-----------------------------------------------------------------------------
(* Steps that change the foreground thread and leave the ranges alone *)

\* The states of the foreground thread.
FgState ==
  [pc : {"free", "drain", "reassign", "release", "create", "exec", "overwrite", "committed"},
   why : {None, "live", "cold", "reset", "drop"}, stage : {None, "copy", "copying", "readers"},
   cur : Row \cup {NoRow}, todo : SUBSET Row, batch : SUBSET Row, await : SUBSET Row,
   lo : Position, hi : 0..MaxRows, next : 0..MaxRows]

\* The foreground thread copies nothing.
Quiet == fg.batch = {} /\ fg.stage \notin {"copy", "copying"}

\* The fields of a thread between two guards.
LEMMA IdleFields ==
  ASSUME NEW pc \in {"free", "drain", "reassign", "release", "create", "exec", "overwrite",
                     "committed"}
  PROVE  /\ Idle(pc) \in FgState /\ Idle(pc).pc = pc /\ Idle(pc).stage = None
         /\ Idle(pc).cur = NoRow /\ Idle(pc).todo = {} /\ Idle(pc).batch = {}
         /\ Idle(pc).await = {} /\ Idle(pc).why = None
BY SlotAssumption DEF Idle, FgState, Position

\* A foreground thread that copies nothing leaves every range open.
LEMMA QuietOpen ==
  ASSUME IInv, Quiet
  PROVE  \A r \in Registered : ~row[r].closing
BY DEF IInv, Quiet, ClosedOnlyWhilePreserving

\* Ranges, slot and other threads stay as they are.
LEMMA RowsAlone ==
  ASSUME IInv, row' = row, UNCHANGED <<content, gen, created, valid, bound>>, UNCHANGED Threads
  PROVE  Ranges' /\ Sources' /\ Pieces' /\ Referrers'
BY SameRows, AdvanceKeeps, ReferrersKept DEF IInv

\* The foreground thread goes from one place outside Preserve to another, g.
LEMMA NewForeground ==
  ASSUME IInv, Quiet, row' = row, pins' = pins, idle'.pc = idle.pc, idle'.cur = idle.cur,
         NEW g, fg' = g, g.stage = None, g.cur = NoRow, g.batch = {}, g.await = {},
         g.todo \subseteq Registered,
         g.pc \notin {"reassign", "overwrite", "release"} => g.todo = {},
         spilling => g.pc \in {"free", "drain"},
         g.pc = "overwrite" => valid' <= g.next \/ (g.lo = 1 /\ g.hi = MaxRows),
         \A r \in Registered : Concerned(r)' => r \in g.todo \/ Settled(r)
  PROVE  Foregrounds' /\ IdlePiece' /\ Passed' /\ ReadersCounted' /\ ClosedOnlyWhilePreserving'
<1> USE DEF IInv
<1>1. Registered' = Registered /\ Registered \subseteq Row /\ NoRow \notin Row
  BY SlotAssumption DEF Registered
<1>2. Foregrounds'
  BY <1>1 DEF Foregrounds, None
<1>3. IdlePiece'
  BY <1>1 DEF IdlePiece, spilling, Complete
<1>4. Passed'
  BY <1>1 DEF Passed, Working, Settled, Complete
<1>5. ReadersCounted'
  <2>1. ASSUME NEW q \in Row
        PROVE  row'[q].readers = row[q].readers
                 + (FgCopies(q)' - FgCopies(q)) + (IdleCopies(q)' - IdleCopies(q))
    <3>1. row[q].readers \in Nat
      BY DEF TypeOK, RowState
    <3>2. FgCopies(q)' = 0 /\ FgCopies(q) = 0
      BY DEF FgCopies, Quiet, None
    <3>3. IdleCopies(q)' = IdleCopies(q) /\ IdleCopies(q) \in Nat
      BY DEF IdleCopies
    <3> QED BY <3>1, <3>2, <3>3
  <2> QED BY <2>1, Counted
<1>6. ClosedOnlyWhilePreserving'
  BY <1>1, QuietOpen DEF ClosedOnlyWhilePreserving
<1> QED BY <1>2, <1>3, <1>4, <1>5, <1>6

\* The thread is outside the guards.
LEMMA Outside ==
  ASSUME IInv, fg.pc \notin {"reassign", "overwrite", "release"}
  PROVE  Quiet /\ fg.stage = None /\ fg.cur = NoRow
BY DEF IInv, Foregrounds, Quiet, None

\* The thread is in a guard, between two ranges.
LEMMA Between ==
  ASSUME IInv, fg.stage = None, fg.batch = {}
  PROVE  Quiet /\ fg.cur = NoRow
BY DEF IInv, Foregrounds, Quiet, None

\* Typing of a step that changes the foreground thread and, at most, the stop token.
LEMMA FgTyped ==
  ASSUME IInv, row' = row, UNCHANGED <<SlotState, Threads>>, idle' = idle, stop' \in BOOLEAN,
         fg' \in FgState
  PROVE  TypeOK'
BY DEF IInv, TypeOK, FgState, SlotState, Threads

\* LeasedSlot::Acquire claims the slot, live or cold.
LEMMA AcquireStep ==
  ASSUME IInv, Acquire
  PROVE  IInv'
<1> USE DEF IInv
<1>1. PICK w \in {"live", "cold"} :
      /\ fg.pc = "free" /\ gen < MaxGen /\ (w = "cold" => gen + 1 < MaxGen)
      /\ fg' = [Idle("drain") EXCEPT !.why = w]
      /\ row' = row /\ UNCHANGED <<SlotState, Threads>> /\ UNCHANGED <<stop, idle>>
  BY SlotAssumption DEF Acquire, AcquireLive, AcquireCold, Leased, TypeOK
<1>2. PICK g : /\ g = fg' /\ g \in FgState /\ g.pc = "drain" /\ g.why = w /\ g.stage = None
               /\ g.cur = NoRow /\ g.todo = {} /\ g.batch = {} /\ g.await = {}
  BY <1>1, IdleFields DEF FgState
<1>3. TypeOK' /\ Ranges' /\ Sources' /\ Pieces' /\ Referrers'
  BY <1>1, <1>2, FgTyped, RowsAlone DEF TypeOK, SlotState
<1>4. Foregrounds' /\ IdlePiece' /\ Passed' /\ ReadersCounted' /\ ClosedOnlyWhilePreserving'
  <2>1. Quiet
    <3>1. fg.pc \notin {"reassign", "overwrite", "release"}
      BY <1>1
    <3> QED BY <3>1, Outside
  <2>2. \A r \in Registered : ~Concerned(r)'
    BY <1>2 DEF Concerned
  <2> QED BY <1>1, <1>2, <2>1, <2>2, NewForeground DEF Threads
<1>5. Room'
  BY <1>1, <1>2 DEF Room, SlotState
<1> QED BY <1>3, <1>4, <1>5

\* The stop token is triggered.
LEMMA RequestStopStep ==
  ASSUME IInv, RequestStop
  PROVE  IInv'
<1> USE DEF IInv
<1>1. /\ stop' = TRUE /\ UNCHANGED <<row, fg, idle>> /\ UNCHANGED <<SlotState, Threads>>
  BY DEF RequestStop
<1>2. TypeOK'
  BY <1>1 DEF TypeOK, SlotState, Threads
<1>3. Ranges' /\ Sources' /\ Pieces' /\ Referrers'
  BY <1>1, RowsAlone DEF SlotState
<1>4. Foregrounds' /\ IdlePiece' /\ Passed' /\ Room'
  BY <1>1 DEF Foregrounds, IdlePiece, Passed, Room, Registered, Complete, Settled, Concerned,
              Working, spilling, SlotState
<1>5. ReadersCounted' /\ ClosedOnlyWhilePreserving'
  BY <1>1 DEF ReadersCounted, ClosedOnlyWhilePreserving, Registered, Threads
<1> QED BY <1>2, <1>3, <1>4, <1>5

\* The idle piece is over: the lease executes or reassigns.
LEMMA ClaimedStep ==
  ASSUME IInv, Claimed
  PROVE  IInv'
<1> USE DEF IInv
<1>1. /\ fg.pc = "drain" /\ ~spilling /\ row' = row
      /\ UNCHANGED <<SlotState, Threads>> /\ UNCHANGED <<stop, idle>>
  BY DEF Claimed
<1>2. PICK g : /\ g = fg' /\ g \in FgState /\ g.stage = None /\ g.cur = NoRow
               /\ g.batch = {} /\ g.await = {} /\ g.todo \subseteq Registered
               /\ \/ g.pc = "exec" /\ g.todo = {}
                  \/ g.pc = "reassign" /\ g.todo = Registered /\ fg.why # "live"
  <2>1. CASE fg.why = "live"
    BY <2>1, IdleFields DEF Claimed
  <2>2. CASE fg.why # "live"
    <3>1. fg' = [Idle("reassign") EXCEPT !.todo = Registered]
      BY <2>2 DEF Claimed
    <3>2. Registered \in SUBSET Row
      BY DEF Registered
    <3> QED BY <2>2, <3>1, <3>2, IdleFields DEF FgState
  <2> QED BY <2>1, <2>2
<1>3. TypeOK' /\ Ranges' /\ Sources' /\ Pieces' /\ Referrers'
  BY <1>1, <1>2, FgTyped, RowsAlone DEF TypeOK, SlotState
<1>4. Foregrounds' /\ IdlePiece' /\ Passed' /\ ReadersCounted' /\ ClosedOnlyWhilePreserving'
  <2>1. Quiet
    BY <1>1, Outside
  <2>2. \A r \in Registered : Concerned(r)' => r \in g.todo \/ Settled(r)
    BY <1>2 DEF Concerned
  <2> QED BY <1>1, <1>2, <2>1, <2>2, NewForeground DEF Threads
<1>5. Room'
  <2>1. gen < MaxGen /\ (fg.why # "live" => gen + 1 < MaxGen)
    BY <1>1 DEF Room
  <2> QED BY <1>1, <1>2, <2>1 DEF Room, SlotState
<1> QED BY <1>3, <1>4, <1>5

\* A lease, an acquisition or a guard ends: the thread is free or executing again.
LEMMA LeavesGuard ==
  ASSUME IInv, Quiet, NEW pc \in {"free", "exec", "committed"}, fg' = Idle(pc), row' = row,
         pc # "free" => fg.pc # "free", spilling => pc = "free",
         stop' \in BOOLEAN, live' \in BOOLEAN,
         UNCHANGED <<content, valid, gen, created, bound, clock, Threads>>,
         idle'.pc = idle.pc, idle'.cur = idle.cur,
         idle' \in [pc : {"wait", "spill", "copying", "stopped"}, cur : Row \cup {NoRow},
                    pending : BOOLEAN, failed : BOOLEAN]
  PROVE  IInv'
<1> USE DEF IInv
<1>1. PICK g : /\ g = fg' /\ g \in FgState /\ g.pc = pc /\ g.stage = None /\ g.cur = NoRow
               /\ g.batch = {} /\ g.await = {} /\ g.todo = {}
  BY IdleFields
<1>2. TypeOK' 
  BY <1>1 DEF TypeOK, FgState, Threads
<1>3. Ranges' /\ Sources' /\ Pieces' /\ Referrers'
  BY RowsAlone
<1>4. Foregrounds' /\ IdlePiece' /\ Passed' /\ ReadersCounted' /\ ClosedOnlyWhilePreserving'
  <2>1. \A r \in Registered : ~Concerned(r)'
    BY <1>1 DEF Concerned
  <2> QED BY <1>1, <2>1, NewForeground DEF Threads
<1>5. Room'
  BY <1>1 DEF Room
<1> QED BY <1>2, <1>3, <1>4, <1>5

\* Acquire is cancelled while the idle piece runs.
LEMMA AcquireCancelledStep ==
  ASSUME IInv, AcquireCancelled
  PROVE  IInv'
<1>1. /\ fg.pc = "drain" /\ row' = row /\ fg' = Idle("free") /\ stop' = FALSE /\ idle' = idle
      /\ UNCHANGED <<SlotState, Threads>>
  BY DEF AcquireCancelled
<1>2. Quiet
  BY <1>1, Outside
<1>3. live' \in BOOLEAN /\ UNCHANGED <<content, valid, gen, created, bound, clock, Threads>>
  BY <1>1 DEF IInv, TypeOK, SlotState
<1>4. idle \in [pc : {"wait", "spill", "copying", "stopped"}, cur : Row \cup {NoRow},
                pending : BOOLEAN, failed : BOOLEAN]
  BY DEF IInv, TypeOK
<1> QED BY <1>1, <1>2, <1>3, <1>4, LeavesGuard

\* A guard is cancelled while it waits for readers.
LEMMA ReadersCancelledStep ==
  ASSUME IInv, ReadersCancelled
  PROVE  IInv'
<1>1. /\ fg.stage = "readers" /\ fg.pc # "release" /\ row' = row /\ fg' = Refused
      /\ StopAfterRefusal /\ idle' = idle /\ UNCHANGED <<SlotState, Threads>>
  BY DEF ReadersCancelled, Releasing
<1>2. fg.pc \in {"reassign", "overwrite"} /\ fg.batch = {} /\ ~spilling
  BY <1>1, CurrentRange DEF None
<1>3. Quiet
  BY <1>1, <1>2 DEF Quiet
<1>4. /\ live' \in BOOLEAN /\ UNCHANGED <<content, valid, gen, created, bound, clock, Threads>>
      /\ stop' \in BOOLEAN
  BY <1>1 DEF IInv, TypeOK, SlotState, StopAfterRefusal
<1>5. idle \in [pc : {"wait", "spill", "copying", "stopped"}, cur : Row \cup {NoRow},
                pending : BOOLEAN, failed : BOOLEAN]
  BY DEF IInv, TypeOK
<1>6. \E pc \in {"free", "exec"} : fg' = Idle(pc)
  BY <1>1 DEF Refused
<1> QED BY <1>1, <1>2, <1>3, <1>4, <1>5, <1>6, LeavesGuard

\* The overwrite is cancelled after its guard.
LEMMA OverwriteCancelledStep ==
  ASSUME IInv, OverwriteCancelled
  PROVE  IInv'
<1>1. /\ fg.pc = "overwrite" /\ fg.stage = None /\ row' = row /\ fg' = Idle("exec")
      /\ UNCHANGED <<stop, idle>> /\ UNCHANGED <<SlotState, Threads>>
  BY DEF OverwriteCancelled
<1>2. fg.batch = {} /\ ~spilling
  BY <1>1 DEF IInv, Foregrounds, IdlePiece
<1>3. Quiet
  BY <1>1, <1>2, Between
<1>4. /\ live' \in BOOLEAN /\ UNCHANGED <<content, valid, gen, created, bound, clock, Threads>>
      /\ stop' \in BOOLEAN
  BY <1>1 DEF IInv, TypeOK, SlotState
<1>5. idle \in [pc : {"wait", "spill", "copying", "stopped"}, cur : Row \cup {NoRow},
                pending : BOOLEAN, failed : BOOLEAN]
  BY DEF IInv, TypeOK
<1> QED BY <1>1, <1>2, <1>3, <1>4, <1>5, LeavesGuard

\* SlotLease::Commit.
LEMMA CommitStep ==
  ASSUME IInv, Commit
  PROVE  IInv'
<1>1. /\ fg.pc = "exec" /\ row' = row /\ fg' = Idle("committed") /\ live' = TRUE
      /\ UNCHANGED <<stop, idle>>
      /\ UNCHANGED <<content, valid, gen, created, bound, clock, Threads>>
  BY DEF Commit
<1>2. Quiet /\ ~spilling
  BY <1>1, Outside DEF IInv, IdlePiece
<1>3. /\ stop \in BOOLEAN
      /\ idle \in [pc : {"wait", "spill", "copying", "stopped"}, cur : Row \cup {NoRow},
                   pending : BOOLEAN, failed : BOOLEAN]
  BY DEF IInv, TypeOK
<1> QED BY <1>1, <1>2, <1>3, LeavesGuard

\* SlotLease::Release of a committed lease.
LEMMA ReleaseCommittedStep ==
  ASSUME IInv, ReleaseCommitted
  PROVE  IInv'
<1>1. /\ fg.pc = "committed" /\ row' = row /\ fg' = Idle("free") /\ stop' = stop
      /\ idle' = [idle EXCEPT !.failed = FALSE, !.pending = TRUE]
      /\ UNCHANGED <<SlotState, Threads>>
  BY DEF ReleaseCommitted
<1>2. Quiet /\ stop' \in BOOLEAN
  BY <1>1, Outside DEF IInv, TypeOK
<1>3. live' \in BOOLEAN /\ UNCHANGED <<content, valid, gen, created, bound, clock, Threads>>
  BY <1>1 DEF IInv, TypeOK, SlotState
<1>4. /\ idle' \in [pc : {"wait", "spill", "copying", "stopped"}, cur : Row \cup {NoRow},
                    pending : BOOLEAN, failed : BOOLEAN]
      /\ idle'.pc = idle.pc /\ idle'.cur = idle.cur
  <2>1. idle \in [pc : {"wait", "spill", "copying", "stopped"}, cur : Row \cup {NoRow},
                  pending : BOOLEAN, failed : BOOLEAN]
    BY DEF IInv, TypeOK
  <2> QED BY <1>1, <2>1
<1> QED BY <1>1, <1>2, <1>3, <1>4, LeavesGuard

\* The last reader of the range in hand is gone: it is settled.
LEMMA ReadersGoneStep ==
  ASSUME IInv, ReadersGone
  PROVE  IInv'
<1> USE DEF IInv
<1>1. /\ fg.stage = "readers" /\ row' = row /\ row[fg.cur].readers = 0
      /\ fg' = [fg EXCEPT !.stage = None, !.cur = NoRow]
      /\ UNCHANGED <<stop, idle>> /\ UNCHANGED <<SlotState, Threads>>
  BY DEF ReadersGone
<1>2. /\ fg.batch = {} /\ fg.await = {} /\ ~spilling /\ Complete(fg.cur)
      /\ fg.pc \in {"reassign", "overwrite", "release"}
  BY <1>1, CurrentRange DEF None, Foregrounds
<1>3. PICK g : /\ g = fg' /\ g \in FgState /\ g.stage = None /\ g.cur = NoRow /\ g.pc = fg.pc
               /\ g.batch = {} /\ g.await = {} /\ g.todo = fg.todo /\ g.why = fg.why
               /\ g.lo = fg.lo /\ g.hi = fg.hi /\ g.next = fg.next
  <2>1. fg \in FgState
    BY DEF TypeOK, FgState
  <2>2. fg' \in FgState
    <3>1. [fg EXCEPT !.stage = None] \in FgState
      BY <2>1 DEF FgState
    <3>2. [[fg EXCEPT !.stage = None] EXCEPT !.cur = NoRow] \in FgState
      BY <3>1 DEF FgState
    <3>3. fg' = [[fg EXCEPT !.stage = None] EXCEPT !.cur = NoRow]
      BY <1>1, <2>1 DEF FgState
    <3> QED BY <3>2, <3>3
  <2>3. /\ fg'.stage = None /\ fg'.cur = NoRow /\ fg'.pc = fg.pc
        /\ fg'.batch = fg.batch /\ fg'.await = fg.await /\ fg'.todo = fg.todo /\ fg'.why = fg.why
        /\ fg'.lo = fg.lo /\ fg'.hi = fg.hi /\ fg'.next = fg.next
    BY <1>1, <2>1 DEF FgState
  <2> QED BY <1>2, <2>2, <2>3
<1>4. TypeOK' /\ Ranges' /\ Sources' /\ Pieces' /\ Referrers'
  BY <1>1, <1>3, FgTyped, RowsAlone DEF TypeOK, SlotState
<1>5. Foregrounds' /\ IdlePiece' /\ Passed' /\ ReadersCounted' /\ ClosedOnlyWhilePreserving'
  <2>1. Quiet /\ g.todo \subseteq Registered /\ valid' = valid
        /\ (g.pc = "overwrite" => valid' <= g.next \/ (g.lo = 1 /\ g.hi = MaxRows))
    BY <1>1, <1>2, <1>3 DEF Quiet, Foregrounds, SlotState
  <2>2. \A r \in Registered : Concerned(r)' => r \in g.todo \/ Settled(r)
    BY <1>1, <1>2, <1>3 DEF Passed, Concerned, Working, Settled
  <2> QED BY <1>1, <1>2, <1>3, <2>1, <2>2, NewForeground DEF Threads
<1>6. Room'
  BY <1>1, <1>3 DEF Room, SlotState
<1> QED BY <1>4, <1>5, <1>6

\* The last reader of a range of the batch is gone.
LEMMA BatchAwaitedStep ==
  ASSUME IInv, NEW r \in Row, BatchAwaited(r)
  PROVE  IInv'
<1> USE DEF IInv
<1>1. /\ fg.pc = "reassign" /\ row' = row /\ r \in fg.await /\ row[r].readers = 0
      /\ fg' = [fg EXCEPT !.await = @ \ {r}]
      /\ UNCHANGED <<stop, idle>> /\ UNCHANGED <<SlotState, Threads>>
  BY DEF BatchAwaited
<1>2. /\ fg.batch = {} /\ fg.stage = None /\ fg.cur = NoRow /\ ~spilling /\ Complete(r)
      /\ NoRow \notin Row
  BY <1>1, SlotAssumption DEF Foregrounds, IdlePiece
<1>3. /\ fg' \in FgState /\ fg'.stage = None /\ fg'.cur = NoRow /\ fg'.pc = fg.pc
      /\ fg'.batch = {} /\ fg'.await = fg.await \ {r} /\ fg'.todo = fg.todo /\ fg'.why = fg.why
      /\ fg'.lo = fg.lo /\ fg'.hi = fg.hi /\ fg'.next = fg.next
  <2>1. fg \in FgState
    BY DEF TypeOK, FgState
  <2> QED BY <1>1, <1>2, <2>1 DEF FgState
<1>4. TypeOK' /\ Ranges' /\ Sources' /\ Pieces' /\ Referrers'
  BY <1>1, <1>3, FgTyped, RowsAlone DEF TypeOK, SlotState
<1>5. Foregrounds'
  BY <1>1, <1>2, <1>3 DEF Foregrounds, Registered, Complete
<1>6. IdlePiece'
  BY <1>1, <1>2 DEF IdlePiece, spilling
<1>7. Passed'
  BY <1>1, <1>2, <1>3 DEF Passed, Concerned, Working, Settled, Registered, Complete
<1>8. Room'
  BY <1>1, <1>3 DEF Room, SlotState
<1>9. ReadersCounted' /\ ClosedOnlyWhilePreserving'
  <2>1. /\ \A q : q \in fg'.batch <=> q \in fg.batch
        /\ fg'.cur = fg.cur /\ fg'.stage = fg.stage
    BY <1>2, <1>3
  <2> QED BY <1>1, <2>1 DEF ReadersCounted, ClosedOnlyWhilePreserving, Registered, Threads
<1> QED BY <1>4, <1>5, <1>6, <1>7, <1>8, <1>9

-----------------------------------------------------------------------------
(* Steps after which every range is settled *)

\* Ranges advance while every one of them is settled: whatever becomes of the slot,
\* nobody reads them there.
LEMMA AllSettled ==
  ASSUME IInv, Advances, \A r \in Registered : Settled(r)
  PROVE  Ranges' /\ Sources' /\ Pieces'
<1> USE DEF IInv
<1>1. Ranges'
  BY DEF Ranges, Advances, Advance, SameRange, Count, TypeOK, RowState
<1>2. Sources'
  <2>1. \A r \in Row : row'[r].borrowed => Settled(r)'
    BY DEF Advances, Advance, SameRange, Settled, Complete, Registered
  <2> QED BY <2>1 DEF Sources, Registered
<1>3. Pieces'
  BY DEF Pieces, Advances, Advance, SameRange, Count, Registered, TypeOK, RowState
<1> QED BY <1>1, <1>2, <1>3

\* A guard over every row that has nothing left to do has settled every range.
LEMMA NothingLeft ==
  ASSUME IInv, fg.pc \in {"reassign", "release", "create"}, fg.stage = None, fg.todo = {},
         fg.batch = {}, fg.await = {}
  PROVE  \A r \in Registered : Settled(r)
<1>1. fg.cur = NoRow /\ NoRow \notin Row
  BY SlotAssumption DEF IInv, Foregrounds
<1>2. \A r \in Registered : Concerned(r) /\ ~Working(r)
  BY <1>1 DEF Concerned, Working, Registered
<1> QED BY <1>2 DEF IInv, Passed

\* A batch is given up: the copies in ok were published, the acquisition throws.
LEMMA BatchAbandoned ==
  ASSUME IInv, fg.pc = "reassign", fg.stage = None, NEW ok \in SUBSET fg.batch,
         row' = BatchSettled(ok), fg' = Idle("free"), stop' = FALSE, idle' = idle,
         UNCHANGED Threads, UNCHANGED <<content, valid, gen, live, created, clock>>,
         bound' \in 0..MaxRows, bound' = bound \/ \A r \in Registered : Settled(r)
  PROVE  IInv'
<1> USE DEF IInv
<1>1. /\ fg.cur = NoRow /\ NoRow \notin Row /\ ~spilling /\ fg.batch \subseteq Row
      /\ fg.batch \subseteq Registered
  BY SlotAssumption DEF Foregrounds, TypeOK, IdlePiece
<1>2. /\ fg' \in FgState /\ fg'.pc = "free" /\ fg'.stage = None /\ fg'.cur = NoRow
      /\ fg'.todo = {} /\ fg'.batch = {} /\ fg'.await = {}
  BY IdleFields
<1>3. /\ Advances
      /\ \A q \in Row \ fg.batch : row'[q] = row[q]
      /\ \A q \in fg.batch : row'[q].readers = row[q].readers - 1 /\ ~row'[q].closing
  BY BatchSettles
<1>4. Ranges' /\ Sources' /\ Pieces'
  <2>1. CASE bound' = bound
    BY <1>3, <2>1, AdvanceKeeps
  <2>2. CASE \A r \in Registered : Settled(r)
    BY <1>3, <2>2, AllSettled
  <2> QED BY <2>1, <2>2
<1>5. Referrers'
  BY <1>3, ReferrersKept
<1>6. TypeOK'
  BY <1>2, <1>3 DEF TypeOK, FgState, Threads, Advances
<1>7. Foregrounds' /\ Passed' /\ Room'
  BY <1>2 DEF Foregrounds, Passed, Concerned, Room, None
<1>8. IdlePiece'
  BY <1>1 DEF IdlePiece, spilling
<1>9. ReadersCounted'
  <2>1. ASSUME NEW q \in Row
        PROVE  row'[q].readers = row[q].readers
                 + (FgCopies(q)' - FgCopies(q)) + (IdleCopies(q)' - IdleCopies(q))
    <3>1. row[q].readers \in Nat
      BY DEF TypeOK, RowState
    <3> QED BY <1>1, <1>2, <1>3, <3>1 DEF FgCopies, IdleCopies, None
  <2> QED BY <2>1, Counted DEF Threads
<1>10. ClosedOnlyWhilePreserving'
  <2>1. \A q \in Row : row'[q].borrowed = row[q].borrowed
    BY <1>3 DEF Advances, Advance, SameRange
  <2> QED BY <1>1, <1>3, <2>1 DEF ClosedOnlyWhilePreserving, Registered, None
<1> QED BY <1>4, <1>5, <1>6, <1>7, <1>8, <1>9, <1>10

\* A failed copy of the batch.
LEMMA BatchFailedStep ==
  ASSUME IInv, NEW ok, BatchFailed(ok)
  PROVE  IInv'
<1>1. /\ fg.pc = "reassign" /\ ok \in SUBSET fg.batch /\ ok # fg.batch /\ row' = BatchSettled(ok)
      /\ fg' = Idle("free") /\ stop' = FALSE /\ idle' = idle /\ UNCHANGED <<SlotState, Threads>>
  BY DEF BatchFailed, Refused, StopAfterRefusal
<1>2. fg.stage = None
  BY <1>1 DEF IInv, Foregrounds
<1>3. UNCHANGED <<content, valid, gen, live, created, clock>> /\ bound' = bound /\ bound \in 0..MaxRows
  BY <1>1 DEF SlotState, IInv, TypeOK
<1> QED BY <1>1, <1>2, <1>3, BatchAbandoned

\* A cancelled reassignment; the bound was cleared only when every range was settled.
LEMMA ReassignCancelledStep ==
  ASSUME IInv, ReassignCancelled
  PROVE  IInv'
<1>1. /\ fg.pc = "reassign" /\ fg.stage = None /\ row' = BatchSettled({}) /\ {} \in SUBSET fg.batch
      /\ fg' = Idle("free") /\ stop' = FALSE /\ idle' = idle /\ UNCHANGED Threads
      /\ UNCHANGED <<content, valid, gen, live, created, clock>>
      /\ bound' = IF Visited THEN 0 ELSE bound
  BY DEF ReassignCancelled, Refused, StopAfterRefusal, Threads
<1>2. bound' \in 0..MaxRows
  BY <1>1, SlotAssumption DEF IInv, TypeOK
<1>3. bound' = bound \/ \A r \in Registered : Settled(r)
  BY <1>1, NothingLeft DEF Visited
<1> QED BY <1>1, <1>2, <1>3, BatchAbandoned

\* The reassignment has visited every range.
LEMMA ReassignedStep ==
  ASSUME IInv, Reassigned
  PROVE  IInv'
<1> USE DEF IInv
<1>1. /\ fg.pc = "reassign" /\ fg.stage = None /\ Visited /\ bound' = 0 /\ live' = FALSE
      /\ fg' = [Idle("release") EXCEPT !.why = "cold"] /\ row' = row
      /\ UNCHANGED <<content, valid, gen, created, clock>> /\ UNCHANGED <<stop, idle>>
      /\ UNCHANGED Threads
  BY DEF Reassigned, Threads
<1>2. PICK g : /\ g = fg' /\ g \in FgState /\ g.pc = "release" /\ g.why = "cold" /\ g.stage = None
               /\ g.cur = NoRow /\ g.todo = {} /\ g.batch = {} /\ g.await = {}
  BY <1>1, IdleFields DEF FgState
<1>3. Quiet /\ ~spilling /\ \A r \in Registered : Settled(r)
  BY <1>1, Between, NothingLeft DEF Visited, IdlePiece
<1>4. Ranges' /\ Sources' /\ Pieces' /\ Referrers'
  BY <1>1, <1>3, SameRows, AllSettled, ReferrersKept
<1>5. TypeOK'
  <2>1. bound' \in 0..MaxRows /\ live' \in BOOLEAN
    <3>1. 0 \in 0..MaxRows
      BY SlotAssumption
    <3> QED BY <1>1, <3>1
  <2> QED BY <1>1, <1>2, <2>1 DEF TypeOK, FgState, Threads
<1>6. Foregrounds' /\ IdlePiece' /\ Passed' /\ ReadersCounted' /\ ClosedOnlyWhilePreserving'
  BY <1>1, <1>2, <1>3, NewForeground DEF Threads
<1>7. Room'
  BY <1>1, <1>2 DEF Room
<1> QED BY <1>4, <1>5, <1>6, <1>7

\* The states of the idle worker.
IdleState == [pc : {"wait", "spill", "copying", "stopped"}, cur : Row \cup {NoRow},
              pending : BOOLEAN, failed : BOOLEAN]

\* The adapter has released every row.
LEMMA ReleaseEndStep ==
  ASSUME IInv, NEW d \in BOOLEAN, ReleaseEnd(d)
  PROVE  IInv'
<1> USE DEF IInv
<1>1. /\ fg.pc = "release" /\ fg.stage = None /\ fg.todo = {} /\ valid' = 0 /\ live' = FALSE
      /\ content' = [i \in Position |-> 0] /\ gen' = IF created THEN gen + 1 ELSE gen
      /\ created' \in BOOLEAN /\ UNCHANGED <<bound, clock, row>> /\ UNCHANGED Threads
  BY DEF ReleaseEnd, Threads
<1>2. PICK pc \in {"free", "exec", "create"} :
        fg' = Idle(pc) /\ (pc # "free" => fg.why # "drop")
  BY DEF ReleaseEnd
<1>3. PICK g : /\ g = fg' /\ g \in FgState /\ g.pc = pc /\ g.stage = None
               /\ g.cur = NoRow /\ g.todo = {} /\ g.batch = {} /\ g.await = {}
  BY <1>2, IdleFields
<1>4. fg.batch = {} /\ fg.await = {} /\ Quiet /\ ~spilling
  BY <1>1, Between DEF IdlePiece, Foregrounds
<1>5. \A r \in Registered : Settled(r)
  BY <1>1, <1>4, NothingLeft
<1>6. idle' \in IdleState /\ idle'.pc = idle.pc /\ idle'.cur = idle.cur /\ stop' \in BOOLEAN
  <2>1. idle \in IdleState /\ stop \in BOOLEAN
    BY DEF TypeOK, IdleState
  <2>2. CASE fg.why = "drop"
    <3>1. idle' = [idle EXCEPT !.failed = FALSE, !.pending = TRUE] /\ stop' = FALSE
      BY <2>2 DEF ReleaseEnd
    <3> QED BY <2>1, <3>1 DEF IdleState
  <2>3. CASE fg.why # "drop"
    BY <2>1, <2>3 DEF ReleaseEnd
  <2> QED BY <2>2, <2>3
<1>7. gen' \in 1..MaxGen /\ (pc # "free" => gen' < MaxGen)
  <2>1. gen \in 1..MaxGen /\ MaxGen \in Nat /\ gen < MaxGen /\ created \in BOOLEAN
    BY <1>1, SlotAssumption DEF Room, TypeOK
  <2>2. fg.why # "drop" => gen + 1 < MaxGen
    BY <1>1 DEF Room
  <2> QED BY <1>1, <1>2, <2>1, <2>2
<1>8. TypeOK'
  <2>1. content' \in [Position -> Version] /\ valid' \in 0..MaxRows
    BY <1>1, SlotAssumption DEF Version
  <2> QED BY <1>1, <1>3, <1>6, <1>7, <2>1 DEF TypeOK, FgState, IdleState, Threads
<1>9. Ranges' /\ Sources' /\ Pieces' /\ Referrers'
  BY <1>1, <1>5, SameRows, AllSettled, ReferrersKept
<1>10. Foregrounds' /\ IdlePiece' /\ Passed' /\ ReadersCounted' /\ ClosedOnlyWhilePreserving'
  BY <1>1, <1>3, <1>4, <1>5, <1>6, NewForeground DEF Threads
<1>11. Room'
  BY <1>3, <1>7 DEF Room
<1> QED BY <1>8, <1>9, <1>10, <1>11

\* A destroyed slot is created again, or the lease is given back without one.
LEMMA CreateSlotStep ==
  ASSUME IInv, NEW ok \in BOOLEAN, CreateSlot(ok)
  PROVE  IInv'
<1> USE DEF IInv
<1>1. /\ fg.pc = "create" /\ created' = ok
      /\ UNCHANGED <<content, valid, gen, live, bound, clock, row, idle>> /\ UNCHANGED Threads
  BY DEF CreateSlot, Threads
<1>2. stop' \in BOOLEAN
  BY DEF CreateSlot, TypeOK
<1>3. PICK g : /\ g = fg' /\ g \in FgState /\ g.pc \in {"exec", "free"} /\ g.stage = None
               /\ g.cur = NoRow /\ g.todo = {} /\ g.batch = {} /\ g.await = {}
  BY IdleFields DEF CreateSlot
<1>4. Quiet /\ ~spilling /\ fg.stage = None /\ fg.todo = {} /\ fg.batch = {} /\ fg.await = {}
  BY <1>1, Outside DEF IdlePiece, Foregrounds
<1>5. \A r \in Registered : Settled(r)
  BY <1>1, <1>4, NothingLeft
<1>6. TypeOK'
  BY <1>1, <1>2, <1>3 DEF TypeOK, FgState, Threads
<1>7. Ranges' /\ Sources' /\ Pieces' /\ Referrers'
  BY <1>1, <1>5, SameRows, AllSettled, ReferrersKept
<1>8. Foregrounds' /\ IdlePiece' /\ Passed' /\ ReadersCounted' /\ ClosedOnlyWhilePreserving'
  BY <1>1, <1>3, <1>4, <1>5, NewForeground DEF Threads
<1>9. Room'
  BY <1>1, <1>3 DEF Room
<1> QED BY <1>6, <1>7, <1>8, <1>9

-----------------------------------------------------------------------------
(* Guards begin, and the slot is written *)

\* A guard visits every range in its way that is not settled: the conservative
\* bound skips the scan only when there is none.
LEMMA GuardedCovers ==
  ASSUME IInv, NEW lo \in Position, NEW hi \in 0..MaxRows, NEW r \in Registered,
         row[r].first <= hi, lo <= row[r].end
  PROVE  r \in Guarded(lo, hi) \/ Settled(r)
<1>1. /\ row[r].first \in Nat /\ row[r].end \in Nat /\ bound \in Nat /\ lo \in Nat
  BY SlotAssumption DEF IInv, TypeOK, RowState, Registered, Position
<1>2. ~Settled(r) => row[r].end <= bound
  BY DEF IInv, Sources
<1> QED BY <1>1, <1>2 DEF Guarded

\* A guard visits registered ranges only.
LEMMA GuardedRegistered ==
  ASSUME NEW lo, NEW hi
  PROVE  Guarded(lo, hi) \subseteq Registered
BY DEF Guarded

\* The thread that executes starts a guard, g.
LEMMA GuardBegins ==
  ASSUME IInv, fg.pc \in {"exec", "committed"}, row' = row, UNCHANGED <<stop, idle>>,
         UNCHANGED <<content, valid, gen, created, bound, clock>>, UNCHANGED Threads,
         live' \in BOOLEAN,
         NEW g \in FgState, fg' = g, g.pc \in {"overwrite", "release"}, g.stage = None,
         g.cur = NoRow, g.batch = {}, g.await = {}, 
         NEW lo \in Position, NEW hi \in 0..MaxRows, g.todo = Guarded(lo, hi),
         g.pc = "release" => lo = 1 /\ hi = MaxRows,
         g.pc = "overwrite" => g.lo = lo /\ g.hi = hi,
         g.pc = "overwrite" => valid <= g.next \/ (g.lo = 1 /\ g.hi = MaxRows),
         g.pc = "overwrite" => clock < MaxWrites,
         g.pc = "release" /\ g.why # "drop" => gen + 1 < MaxGen
  PROVE  IInv'
<1> USE DEF IInv
<1>1. Quiet /\ ~spilling
  BY Outside DEF IdlePiece
<1>2. TypeOK'
  BY DEF TypeOK, FgState, Threads
<1>3. Ranges' /\ Sources' /\ Pieces' /\ Referrers'
  BY RowsAlone
<1>4. ASSUME NEW r \in Registered, Concerned(r)'
      PROVE  r \in g.todo \/ Settled(r)
  <2>2. /\ row[r].first \in 1..MaxRows /\ row[r].end \in Nat /\ row[r].first <= row[r].end
        /\ MaxRows \in Nat
    BY SlotAssumption DEF TypeOK, RowState, Registered, Position, Ranges
  <2>3. row[r].first <= hi /\ lo <= row[r].end
    BY <1>4, <2>2 DEF Concerned
  <2> QED BY <2>3, GuardedCovers
<1>5. g.todo \subseteq Registered
  BY GuardedRegistered
<1>6. Foregrounds' /\ IdlePiece' /\ Passed' /\ ReadersCounted' /\ ClosedOnlyWhilePreserving'
  BY <1>1, <1>4, <1>5, NewForeground DEF Threads
<1>7. Room'
  BY DEF Room
<1> QED BY <1>2, <1>3, <1>6, <1>7

\* The fields of a thread that starts to release the slot.
LEMMA BeginReleaseFields ==
  ASSUME TypeOK, NEW why \in {"reset", "drop"}, BeginRelease(why)
  PROVE  /\ fg' \in FgState /\ fg'.pc = "release" /\ fg'.why = why /\ fg'.stage = None
         /\ fg'.cur = NoRow /\ fg'.batch = {} /\ fg'.await = {} /\ fg'.todo = Guarded(1, MaxRows)
<1>1. Guarded(1, MaxRows) \in SUBSET Row
  BY DEF Guarded, Registered
<1> DEFINE h == [Idle("release") EXCEPT !.why = why]
<1>2. /\ h \in FgState /\ h.pc = "release" /\ h.why = why /\ h.stage = None
      /\ h.cur = NoRow /\ h.batch = {} /\ h.await = {}
  BY IdleFields DEF FgState
<1>3. fg' = [h EXCEPT !.todo = Guarded(1, MaxRows)]
  BY DEF BeginRelease, Idle
<1> HIDE DEF h
<1> QED BY <1>1, <1>2, <1>3 DEF FgState

\* A reset or a dropped lease releases every row.
LEMMA ReleaseBegins ==
  ASSUME IInv, fg.pc \in {"exec", "committed"}, NEW why \in {"reset", "drop"}, BeginRelease(why),
         row' = row, UNCHANGED <<stop, idle>>, live' \in BOOLEAN,
         UNCHANGED <<content, valid, gen, created, bound, clock>>, UNCHANGED Threads,
         why # "drop" => gen + 1 < MaxGen
  PROVE  IInv'
<1>1. /\ fg' \in FgState /\ fg'.pc = "release" /\ fg'.why = why /\ fg'.stage = None
      /\ fg'.cur = NoRow /\ fg'.batch = {} /\ fg'.await = {} /\ fg'.todo = Guarded(1, MaxRows)
  BY BeginReleaseFields DEF IInv
<1>2. PICK g \in FgState : /\ fg' = g /\ g.pc = "release" /\ g.why = why /\ g.stage = None
      /\ g.cur = NoRow /\ g.batch = {} /\ g.await = {} /\ g.todo = Guarded(1, MaxRows)
  BY <1>1
<1>3. 1 \in Position /\ MaxRows \in 0..MaxRows
  BY SlotAssumption DEF Position
<1> QED BY <1>2, <1>3, GuardBegins

\* SlotLease::Reset.
LEMMA ResetStep ==
  ASSUME IInv, Reset
  PROVE  IInv'
<1>1. /\ fg.pc = "exec" /\ gen + 1 < MaxGen /\ BeginRelease("reset") /\ row' = row
      /\ UNCHANGED <<stop, idle>> /\ UNCHANGED <<SlotState, Threads>>
  BY DEF Reset
<1>2. /\ live' \in BOOLEAN /\ UNCHANGED <<content, valid, gen, created, bound, clock>>
      /\ UNCHANGED Threads
  BY <1>1 DEF SlotState, IInv, TypeOK
<1> QED BY <1>1, <1>2, ReleaseBegins

\* SlotLease::Release of an uncommitted or cancelled lease.
LEMMA ReleaseDroppedStep ==
  ASSUME IInv, NEW pc \in {"exec", "committed"}, ReleaseDropped(pc)
  PROVE  IInv'
<1>1. /\ fg.pc \in {"exec", "committed"} /\ BeginRelease("drop") /\ row' = row /\ live' = FALSE
      /\ UNCHANGED <<stop, idle>> /\ UNCHANGED <<content, valid, gen, created, bound, clock>>
      /\ UNCHANGED Threads
  BY DEF ReleaseDropped, Threads
<1> QED BY <1>1, ReleaseBegins

\* The adapter announces a write of lo..hi.
LEMMA BeforeOverwriteStep ==
  ASSUME IInv, NEW lo \in Position, NEW hi \in 0..MaxRows, NEW next \in 0..MaxRows,
         BeforeOverwrite(lo, hi, next), valid <= next \/ (lo = 1 /\ hi = MaxRows)
  PROVE  IInv'
<1>1. /\ fg.pc = "exec" /\ clock < MaxWrites /\ row' = row
      /\ UNCHANGED <<stop, idle>> /\ UNCHANGED <<SlotState, Threads>>
  BY DEF BeforeOverwrite
<1>2. /\ live' \in BOOLEAN /\ UNCHANGED <<content, valid, gen, created, bound, clock>>
      /\ UNCHANGED Threads
  BY <1>1 DEF SlotState, IInv, TypeOK
<1>3. PICK g \in FgState :
      /\ fg' = g /\ g.pc = "overwrite" /\ g.stage = None /\ g.cur = NoRow /\ g.batch = {}
      /\ g.await = {} /\ g.todo = Guarded(lo, hi) /\ g.lo = lo /\ g.hi = hi /\ g.next = next
  <2>1. Guarded(lo, hi) \in SUBSET Row
    BY DEF Guarded, Registered
  <2> DEFINE h == [pc |-> "overwrite", why |-> None, stage |-> None, cur |-> NoRow,
                   todo |-> Guarded(lo, hi), batch |-> {}, await |-> {}, lo |-> lo, hi |-> hi,
                   next |-> next]
  <2>2. fg' = h
    BY DEF BeforeOverwrite, Idle
  <2>3. h \in FgState
    BY <2>1 DEF FgState
  <2> QED BY <2>2, <2>3
<1> QED BY <1>1, <1>2, <1>3, GuardBegins

\* Rows are appended or rewritten in place.
LEMMA BeforeWriteStep ==
  ASSUME IInv, BeforeWrite
  PROVE  IInv'
<1>1. valid \in 0..MaxRows /\ MaxRows \in Nat
  BY SlotAssumption DEF IInv, TypeOK
<1>2. PICK lo \in Position, hi \in Position :
        BeforeOverwrite(lo, hi, IF hi > valid THEN hi ELSE valid)
  BY DEF BeforeWrite
<1>3. PICK next \in 0..MaxRows : next = IF hi > valid THEN hi ELSE valid
  BY <1>1 DEF Position
<1>4. valid <= next /\ hi \in 0..MaxRows
  BY <1>1, <1>3 DEF Position
<1> QED BY <1>2, <1>3, <1>4, BeforeOverwriteStep

\* A restore replaces the whole frontier.
LEMMA BeginRestoreStep ==
  ASSUME IInv, BeginRestore
  PROVE  IInv'
<1>1. 1 \in Position /\ MaxRows \in 0..MaxRows
  BY SlotAssumption DEF Position
<1> QED BY <1>1, BeforeOverwriteStep DEF BeginRestore

\* The adapter writes: every range that is not settled is outside the rows written.
LEMMA WriteStep ==
  ASSUME IInv, Write
  PROVE  IInv'
<1> USE DEF IInv
<1>1. /\ fg.pc = "overwrite" /\ fg.stage = None /\ fg.todo = {} /\ clock' = clock + 1
      /\ content' = [i \in Position |-> IF i \in fg.lo..fg.hi THEN clock + 1 ELSE content[i]]
      /\ valid' = fg.next /\ fg' = Idle("exec") /\ row' = row
      /\ UNCHANGED <<gen, live, created, bound, stop, idle>> /\ UNCHANGED Threads
  BY DEF Write, Threads
<1>2. fg.batch = {} /\ fg.await = {} /\ fg.cur = NoRow /\ NoRow \notin Row /\ Quiet /\ ~spilling
  BY <1>1, Between, SlotAssumption DEF Foregrounds, IdlePiece
<1>3. /\ fg.lo \in Position /\ fg.hi \in 0..MaxRows /\ fg.next \in 0..MaxRows
      /\ clock \in 0..MaxWrites /\ MaxWrites \in Nat /\ MaxRows \in Nat
      /\ content \in [Position -> Version] /\ clock < MaxWrites
  BY <1>1, SlotAssumption DEF TypeOK, Version, Room
<1>4. ASSUME NEW r \in Registered, ~Settled(r)
      PROVE  /\ row[r].gen = gen /\ created /\ row[r].end <= fg.next /\ row[r].end <= bound
             /\ \A i \in RowsOf(r) : content'[i] = row[r].data[i]
  <2>1. ~(row[r].first <= fg.hi /\ fg.lo <= row[r].end)
    BY <1>1, <1>2, <1>4 DEF Passed, Concerned, Working, Registered
  <2>2. /\ row[r].first \in Position /\ row[r].end \in 0..MaxRows /\ row[r].first <= row[r].end
    BY DEF TypeOK, RowState, Registered, Ranges
  <2>3. valid <= fg.next \/ (fg.lo = 1 /\ fg.hi = MaxRows)
    BY <1>1 DEF Foregrounds
  <2>4. /\ row[r].gen = gen /\ created /\ row[r].end <= valid /\ row[r].end <= bound
        /\ \A i \in RowsOf(r) : content[i] = row[r].data[i]
    BY <1>4 DEF Sources, Same
  <2>5. row[r].end <= fg.next
    <3>1. valid \in 0..MaxRows
      BY DEF TypeOK
    <3> QED BY <1>3, <2>1, <2>2, <2>3, <2>4, <3>1 DEF Position
  <2>6. ASSUME NEW i \in RowsOf(r) PROVE content'[i] = content[i]
    <3>1. i \in row[r].first..row[r].end /\ i \in Position
      BY <1>3, <2>2 DEF RowsOf, Position
    <3>2. i \notin fg.lo..fg.hi
      BY <1>3, <2>1, <2>2, <3>1 DEF Position
    <3> QED BY <1>1, <3>1, <3>2
  <2> QED BY <2>4, <2>5, <2>6
<1>5. Sources'
  BY <1>1, <1>4 DEF Sources, Registered, Settled, Complete, Same, RowsOf
<1>6. Ranges' /\ Pieces' /\ Referrers'
  BY <1>1, SameRows, ReferrersKept DEF Ranges, Pieces, Registered, Count
<1>7. PICK g : /\ g = fg' /\ g \in FgState /\ g.pc = "exec" /\ g.stage = None /\ g.cur = NoRow
               /\ g.batch = {} /\ g.await = {} /\ g.todo = {}
  BY <1>1, IdleFields
<1>8. TypeOK'
  <2>1. content' \in [Position -> Version] /\ clock' \in Version
    BY <1>1, <1>3 DEF Version
  <2> QED BY <1>1, <1>3, <1>7, <2>1 DEF TypeOK, FgState, Threads
<1>9. Foregrounds' /\ IdlePiece' /\ Passed' /\ ReadersCounted' /\ ClosedOnlyWhilePreserving'
  <2>1. \A r \in Registered : ~Concerned(r)'
    BY <1>7 DEF Concerned
  <2> QED BY <1>1, <1>2, <1>7, <2>1, NewForeground DEF Threads
<1>10. Room'
  BY <1>1, <1>7 DEF Room
<1> QED BY <1>5, <1>6, <1>8, <1>9, <1>10

-----------------------------------------------------------------------------
(* Registration and expiry *)

\* Where a slot exists, and where the lease may still count on its frontier.
Frontier ==
  /\ live => created
  /\ fg.pc \in {"exec", "overwrite", "committed"} => created
  /\ fg.pc = "create" => ~live
  /\ fg.pc = "drain" /\ fg.why = "live" => live

\* A fresh range.
LEMMA UnborrowedFields ==
  /\ Unborrowed \in RowState /\ ~Unborrowed.borrowed /\ Unborrowed.readers = 0
  /\ ~Unborrowed.closing /\ ~Unborrowed.held
<1>1. /\ 1 \in Position /\ 0 \in 0..MaxRows /\ 0 \in 0..MaxGen /\ 0 \in Nat
      /\ [i \in Position |-> 0] \in [Position -> Version]
  BY SlotAssumption DEF Position, Version
<1> HIDE DEF Position, Version
<1> QED BY <1>1 DEF Unborrowed, RowState

\* A range that was just captured.
Captured(first, end, backed) ==
  [Unborrowed EXCEPT !.borrowed = TRUE, !.held = TRUE, !.backed = backed,
     !.first = first, !.end = end, !.gen = gen,
     !.data = [i \in Position |-> IF i \in first..end THEN content[i] ELSE 0]]

\* The fields of such a range.
LEMMA CaptureFields ==
  ASSUME TypeOK, NEW first \in Position, NEW end \in Position, NEW backed \in BOOLEAN
  PROVE  \E t \in RowState :
    /\ t = Captured(first, end, backed)
    /\ t.borrowed /\ t.first = first /\ t.end = end /\ t.gen = gen /\ t.copied = 0
    /\ ~t.materialized /\ ~t.retired /\ ~t.closing /\ t.readers = 0
    /\ \A i \in first..end : t.data[i] = content[i]
<1> DEFINE d == [i \in Position |-> IF i \in first..end THEN content[i] ELSE 0]
           c1 == [Unborrowed EXCEPT !.borrowed = TRUE, !.held = TRUE]
           c2 == [c1 EXCEPT !.backed = backed]
           c3 == [c2 EXCEPT !.first = first, !.end = end, !.gen = gen]
           t  == [c3 EXCEPT !.data = d]
<1>1. d \in [Position -> Version] /\ \A i \in first..end : d[i] = content[i]
  BY SlotAssumption DEF TypeOK, Version, Position
<1>2. first \in Position /\ end \in 0..MaxRows /\ gen \in 0..MaxGen
  BY SlotAssumption DEF TypeOK, Position
<1>3. /\ Unborrowed \in RowState /\ Unborrowed.copied = 0 /\ Unborrowed.readers = 0
      /\ ~Unborrowed.materialized /\ ~Unborrowed.retired /\ ~Unborrowed.closing
  BY UnborrowedFields DEF Unborrowed
<1>4. t = Captured(first, end, backed)
  BY <1>3 DEF Captured, RowState
<1> HIDE DEF d
<1>5. /\ c1 \in RowState /\ c1.borrowed /\ c1.copied = 0 /\ c1.readers = 0
      /\ ~c1.materialized /\ ~c1.retired /\ ~c1.closing
  <2>1. [Unborrowed EXCEPT !.borrowed = TRUE] \in RowState
    BY <1>3 DEF RowState
  <2>2. c1 = [[Unborrowed EXCEPT !.borrowed = TRUE] EXCEPT !.held = TRUE]
    BY <1>3 DEF RowState
  <2>3. c1 \in RowState
    <3>1. [[Unborrowed EXCEPT !.borrowed = TRUE] EXCEPT !.held = TRUE] \in RowState
      BY <2>1 DEF RowState
    <3> QED BY <2>2, <3>1
  <2> QED BY <1>3, <2>3 DEF RowState
<1> HIDE DEF c1
<1>6. /\ c2 \in RowState /\ c2.borrowed /\ c2.copied = 0 /\ c2.readers = 0
      /\ ~c2.materialized /\ ~c2.retired /\ ~c2.closing
  BY <1>5 DEF RowState
<1> HIDE DEF c2
<1>7. /\ c3 \in RowState /\ c3.borrowed /\ c3.copied = 0 /\ c3.readers = 0
      /\ ~c3.materialized /\ ~c3.retired /\ ~c3.closing
      /\ c3.first = first /\ c3.end = end /\ c3.gen = gen
  BY <1>2, <1>6 DEF RowState
<1> HIDE DEF c3
<1>8. /\ t \in RowState /\ t.borrowed /\ t.first = first /\ t.end = end /\ t.gen = gen
      /\ t.copied = 0 /\ ~t.materialized /\ ~t.retired /\ ~t.closing /\ t.readers = 0
      /\ t.data = d
  BY <1>1, <1>7 DEF RowState
<1> HIDE DEF t
<1> QED BY <1>1, <1>4, <1>8

\* SlotLease::Borrow and SlotLease::Observe: the range is what the slot holds now.
LEMMA CaptureStep ==
  ASSUME IInv, Frontier, NEW r \in Row, NEW first \in Position, NEW end \in Position,
         NEW backed \in BOOLEAN, Capture(r, first, end, backed)
  PROVE  IInv'
<1> USE DEF IInv
<1>1. /\ fg.pc = "exec" /\ ~row[r].borrowed /\ first <= end /\ end <= valid
      /\ bound' = (IF end > bound THEN end ELSE bound)
      /\ UNCHANGED <<content, valid, gen, live, created, clock, fg, stop, idle>>
      /\ UNCHANGED Threads
  BY DEF Capture, Threads
<1>2. PICK t \in RowState :
      /\ t = Captured(first, end, backed)
      /\ t.borrowed /\ t.first = first /\ t.end = end /\ t.gen = gen /\ t.copied = 0
      /\ ~t.materialized /\ ~t.retired /\ ~t.closing /\ t.readers = 0
      /\ \A i \in first..end : t.data[i] = content[i]
  BY CaptureFields
<1>17. row' = [row EXCEPT ![r] = t]
  BY <1>2 DEF Capture, Captured
<1>3. row' \in [Row -> RowState] /\ row'[r] = t /\ \A q \in Row \ {r} : row'[q] = row[q]
  BY <1>17 DEF TypeOK
<1>4. row[r].readers = 0 /\ ~spilling /\ created
  BY <1>1, UnborrowedFields DEF Ranges, IdlePiece, Frontier
<1>5. /\ fg.stage = None /\ fg.cur = NoRow /\ fg.todo = {} /\ fg.batch = {} /\ fg.await = {}
      /\ idle.cur = NoRow /\ NoRow \notin Row
  BY <1>1, <1>4, SlotAssumption DEF Foregrounds, IdlePiece
<1>6. /\ MaxRows \in Nat /\ bound \in 0..MaxRows /\ bound' \in 0..MaxRows /\ bound <= bound'
      /\ end <= bound' /\ first \in Nat /\ end \in Nat
  BY <1>1, SlotAssumption DEF TypeOK, Position
<1>7. TypeOK'
  BY <1>1, <1>3, <1>6 DEF TypeOK, Threads
<1>8. Ranges'
  BY <1>1, <1>2, <1>3, <1>6 DEF Ranges, Count
<1>9. Foregrounds'
  BY <1>1, <1>5 DEF Foregrounds, None
<1>10. IdlePiece'
  BY <1>1, <1>4 DEF IdlePiece, spilling
<1>11. Referrers'
  <2>1. \A q \in Row : row[q].borrowed => row'[q] = row[q]
    BY <1>1, <1>3
  <2>2. UNCHANGED <<pins, want, chk>>
    BY <1>1 DEF Threads
  <2>3. /\ \A p \in Reader : want[p] \in Row \cup {NoRow}
        /\ \A c \in Checker : chk[c].row \in Row \cup {NoRow}
    BY DEF TypeOK
  <2> QED BY <2>1, <2>2, <2>3 DEF Referrers, Complete
<1>12. Sources'
  <2>1. ASSUME NEW q \in Row, row'[q].borrowed, ~Settled(q)'
        PROVE  /\ row'[q].gen = gen /\ created /\ row'[q].end <= valid /\ row'[q].end <= bound'
               /\ \A i \in row'[q].first..row'[q].end : content[i] = row'[q].data[i]
    <3>1. CASE q = r
      BY <1>1, <1>2, <1>3, <1>4, <1>6, <3>1
    <3>2. CASE q # r
      <4>1. row'[q] = row[q] /\ q \in Registered /\ ~Settled(q)
        BY <1>3, <2>1, <3>2 DEF Registered, Settled, Complete
      <4>2. row[q].end \in Nat
        BY DEF TypeOK, RowState
      <4> QED BY <1>6, <4>1, <4>2 DEF Sources, Same, RowsOf
    <3> QED BY <3>1, <3>2
  <2> QED BY <1>1, <2>1 DEF Sources, Registered, Same, RowsOf
<1>13. Pieces'
  <2>1. ASSUME NEW q \in Row, row'[q].borrowed
        PROVE  /\ \A i \in row'[q].first..(row'[q].first + row'[q].copied - 1) :
                    row'[q].got[i] = row'[q].data[i]
               /\ row'[q].materialized => row'[q].copied = Count(q)'
               /\ row'[q].retired /\ row'[q].backed => row'[q].lost
    <3>1. CASE q = r
      BY <1>2, <1>3, <1>6, <3>1
    <3>2. CASE q # r
      BY <1>3, <2>1, <3>2 DEF Pieces, Registered, Count
    <3> QED BY <3>1, <3>2
  <2> QED BY <2>1 DEF Pieces, Registered
<1>14. Passed' /\ Room'
  BY <1>1 DEF Passed, Concerned, Room
<1>15. ReadersCounted'
  <2>1. ASSUME NEW q \in Row
        PROVE  row'[q].readers = row[q].readers
                 + (FgCopies(q)' - FgCopies(q)) + (IdleCopies(q)' - IdleCopies(q))
    <3>1. row[q].readers \in Nat /\ row'[q].readers = row[q].readers
      <4>1. row[q] \in RowState
        BY DEF TypeOK
      <4>2. row'[q].readers = row[q].readers
        BY <1>2, <1>3, <1>4
      <4> QED BY <4>1, <4>2 DEF RowState
    <3>2. FgCopies(q)' = FgCopies(q) /\ IdleCopies(q)' = IdleCopies(q) /\ FgCopies(q) \in Nat
          /\ IdleCopies(q) \in Nat
      BY <1>1 DEF FgCopies, IdleCopies
    <3> QED BY <3>1, <3>2
  <2> QED BY <1>1, <2>1, Counted DEF Threads
<1>16. ClosedOnlyWhilePreserving'
  BY <1>1, <1>2, <1>3 DEF ClosedOnlyWhilePreserving, Registered
<1> QED BY <1>7, <1>8, <1>9, <1>10, <1>11, <1>12, <1>13, <1>14, <1>15, <1>16

\* The weak registration of a range expires: nobody reads it or works on it.
LEMMA ExpireStep ==
  ASSUME IInv, NEW r \in Row, Expire(r)
  PROVE  IInv'
<1> USE DEF IInv
<1>1. /\ row[r].borrowed /\ row[r].readers = 0 /\ \A p \in Reader : want[p] # r
      /\ \A c \in Checker : chk[c].row # r
      /\ r # fg.cur /\ r \notin fg.await /\ r # idle.cur
      /\ row' = [row EXCEPT ![r] = Unborrowed] /\ fg' = [fg EXCEPT !.todo = @ \ {r}]
      /\ UNCHANGED <<SlotState, Threads>> /\ UNCHANGED <<stop, idle>>
  BY DEF Expire
<1>2. r \notin fg.batch
  BY <1>1, ReadersPositive
<1>3. row' \in [Row -> RowState] /\ row'[r] = Unborrowed /\ \A q \in Row \ {r} : row'[q] = row[q]
  BY <1>1, UnborrowedFields DEF TypeOK
<1>4. /\ fg'.pc = fg.pc /\ fg'.why = fg.why /\ fg'.cur = fg.cur /\ fg'.todo = fg.todo \ {r}
      /\ fg'.stage = fg.stage /\ fg'.batch = fg.batch /\ fg'.await = fg.await
      /\ fg'.lo = fg.lo /\ fg'.hi = fg.hi /\ fg'.next = fg.next
  BY <1>1 DEF TypeOK
<1>5. TypeOK'
  BY <1>1, <1>3 DEF TypeOK, SlotState, Threads
<1>6. ~row'[r].borrowed /\ row'[r].readers = 0 /\ ~row'[r].held
  BY <1>3, UnborrowedFields
<1>7. Registered' = Registered \ {r}
  BY <1>3, <1>6 DEF Registered
<1>8. \A q \in Registered \ {r} : row'[q] = row[q] /\ q \in Row
  BY <1>3 DEF Registered
<1>9. Ranges'
  <2>1. ASSUME NEW q \in Row
        PROVE  /\ row'[q].borrowed => row'[q].first <= row'[q].end /\ row'[q].copied <= Count(q)'
               /\ row'[q].held => row'[q].borrowed
               /\ ~row'[q].borrowed => row'[q] = Unborrowed
    <3>1. CASE q = r
      BY <1>3, <1>6, <3>1
    <3>2. CASE q # r
      BY <1>3, <3>2 DEF Ranges, Count
    <3> QED BY <3>1, <3>2
  <2>2. Unborrowed' = Unborrowed
    BY DEF Unborrowed
  <2> QED BY <2>1, <2>2 DEF Ranges
<1>10. Foregrounds'
  BY <1>1, <1>2, <1>4, <1>7, <1>8 DEF Foregrounds, Complete, SlotState
<1>11. IdlePiece'
  BY <1>1, <1>4, <1>7, <1>8 DEF IdlePiece, spilling, Complete
<1>12. Referrers'
  <2>1. UNCHANGED <<pins, want, chk>>
    BY <1>1 DEF Threads
  <2>2. \A q \in Row : q # r => row'[q] = row[q]
    BY <1>3
  <2>3. /\ \A p \in Reader : want[p] \in Row \cup {NoRow}
        /\ \A c \in Checker : chk[c].row \in Row \cup {NoRow}
    BY DEF TypeOK
  <2> QED BY <1>1, <2>1, <2>2, <2>3 DEF Referrers, Complete
<1>13. Sources' /\ Pieces' /\ Passed'
  <2>1. \A q \in Registered \ {r} : /\ Settled(q)' = Settled(q) /\ Count(q)' = Count(q)
                                    /\ Concerned(q)' = Concerned(q) /\ Working(q)' = Working(q)
                                    /\ RowsOf(q)' = RowsOf(q)
    BY <1>4, <1>8 DEF Settled, Complete, Count, Concerned, Working, RowsOf
  <2> QED BY <1>1, <1>7, <1>8, <2>1 DEF Sources, Pieces, Passed, Same, SlotState
<1>14. Room'
  BY <1>1, <1>4 DEF Room, SlotState
<1>15. ReadersCounted'
  <2>1. ASSUME NEW q \in Row
        PROVE  row'[q].readers = row[q].readers
                 + (FgCopies(q)' - FgCopies(q)) + (IdleCopies(q)' - IdleCopies(q))
    <3>1. row[q].readers \in Nat /\ row'[q].readers = row[q].readers
      BY <1>1, <1>3, <1>6 DEF TypeOK, RowState
    <3>2. FgCopies(q)' = FgCopies(q) /\ IdleCopies(q)' = IdleCopies(q) /\ FgCopies(q) \in Nat
          /\ IdleCopies(q) \in Nat
      BY <1>1, <1>4 DEF FgCopies, IdleCopies
    <3> QED BY <3>1, <3>2
  <2> QED BY <1>1, <2>1, Counted DEF Threads
<1>16. ClosedOnlyWhilePreserving'
  BY <1>4, <1>7, <1>8 DEF ClosedOnlyWhilePreserving
<1> QED BY <1>5, <1>9, <1>10, <1>11, <1>12, <1>13, <1>14, <1>15, <1>16

-----------------------------------------------------------------------------
(* The idle worker between two pieces, blocked readers and validity checks *)

\* Only the idle worker moves, and it copies nothing.
LEMMA IdleMoves ==
  ASSUME IInv, UNCHANGED <<SlotState, Threads>>, UNCHANGED <<row, fg, stop>>,
         NEW k \in IdleState, idle' = k, idle.pc # "copying", k.pc # "copying",
         k.cur # NoRow <=> k.pc = "spill",
         k.pc = "spill" => /\ fg.pc \in {"free", "drain"} /\ k.cur \in Registered
                           /\ row[k.cur].backed /\ ~Complete(k.cur)
  PROVE  IInv'
<1> USE DEF IInv
<1>1. TypeOK'
  BY DEF TypeOK, IdleState, SlotState, Threads
<1>2. Ranges' /\ Sources' /\ Pieces' /\ Referrers'
  BY RowsAlone DEF SlotState
<1>3. Foregrounds' /\ Passed' /\ Room'
  BY DEF Foregrounds, Passed, Room, Registered, Complete, Settled, Concerned, Working, SlotState
<1>4. IdlePiece'
  BY DEF IdlePiece, spilling, Registered, Complete
<1>5. ReadersCounted'
  <2>1. ASSUME NEW q \in Row
        PROVE  row'[q].readers = row[q].readers
                 + (FgCopies(q)' - FgCopies(q)) + (IdleCopies(q)' - IdleCopies(q))
    <3>1. row[q].readers \in Nat
      BY DEF TypeOK, RowState
    <3>2. FgCopies(q)' = FgCopies(q) /\ FgCopies(q) \in Nat
      BY DEF FgCopies
    <3>3. IdleCopies(q)' = 0 /\ IdleCopies(q) = 0
      BY DEF IdleCopies
    <3> QED BY <3>1, <3>2, <3>3
  <2> QED BY <2>1, Counted DEF Threads
<1>6. ClosedOnlyWhilePreserving'
  BY DEF ClosedOnlyWhilePreserving, Registered
<1> QED BY <1>1, <1>2, <1>3, <1>4, <1>5, <1>6

\* The idle worker picks a range, finds none, defers one or ends.
LEMMA IdleMovesStep ==
  ASSUME IInv, (\E r \in Row : IdlePick(r)) \/ IdleExhausted \/ IdleDefer \/ StopIdleSpill
  PROVE  IInv'
<1>1. UNCHANGED <<SlotState, Threads>> /\ UNCHANGED <<row, fg, stop>>
  BY DEF IdlePick, IdleExhausted, IdleDefer, StopIdleSpill
<1>2. idle \in IdleState /\ NoRow \notin Row /\ (idle.cur # NoRow <=> idle.pc \in {"spill", "copying"})
  BY SlotAssumption DEF IInv, TypeOK, IdleState, IdlePiece, spilling
<1>3. CASE \E r \in Row : IdlePick(r)
  <2>1. PICK r \in Row : IdlePick(r)
    BY <1>3
  <2>2. /\ idle' = [idle EXCEPT !.pc = "spill", !.cur = r] /\ idle.pc = "wait" /\ fg.pc = "free"
        /\ r \in Registered /\ row[r].backed /\ ~Complete(r)
    BY <2>1 DEF IdlePick, Leased, IdleCandidates
  <2>4. idle' \in IdleState /\ idle'.pc = "spill" /\ idle'.cur = r
    BY <1>2, <2>2 DEF IdleState
  <2>3. PICK k \in IdleState : idle' = k /\ k.pc = "spill" /\ k.cur = r
    BY <2>4
  <2> QED BY <1>1, <1>2, <2>2, <2>3, IdleMoves
<1>4. CASE IdleExhausted
  <2>1. idle' = [idle EXCEPT !.pending = FALSE] /\ idle.pc = "wait"
    BY <1>4 DEF IdleExhausted
  <2>3. idle' \in IdleState /\ idle'.pc = "wait" /\ idle'.cur = idle.cur
    BY <1>2, <2>1 DEF IdleState
  <2>2. PICK k \in IdleState : idle' = k /\ k.pc = "wait" /\ k.cur = idle.cur
    BY <2>3
  <2> QED BY <1>1, <1>2, <2>1, <2>2, IdleMoves
<1>5. CASE IdleDefer
  <2>1. idle' = [idle EXCEPT !.pc = "wait", !.cur = NoRow] /\ idle.pc = "spill"
    BY <1>5 DEF IdleDefer
  <2>3. idle' \in IdleState /\ idle'.pc = "wait" /\ idle'.cur = NoRow
    BY <1>2, <2>1 DEF IdleState
  <2>2. PICK k \in IdleState : idle' = k /\ k.pc = "wait" /\ k.cur = NoRow
    BY <2>3
  <2> QED BY <1>1, <1>2, <2>1, <2>2, IdleMoves
<1>6. CASE StopIdleSpill
  <2>1. idle' = [idle EXCEPT !.pc = "stopped"] /\ idle.pc = "wait"
    BY <1>6 DEF StopIdleSpill
  <2>3. idle' \in IdleState /\ idle'.pc = "stopped" /\ idle'.cur = idle.cur
    BY <1>2, <2>1 DEF IdleState
  <2>2. PICK k \in IdleState : idle' = k /\ k.pc = "stopped" /\ k.cur = idle.cur
    BY <2>3
  <2> QED BY <1>1, <1>2, <2>1, <2>2, IdleMoves
<1> QED BY <1>3, <1>4, <1>5, <1>6

\* Only a blocked reader or a validity check moves.
LEMMA ObserverMoves ==
  ASSUME IInv, UNCHANGED <<row, fg, stop, idle, pins>>, UNCHANGED SlotState,
         want' \in [Reader -> Row \cup {NoRow}],
         chk' \in [Checker -> [pc : {"done", "generation", "recheck", "returned"},
                               row : Row \cup {NoRow}, result : BOOLEAN]],
         Referrers'
  PROVE  IInv'
<1> USE DEF IInv
<1>1. TypeOK'
  BY DEF TypeOK, SlotState
<1>2. Ranges' /\ Sources' /\ Pieces'
  BY SameRows, AdvanceKeeps DEF SlotState
<1>3. Foregrounds' /\ Passed' /\ Room' /\ IdlePiece'
  BY DEF Foregrounds, Passed, Room, IdlePiece, spilling, Registered, Complete, Settled, Concerned,
         Working, SlotState
<1>4. ReadersCounted' /\ ClosedOnlyWhilePreserving'
  BY DEF ReadersCounted, ClosedOnlyWhilePreserving, Registered
<1> QED BY <1>1, <1>2, <1>3, <1>4

\* BorrowedRows::Pin begins, or ends without a source pin.
LEMMA PinWaitStep ==
  ASSUME IInv, NEW p \in Reader,
         (\E r \in Row : PinCall(p, r)) \/ PinSettled(p) \/ PinCancelled(p)
  PROVE  IInv'
<1>1. PICK r \in Row \cup {NoRow} :
        want' = [want EXCEPT ![p] = r] /\ (r # NoRow => row[r].held /\ r \notin pins[p])
  BY DEF PinCall, PinSettled, PinCancelled
<1>2. UNCHANGED <<row, fg, stop, idle, pins, chk>> /\ UNCHANGED SlotState
  BY DEF PinCall, PinSettled, PinCancelled
<1>3. want \in [Reader -> Row \cup {NoRow}]
  BY DEF IInv, TypeOK
<1>4. /\ chk \in [Checker -> [pc : {"done", "generation", "recheck", "returned"},
                              row : Row \cup {NoRow}, result : BOOLEAN]]
      /\ \A q \in Row : row[q].held => row[q].borrowed
  BY DEF IInv, TypeOK, Ranges
<1>5. want' \in [Reader -> Row \cup {NoRow}]
  BY <1>1, <1>3
<1>6. Referrers'
  <2>1. \A x \in Reader : want'[x] # NoRow => row[want'[x]].borrowed /\ want'[x] \notin pins[x]
    BY <1>1, <1>3, <1>4 DEF IInv, Referrers
  <2> QED BY <1>2, <2>1 DEF IInv, Referrers, Complete
<1> QED BY <1>2, <1>4, <1>5, <1>6, ObserverMoves

\* What a validity check may be about.
CheckOK(k) ==
  /\ k.pc = "done" <=> k.row = NoRow
  /\ k.row # NoRow => row[k.row].borrowed
  /\ k.pc = "generation" => k.result
  /\ k.pc = "recheck" => Complete(k.row)
  /\ k.pc = "returned" /\ ~k.result => row[k.row].retired

\* The states of a validity check.
CheckState == [pc : {"done", "generation", "recheck", "returned"},
               row : Row \cup {NoRow}, result : BOOLEAN]

\* One validity check moves to k.
LEMMA CheckMoves ==
  ASSUME IInv, NEW c \in Checker, NEW k \in CheckState, chk' = [chk EXCEPT ![c] = k], CheckOK(k),
         UNCHANGED <<row, fg, stop, idle, pins, want>>, UNCHANGED SlotState
  PROVE  IInv'
<1>1. chk \in [Checker -> CheckState] /\ want \in [Reader -> Row \cup {NoRow}]
  BY DEF IInv, TypeOK, CheckState
<1>2. chk' \in [Checker -> CheckState] /\ chk'[c] = k /\ \A x \in Checker \ {c} : chk'[x] = chk[x]
  BY <1>1
<1>3. \A x \in Checker : CheckOK(chk'[x])
  BY <1>2 DEF IInv, Referrers, CheckOK
<1>4. Referrers'
  <2>1. \A x \in Reader : want'[x] # NoRow => row'[want'[x]].borrowed /\ want'[x] \notin pins'[x]
    BY DEF IInv, Referrers
  <2> QED BY <1>3, <2>1 DEF Referrers, CheckOK, Complete
<1> QED BY <1>1, <1>2, <1>4, ObserverMoves DEF CheckState

\* BorrowedRows::IsValid begins: a complete range is judged at once.
LEMMA IsValidCallStep ==
  ASSUME IInv, NEW c \in Checker, NEW r \in Row, IsValidCall(c, r)
  PROVE  IInv'
<1>1. row[r].borrowed /\ row[r] \in RowState /\ NoRow \notin Row
  BY SlotAssumption DEF IsValidCall, IInv, Ranges, TypeOK
<1>2. UNCHANGED <<row, fg, stop, idle, pins, want>> /\ UNCHANGED SlotState
  BY DEF IsValidCall
<1>3. CASE Complete(r)
  <2>1. PICK b \in BOOLEAN : b = ~row[r].retired
    BY <1>1 DEF RowState
  <2> DEFINE k == [pc |-> "returned", row |-> r, result |-> b]
  <2>2. chk' = [chk EXCEPT ![c] = k]
    BY <1>3, <2>1 DEF IsValidCall
  <2>3. k \in CheckState /\ CheckOK(k)
    BY <1>1, <2>1 DEF CheckState, CheckOK
  <2> HIDE DEF k
  <2> QED BY <1>2, <2>2, <2>3, CheckMoves
<1>4. CASE ~Complete(r)
  <2> DEFINE k == [pc |-> "generation", row |-> r, result |-> TRUE]
  <2>1. chk' = [chk EXCEPT ![c] = k]
    BY <1>4 DEF IsValidCall
  <2>2. k \in CheckState /\ CheckOK(k)
    BY <1>1 DEF CheckState, CheckOK
  <2> HIDE DEF k
  <2> QED BY <1>2, <2>1, <2>2, CheckMoves
<1> QED BY <1>3, <1>4

\* The second load: the generation can only have moved on after the range was settled.
LEMMA IsValidGenerationStep ==
  ASSUME IInv, NEW c \in Checker, IsValidGeneration(c)
  PROVE  IInv'
<1>1. chk \in [Checker -> CheckState] /\ NoRow \notin Row /\ chk[c] \in CheckState
  BY SlotAssumption DEF IInv, TypeOK, CheckState
<1>2. /\ chk[c].pc = "generation" /\ UNCHANGED <<row, fg, stop, idle, pins, want>>
      /\ UNCHANGED SlotState
  BY DEF IsValidGeneration
<1>3. PICK r \in Row : r = chk[c].row /\ row[r].borrowed /\ chk[c].result
  BY <1>1, <1>2 DEF IInv, Referrers, CheckState
<1>4. PICK q \in {"returned", "recheck"} : /\ chk' = [chk EXCEPT ![c].pc = q]
                                           /\ q = "recheck" => row[r].gen # gen
  BY <1>2, <1>3 DEF IsValidGeneration
<1>5. q = "recheck" => Complete(r)
  BY <1>3, <1>4 DEF IInv, Sources, Registered, Settled
<1>6. PICK k \in CheckState : k = [chk[c] EXCEPT !.pc = q] /\ k.pc = q /\ k.row = r /\ k.result
  <2> DEFINE h == [chk[c] EXCEPT !.pc = q]
  <2>1. h \in CheckState /\ h.pc = q /\ h.row = r /\ h.result
    BY <1>1, <1>3 DEF CheckState
  <2> HIDE DEF h
  <2> QED BY <2>1 DEF h
<1>7. chk' = [chk EXCEPT ![c] = k]
  BY <1>4, <1>6
<1>8. CheckOK(k)
  BY <1>1, <1>3, <1>5, <1>6 DEF CheckOK
<1> QED BY <1>2, <1>7, <1>8, CheckMoves

\* The third load: a complete range that is not preserved was retired.
LEMMA IsValidRecheckStep ==
  ASSUME IInv, NEW c \in Checker, IsValidRecheck(c)
  PROVE  IInv'
<1>1. chk \in [Checker -> CheckState] /\ NoRow \notin Row /\ chk[c] \in CheckState
  BY SlotAssumption DEF IInv, TypeOK, CheckState
<1>2. /\ chk[c].pc = "recheck" /\ UNCHANGED <<row, fg, stop, idle, pins, want>>
      /\ UNCHANGED SlotState
  BY DEF IsValidRecheck
<1>3. PICK r \in Row : r = chk[c].row /\ row[r].borrowed /\ Complete(r) /\ row[r] \in RowState
  BY <1>1, <1>2 DEF IInv, Referrers, CheckState, TypeOK
<1>4. PICK b \in BOOLEAN : b = (row[r].materialized /\ ~row[r].retired)
  BY <1>3 DEF RowState
<1>5. chk' = [chk EXCEPT ![c].pc = "returned", ![c].result = b]
  BY <1>3, <1>4 DEF IsValidRecheck
<1>6. PICK k \in CheckState : /\ k = [chk[c] EXCEPT !.pc = "returned", !.result = b]
                              /\ k.pc = "returned" /\ k.row = r /\ k.result = b
  <2> DEFINE h == [chk[c] EXCEPT !.pc = "returned", !.result = b]
  <2>1. h \in CheckState /\ h.pc = "returned" /\ h.row = r /\ h.result = b
    BY <1>1, <1>3 DEF CheckState
  <2> HIDE DEF h
  <2> QED BY <2>1 DEF h
<1>7. chk' = [chk EXCEPT ![c] = k]
  BY <1>1, <1>5, <1>6
<1>8. CheckOK(k)
  BY <1>1, <1>3, <1>4, <1>6 DEF CheckOK, Complete
<1> QED BY <1>2, <1>7, <1>8, CheckMoves

\* The verdict is returned.
LEMMA IsValidReturnStep ==
  ASSUME IInv, NEW c \in Checker, IsValidReturn(c)
  PROVE  IInv'
<1> DEFINE k == [pc |-> "done", row |-> NoRow, result |-> TRUE]
<1>1. /\ chk' = [chk EXCEPT ![c] = k] /\ UNCHANGED <<row, fg, stop, idle, pins, want>>
      /\ UNCHANGED SlotState
  BY DEF IsValidReturn
<1>2. k \in CheckState /\ CheckOK(k)
  BY DEF CheckState, CheckOK
<1> HIDE DEF k
<1> QED BY <1>1, <1>2, CheckMoves

-----------------------------------------------------------------------------
(* The invariant *)

\* The slot starts empty, with no range and nobody in it.
LEMMA InitInv ==
  ASSUME Init
  PROVE  IInv /\ Frontier
<1>1. /\ fg = Idle("free") /\ row = [r \in Row |-> Unborrowed] /\ content = [i \in Position |-> 0]
      /\ valid = 0 /\ gen = 1 /\ live = FALSE /\ created = TRUE /\ bound = 0 /\ stop = FALSE
      /\ idle = [pc |-> "wait", cur |-> NoRow, pending |-> FALSE, failed |-> FALSE]
      /\ pins = [p \in Reader |-> {}] /\ want = [p \in Reader |-> NoRow]
      /\ chk = [c \in Checker |-> [pc |-> "done", row |-> NoRow, result |-> TRUE]] /\ clock = 0
  BY DEF Init
<1>2. /\ fg \in FgState /\ fg.pc = "free" /\ fg.stage = None /\ fg.cur = NoRow /\ fg.todo = {}
      /\ fg.batch = {} /\ fg.await = {}
  BY <1>1, IdleFields
<1>3. \A r \in Row : row[r] = Unborrowed /\ ~row[r].borrowed /\ row[r].readers = 0 /\ ~row[r].held
  BY <1>1, UnborrowedFields
<1>4. Registered = {}
  BY <1>3 DEF Registered
<1>5. row \in [Row -> RowState]
  BY <1>1, UnborrowedFields
<1>6. idle \in IdleState /\ ~spilling /\ idle.cur = NoRow /\ idle.pc = "wait"
  BY <1>1 DEF IdleState, spilling
<1>7. TypeOK
  <2>1. /\ content \in [Position -> Version] /\ valid \in 0..MaxRows /\ gen \in 1..MaxGen
        /\ bound \in 0..MaxRows /\ clock \in Version
    BY <1>1, SlotAssumption DEF Version
  <2>2. /\ pins \in [Reader -> SUBSET Row] /\ want \in [Reader -> Row \cup {NoRow}]
    BY <1>1
  <2>3. chk \in [Checker -> [pc : {"done", "generation", "recheck", "returned"},
                             row : Row \cup {NoRow}, result : BOOLEAN]]
    BY <1>1
  <2>4. live \in BOOLEAN /\ created \in BOOLEAN /\ stop \in BOOLEAN
    BY <1>1
  <2> QED BY <1>2, <1>5, <1>6, <2>1, <2>2, <2>3, <2>4 DEF TypeOK, FgState, IdleState
<1>8. Ranges
  BY <1>3 DEF Ranges
<1>9. Foregrounds /\ IdlePiece /\ Passed /\ Room
  BY <1>2, <1>4, <1>6 DEF Foregrounds, IdlePiece, Passed, Room, None
<1>10. Referrers
  <2>1. \A p \in Reader : want[p] = NoRow
    BY <1>1
  <2>2. \A c \in Checker : chk[c].pc = "done" /\ chk[c].row = NoRow
    BY <1>1
  <2> QED BY <2>1, <2>2 DEF Referrers
<1>11. Sources /\ Pieces /\ ClosedOnlyWhilePreserving
  BY <1>4 DEF Sources, Pieces, ClosedOnlyWhilePreserving
<1>12. ReadersCounted
  <2>1. \A r : {p \in Reader : r \in pins[p]} = {}
    BY <1>1
  <2>2. Cardinality({}) = 0
    BY FS_EmptySet
  <2>3. \A r \in Row : Pinners(r) = 0 /\ FgCopies(r) = 0 /\ IdleCopies(r) = 0
    BY <1>2, <1>6, <2>1, <2>2 DEF Pinners, FgCopies, IdleCopies, None
  <2>4. \A r \in Row : row[r].readers = Pinners(r) + FgCopies(r) + IdleCopies(r)
    BY <1>3, <2>3
  <2> QED BY <2>4 DEF ReadersCounted, Pinners, FgCopies, IdleCopies
<1>13. Frontier
  BY <1>1, <1>2 DEF Frontier
<1> QED BY <1>7, <1>8, <1>9, <1>10, <1>11, <1>12, <1>13 DEF IInv

\* Steps that keep the frontier, and the ones that do not.
LEMMA SlotChanges ==
  ASSUME Next
  PROVE  \/ UNCHANGED <<content, valid, gen, live, created>>
         \/ Reassigned \/ Commit \/ Write
         \/ (\E d \in BOOLEAN : ReleaseEnd(d)) \/ (\E ok \in BOOLEAN : CreateSlot(ok))
         \/ ReleaseDropped("exec") \/ ReleaseDropped("committed")
<1>1. CASE Acquire \/ RequestStop
  BY <1>1 DEF Acquire, AcquireLive, AcquireCold, RequestStop, SlotState
<1>2. CASE Claimed \/ AcquireCancelled \/ PreserveStep \/ OverwriteCancelled \/ ReleaseCommitted
  BY <1>2 DEF Claimed, AcquireCancelled, PreserveStep, PreserveBegin, CopyStart, CopyDone,
     CopyCancelled, CopyFailed, ReadersGone, ReadersCancelled, OverwriteCancelled,
     ReleaseCommitted, SlotState
<1>3. CASE ReassignStep
  BY <1>3 DEF ReassignStep, BatchSubmit, BatchFinish, BatchFailed, BatchAwaited,
     ReassignCancelled, SlotState
<1>4. CASE Execution
  BY <1>4 DEF Execution, Reset, BeforeWrite, BeginRestore, BeforeOverwrite, Capture, SlotState
<1>5. CASE IdleWorker \/ References
  BY <1>5 DEF IdleWorker, IdlePick, IdleExhausted, IdleDefer, IdleCopyStart, IdleCopyDone,
     IdleCopyFailed, StopIdleSpill, References, DropRows, Expire, SlotState
<1>6. CASE Readers \/ IsValid
  BY <1>6 DEF Readers, PinCall, Unpin, PinSource, PinSettled, PinCancelled, IsValid, IsValidCall,
     IsValidGeneration, IsValidRecheck, IsValidReturn, SlotState
<1> QED BY <1>1, <1>2, <1>3, <1>4, <1>5, <1>6 DEF Next, Foreground

\* Where the foreground thread goes, as far as the frontier is concerned.
LEMMA PlaceKept ==
  ASSUME IInv, Next
  PROVE  \/ fg'.pc = fg.pc /\ fg'.why = fg.why
         \/ fg'.pc = "free" \/ Acquire \/ Claimed
         \/ fg.pc = "overwrite" /\ fg'.pc = "exec"
         \/ Commit \/ Reassigned \/ (\E d \in BOOLEAN : ReleaseEnd(d))
         \/ (\E ok \in BOOLEAN : CreateSlot(ok))
         \/ fg'.pc = "release" /\ live' \in {live, FALSE} /\ created' = created
         \/ fg.pc = "exec" /\ fg'.pc = "overwrite"
<1>1. fg \in FgState
  BY DEF IInv, TypeOK, FgState
<1>2. /\ Idle("free").pc = "free" /\ Idle("exec").pc = "exec"
      /\ [Idle("release") EXCEPT !.why = "drop", !.todo = Guarded(1, MaxRows)].pc = "release"
      /\ [Idle("release") EXCEPT !.why = "reset", !.todo = Guarded(1, MaxRows)].pc = "release"
  BY DEF Idle
<1>3. fg' = fg => fg'.pc = fg.pc /\ fg'.why = fg.why
  OBVIOUS
<1>4. CASE RequestStop \/ IdleWorker \/ Readers \/ IsValid
  BY <1>4, <1>3 DEF RequestStop, IdleWorker, IdlePick, IdleExhausted, IdleDefer, IdleCopyStart,
     IdleCopyDone, IdleCopyFailed, StopIdleSpill, Readers, PinCall, Unpin, PinSource, PinSettled,
     PinCancelled, IsValid, IsValidCall, IsValidGeneration, IsValidRecheck, IsValidReturn
<1>5. CASE References
  <2>1. fg' = fg \/ \E r \in Row : fg' = [fg EXCEPT !.todo = @ \ {r}]
    BY <1>5 DEF References, DropRows, Expire
  <2> QED BY <1>1, <1>3, <2>1 DEF FgState
<1>6. fg.stage # None => fg.pc \in {"reassign", "overwrite", "release"}
  BY DEF IInv, Foregrounds
<1>7. CASE PreserveStep
  <2>1. \/ \E r \in Row : \E g : fg' = [fg EXCEPT !.cur = r, !.todo = @ \ {r}, !.stage = g]
        \/ \E g : fg' = [fg EXCEPT !.stage = g]
        \/ fg' = [fg EXCEPT !.stage = None, !.cur = NoRow]
        \/ fg' = Refused /\ fg.stage # None /\ ~Releasing
    BY <1>7 DEF PreserveStep, PreserveBegin, CopyStart, CopyDone, CopyCancelled, CopyFailed,
       ReadersGone, ReadersCancelled, None
  <2>2. fg' = Refused /\ fg.stage # None /\ ~Releasing
           => fg'.pc = "free" \/ (fg.pc = "overwrite" /\ fg'.pc = "exec")
    BY <1>2, <1>6 DEF Refused, Releasing
  <2>3. (\E r \in Row : \E g : fg' = [fg EXCEPT !.cur = r, !.todo = @ \ {r}, !.stage = g])
           => fg'.pc = fg.pc /\ fg'.why = fg.why
    BY <1>1 DEF FgState
  <2>4. (\E g : fg' = [fg EXCEPT !.stage = g]) \/ fg' = [fg EXCEPT !.stage = None, !.cur = NoRow]
           => fg'.pc = fg.pc /\ fg'.why = fg.why
    BY <1>1 DEF FgState
  <2> QED BY <2>1, <2>2, <2>3, <2>4
<1>8. CASE ReassignStep
  <2>1. \/ \E r \in Row : fg' = [fg EXCEPT !.todo = @ \ {r}, !.batch = @ \cup {r}]
        \/ fg' = [fg EXCEPT !.batch = {}, !.await = fg.batch]
        \/ \E r \in Row : fg' = [fg EXCEPT !.await = @ \ {r}]
        \/ fg' = Idle("free") \/ Reassigned
    BY <1>8 DEF ReassignStep, BatchSubmit, BatchFinish, BatchFailed, BatchAwaited,
       ReassignCancelled, Refused
  <2>2. (\E r \in Row : fg' = [fg EXCEPT !.todo = @ \ {r}, !.batch = @ \cup {r}])
           => fg'.pc = fg.pc /\ fg'.why = fg.why
    BY <1>1 DEF FgState
  <2>3. fg' = [fg EXCEPT !.batch = {}, !.await = fg.batch] => fg'.pc = fg.pc /\ fg'.why = fg.why
    BY <1>1 DEF FgState
  <2>4. (\E r \in Row : fg' = [fg EXCEPT !.await = @ \ {r}]) => fg'.pc = fg.pc /\ fg'.why = fg.why
    BY <1>1 DEF FgState
  <2> QED BY <1>2, <2>1, <2>2, <2>3, <2>4
<1>9. CASE AcquireCancelled \/ Write \/ OverwriteCancelled \/ ReleaseCommitted
  BY <1>2, <1>9 DEF AcquireCancelled, Write, OverwriteCancelled, ReleaseCommitted
<1>10. CASE ReleaseDropped("committed") \/ ReleaseDropped("exec") \/ Reset
  BY <1>2, <1>10 DEF ReleaseDropped, Reset, BeginRelease, SlotState
<1>11. CASE BeforeWrite \/ BeginRestore
  <2>1. PICK lo, hi, next : BeforeOverwrite(lo, hi, next)
    BY <1>11 DEF BeforeWrite, BeginRestore
  <2>2. fg.pc = "exec" /\ fg' = [Idle("overwrite") EXCEPT !.todo = Guarded(lo, hi), !.lo = lo,
                                                          !.hi = hi, !.next = next]
    BY <2>1 DEF BeforeOverwrite
  <2>3. fg'.pc = "overwrite"
    BY <2>2 DEF Idle
  <2> QED BY <2>2, <2>3
<1>12. CASE \E r \in Row, i, j \in Position, b \in BOOLEAN : Capture(r, i, j, b)
  BY <1>3, <1>12 DEF Capture
<1> QED BY <1>4, <1>5, <1>7, <1>8, <1>9, <1>10, <1>11, <1>12 DEF Next, Foreground, Execution

\* A frontier that may be leased live belongs to a slot that exists.
LEMMA FrontierStep ==
  ASSUME IInv, Frontier, Next
  PROVE  Frontier'
<1>1. CASE Acquire
  BY <1>1 DEF Acquire, AcquireLive, AcquireCold, Frontier, Idle, SlotState
<1>2. CASE Claimed
  BY <1>2 DEF Claimed, Frontier, Idle, SlotState
<1>3. CASE Commit
  BY <1>3 DEF Commit, Frontier, Idle
<1>4. CASE Reassigned
  BY <1>4 DEF Reassigned, Frontier, Idle
<1>5. CASE \E d \in BOOLEAN : ReleaseEnd(d)
  BY <1>5 DEF ReleaseEnd, Frontier, Idle
<1>6. CASE \E ok \in BOOLEAN : CreateSlot(ok)
  BY <1>6 DEF CreateSlot, Frontier, Idle
<1>7. CASE ReleaseDropped("exec") \/ ReleaseDropped("committed")
  <2>1. fg'.pc = "release" /\ live' = FALSE
    BY <1>7 DEF ReleaseDropped, BeginRelease, Idle
  <2> QED BY <2>1 DEF Frontier
<1>8. CASE Write
  <2>1. fg'.pc = "exec" /\ fg.pc = "overwrite" /\ UNCHANGED <<live, created>>
    BY <1>8 DEF Write, Idle
  <2> QED BY <2>1 DEF Frontier
<1>9. CASE /\ UNCHANGED <<live, created>>
           /\ ~Acquire /\ ~Claimed /\ ~Commit /\ ~Reassigned
           /\ ~(\E d \in BOOLEAN : ReleaseEnd(d)) /\ ~(\E ok \in BOOLEAN : CreateSlot(ok))
  <2>1. \/ fg'.pc = fg.pc /\ fg'.why = fg.why
        \/ fg'.pc = "free" \/ fg'.pc = "release"
        \/ fg.pc = "overwrite" /\ fg'.pc = "exec"
        \/ fg.pc = "exec" /\ fg'.pc = "overwrite"
    BY <1>9, PlaceKept
  <2> QED BY <1>9, <2>1 DEF Frontier
<1> QED BY <1>1, <1>2, <1>3, <1>4, <1>5, <1>6, <1>7, <1>8, <1>9, SlotChanges

\* Every step keeps the invariant.
LEMMA NextInv ==
  ASSUME IInv, Frontier, [Next]_vars
  PROVE  IInv' /\ Frontier'
<1>1. CASE Acquire \/ RequestStop
  BY <1>1, AcquireStep, RequestStopStep, FrontierStep DEF Next
<1>2. CASE PreserveStep
  BY <1>2, PreserveBeginStep, CopyStartStep, CopyDoneStep, CopyCancelledStep, CopyFailedStep,
     ReadersGoneStep, ReadersCancelledStep, FrontierStep DEF PreserveStep, Next, Foreground
<1>3. CASE ReassignStep
  BY <1>3, BatchSubmitStep, BatchFinishStep, BatchFailedStep, BatchAwaitedStep,
     ReassignCancelledStep, ReassignedStep, FrontierStep DEF ReassignStep, Next, Foreground
<1>4. CASE Claimed \/ AcquireCancelled \/ (\E d \in BOOLEAN : ReleaseEnd(d))
           \/ (\E ok \in BOOLEAN : CreateSlot(ok)) \/ Write \/ OverwriteCancelled
           \/ ReleaseCommitted \/ ReleaseDropped("committed")
  BY <1>4, ClaimedStep, AcquireCancelledStep, ReleaseEndStep, CreateSlotStep, WriteStep,
     OverwriteCancelledStep, ReleaseCommittedStep, ReleaseDroppedStep, FrontierStep
  DEF Next, Foreground
<1>5. CASE Execution
  <2>1. CASE Reset \/ BeforeWrite \/ BeginRestore \/ Commit \/ ReleaseDropped("exec")
    BY <1>5, <2>1, ResetStep, BeforeWriteStep, BeginRestoreStep, CommitStep, ReleaseDroppedStep,
       FrontierStep DEF Next
  <2>2. CASE \E r \in Row, i, j \in Position, b \in BOOLEAN : Capture(r, i, j, b)
    BY <1>5, <2>2, CaptureStep, FrontierStep DEF Next
  <2> QED BY <1>5, <2>1, <2>2 DEF Execution
<1>6. CASE IdleWorker
  BY <1>6, IdleMovesStep, IdleCopyStartStep, IdleCopyDoneStep, IdleCopyFailedStep, FrontierStep
  DEF IdleWorker, Next
<1>7. CASE Readers
  BY <1>7, PinWaitStep, PinSourceStep, UnpinStep, FrontierStep DEF Readers, Next
<1>8. CASE References
  BY <1>8, DropRowsStep, ExpireStep, FrontierStep DEF References, Next
<1>9. CASE IsValid
  BY <1>9, IsValidCallStep, IsValidGenerationStep, IsValidRecheckStep, IsValidReturnStep,
     FrontierStep DEF IsValid, Next
<1>10. CASE UNCHANGED vars
  <2>1. UNCHANGED <<SlotState, Threads>> /\ UNCHANGED <<row, fg, stop, idle, pins, want, chk>>
    BY <1>10 DEF vars, SlotState, Threads
  <2>2. Referrers'
    BY <2>1 DEF IInv, Referrers, Complete
  <2>3. IInv'
    <3>1. /\ want \in [Reader -> Row \cup {NoRow}]
          /\ chk \in [Checker -> [pc : {"done", "generation", "recheck", "returned"},
                                  row : Row \cup {NoRow}, result : BOOLEAN]]
      BY DEF IInv, TypeOK
    <3> QED BY <2>1, <2>2, <3>1, ObserverMoves
  <2> QED BY <2>1, <2>3 DEF Frontier, SlotState
<1> QED BY <1>1, <1>2, <1>3, <1>4, <1>5, <1>6, <1>7, <1>8, <1>9, <1>10 DEF Next, Foreground

\* The inductive invariant holds throughout: guards, batches, pieces, pins and
\* expiries keep it whatever their order.
THEOREM InvariantHolds == Spec => [](IInv /\ Frontier)
<1>1. Init => IInv /\ Frontier
  BY InitInv
<1>2. IInv /\ Frontier /\ [Next]_vars => (IInv /\ Frontier)'
  BY NextInv
<1> QED BY <1>1, <1>2, PTL DEF Spec

-----------------------------------------------------------------------------
(* The properties of the runs, for every number of ranges, readers and rows *)

\* A range that is neither preserved nor retired is still in the slot as captured
\* (the assert of BorrowedRows::Pin, the checks of CopyPiece).
THEOREM SourceIntactHolds == Spec => []SourceIntact
<1>1. IInv => SourceIntact
  BY DEF IInv, Sources, SourceIntact, Settled
<1> QED BY <1>1, InvariantHolds, PTL

\* A pinned source is never overwritten, emptied or destroyed under its reader.
THEOREM PinnedReadsExactHolds == Spec => []PinnedReadsExact
<1>1. ASSUME IInv PROVE PinnedReadsExact
  <2>1. SUFFICES ASSUME NEW p \in Reader, NEW r \in pins[p]
                 PROVE  row[r].borrowed /\ row[r].gen = gen /\ Same(content, row[r].data, r)
    BY DEF PinnedReadsExact
  <2>2. r \in Row
    BY <1>1 DEF IInv, TypeOK
  <2>3. row[r].readers > 0 /\ row[r].readers \in Nat
    BY <1>1, <2>2, ReadersPositive DEF IInv, TypeOK, RowState
  <2>4. row[r].borrowed
    BY <1>1, <2>2, <2>3, UnborrowedFields DEF IInv, Ranges
  <2>5. ~Settled(r)
    BY <2>3 DEF Settled
  <2> QED BY <1>1, <2>2, <2>4, <2>5 DEF IInv, Sources, Registered
<1> QED BY <1>1, InvariantHolds, PTL

\* Preserved backing is the captured range, and backed ranges are lost only by a
\* failed copy of a release.
THEOREM BackingExactHolds == Spec => []BackingExact
<1>1. ASSUME IInv PROVE BackingExact
  <2>1. SUFFICES ASSUME NEW r \in Registered
                 PROVE  /\ row[r].materialized =>
                             row[r].copied = Count(r) /\ Same(row[r].got, row[r].data, r)
                        /\ row[r].retired /\ row[r].backed => row[r].lost
    BY <1>1 DEF BackingExact, IInv
  <2>2. row[r].first \in Nat /\ row[r].end \in Nat /\ row[r].copied \in Nat
    <3>1. row[r] \in RowState
      BY <1>1 DEF IInv, TypeOK, Registered
    <3> QED BY <3>1, SlotAssumption DEF RowState, Position
  <2>3. /\ \A i \in row[r].first..(row[r].first + row[r].copied - 1) : row[r].got[i] = row[r].data[i]
        /\ row[r].materialized => row[r].copied = Count(r)
        /\ row[r].retired /\ row[r].backed => row[r].lost
    BY <1>1 DEF IInv, Pieces
  <2>4. row[r].copied = Count(r) => row[r].first + row[r].copied - 1 = row[r].end
    BY <2>2 DEF Count
  <2> QED BY <2>3, <2>4 DEF Same, RowsOf
<1> QED BY <1>1, InvariantHolds, PTL

\* The reader count is exactly the pins and copies outstanding.
THEOREM ReadersCountedHolds == Spec => []ReadersCounted
<1>1. IInv => ReadersCounted
  BY DEF IInv
<1> QED BY <1>1, InvariantHolds, PTL

\* No guard that gave up leaves a range closed to readers.
THEOREM ClosedOnlyWhilePreservingHolds == Spec => []ClosedOnlyWhilePreserving
<1>1. IInv => ClosedOnlyWhilePreserving
  BY DEF IInv
<1> QED BY <1>1, InvariantHolds, PTL

\* The lock-free IsValid never rejects a preserved range.
THEOREM NoFalseRejectionHolds == Spec => []NoFalseRejection
<1>1. IInv => NoFalseRejection
  BY DEF IInv, Referrers, NoFalseRejection
<1> QED BY <1>1, InvariantHolds, PTL

\* No step overwrites, empties or destroys rows that are being read in the slot.
THEOREM NoWriteUnderReaderHolds == Spec => NoWriteUnderReader
<1>1. ASSUME IInv, [Next]_vars
      PROVE  [\A r \in Row : row[r].readers > 0 =>
                gen' = gen /\ \A i \in RowsOf(r) : content'[i] = content[i]]_vars
  <2>1. CASE UNCHANGED <<content, gen>>
    BY <2>1
  <2>2. ASSUME NEW r \in Row, row[r].readers > 0
        PROVE  r \in Registered /\ ~Settled(r) /\ row[r].first \in Nat /\ row[r].end \in Nat
    <3>1. row[r].readers \in Nat /\ row[r].first \in Nat /\ row[r].end \in Nat
      <4>1. row[r] \in RowState
        BY <1>1 DEF IInv, TypeOK
      <4> QED BY <4>1, SlotAssumption DEF RowState, Position
    <3>2. row[r].borrowed
      BY <1>1, <2>2, <3>1, UnborrowedFields DEF IInv, Ranges
    <3> QED BY <2>2, <3>1, <3>2 DEF Registered, Settled
  <2>3. CASE \E d \in BOOLEAN : ReleaseEnd(d)
    <3>1. fg.pc = "release" /\ fg.stage = None /\ fg.todo = {}
      BY <2>3 DEF ReleaseEnd
    <3>2. \A r \in Registered : Settled(r)
      BY <1>1, <3>1, NothingLeft DEF IInv, Foregrounds
    <3> QED BY <2>2, <3>2
  <2>4. CASE Write
    <3>1. /\ fg.pc = "overwrite" /\ fg.stage = None /\ fg.todo = {} /\ gen' = gen
          /\ content' = [i \in Position |-> IF i \in fg.lo..fg.hi THEN clock + 1 ELSE content[i]]
      BY <2>4 DEF Write
    <3>2. fg.batch = {} /\ fg.await = {} /\ fg.cur = NoRow /\ NoRow \notin Row
      BY <1>1, <3>1, SlotAssumption DEF IInv, Foregrounds
    <3>3. ASSUME NEW r \in Row, row[r].readers > 0, NEW i \in RowsOf(r)
          PROVE  content'[i] = content[i]
      <4>1. ~(row[r].first <= fg.hi /\ fg.lo <= row[r].end)
        BY <1>1, <2>2, <3>1, <3>2, <3>3 DEF IInv, Passed, Concerned, Working
      <4>2. /\ row[r].first \in Position /\ row[r].end \in 0..MaxRows /\ MaxRows \in Nat
            /\ fg.lo \in Position /\ fg.hi \in 0..MaxRows
        BY <1>1, SlotAssumption DEF IInv, TypeOK, RowState
      <4>3. i \in Position /\ i \notin fg.lo..fg.hi
        BY <3>3, <4>1, <4>2 DEF RowsOf, Position
      <4> QED BY <3>1, <4>3
    <3> QED BY <3>1, <3>3
  <2>5. CASE UNCHANGED vars
    BY <2>5
  <2>6. CASE Next
    <3>1. CASE Reassigned \/ Commit \/ (\E ok \in BOOLEAN : CreateSlot(ok))
               \/ ReleaseDropped("exec") \/ ReleaseDropped("committed")
      BY <2>1, <3>1 DEF Reassigned, Commit, CreateSlot, ReleaseDropped
    <3> QED BY <2>1, <2>3, <2>4, <2>6, <3>1, SlotChanges
  <2> QED BY <1>1, <2>5, <2>6
<1> QED BY <1>1, InvariantHolds, PTL DEF Spec, NoWriteUnderReader

\* A refused or cancelled acquisition leaves the frontier as it found it.
THEOREM RefusalKeepsFrontierHolds == Spec => RefusalKeepsFrontier
<1>1. ASSUME [Next]_vars
      PROVE  [fg.pc \in {"free", "drain", "reassign"} /\ fg'.pc \in {"free", "drain", "reassign"} =>
                UNCHANGED <<content, valid, gen, live, created>>]_vars
  <2>1. CASE UNCHANGED <<content, valid, gen, live, created>>
    BY <2>1
  <2>2. CASE Reassigned
    BY <2>2 DEF Reassigned, Idle
  <2>3. CASE Commit \/ Write \/ (\E d \in BOOLEAN : ReleaseEnd(d))
             \/ (\E ok \in BOOLEAN : CreateSlot(ok))
             \/ ReleaseDropped("exec") \/ ReleaseDropped("committed")
    BY <2>3 DEF Commit, Write, ReleaseEnd, CreateSlot, ReleaseDropped
  <2>4. CASE UNCHANGED vars
    BY <2>4
  <2> QED BY <1>1, <2>1, <2>2, <2>3, <2>4, SlotChanges
<1> QED BY <1>1, PTL DEF Spec, RefusalKeepsFrontier
=============================================================================
