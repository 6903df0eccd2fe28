------------------------------- MODULE Ledger -------------------------------
(***************************************************************************)
(* The resource ledger of the component cache (src/src/cache/ledger.cpp):  *)
(* admission, assignment, pinning and release of every cached byte.        *)
(*                                                                         *)
(* One mutex protects the counters, so each locked region of the code is   *)
(* one action here.  Destructors are NOT one action: dropping the last     *)
(* handle of an assignment runs ~PinToken, ~ChargeToken and ~Allocation in *)
(* that order, each with its own locked region, and other threads run      *)
(* between them.                                                           *)
(***************************************************************************)
EXTENDS Integers, FiniteSets, FiniteSetsExt

CONSTANTS Blk,        \* identities of detail::Allocation objects
          Tok,        \* identities of detail::ChargeToken objects
          PinId,      \* identities of detail::PinToken objects
          Sizes,      \* byte sizes a caller may ask for
          InitLimits, \* the ResourceLimits given to the constructor
          LaterLimits,\* the limits ConstrainLimits may be called with
          Watched,    \* the categories whose peak is followed (all, in the code)
          FaultSteps, \* the steps FailAfter is called on
          MaxFault    \* bound on FailAfter's count

Free     == "BackingFree"
Spill    == "BackingAssigned"
Chunk    == "BackingMaterialized"
Private  == "PrivateState"
Tail     == "PrivateTail"
Metadata == "Metadata"
Staging  == "TransferStaging"

ResourceCategory == {Free, Spill, Chunk, Private, Tail, Metadata, Staging}
Payload          == {Spill, Chunk, Private, Tail}
Assignable       == {Spill, Private, Tail}
LedgerStep       == {"reserve", "convert", "pin"}

Limits == [total : Nat, ram : Nat, staging : Nat, pinned : Nat]

ASSUME LedgerAssumption ==
  /\ IsFiniteSet(Blk) /\ IsFiniteSet(PinId)
  /\ Sizes \subseteq Nat \ {0}
  /\ InitLimits \in Limits
  /\ LaterLimits \subseteq Limits
  /\ Watched \subseteq ResourceCategory
  /\ FaultSteps \subseteq LedgerStep
  /\ MaxFault \in Nat

VARIABLES alloc,   \* the Allocation objects: category, bytes, reserved, pins
          tok,     \* the ChargeToken objects and whether a handle refers to them
          pin,     \* the PinToken objects: the token each one keeps alive
          snap,    \* the live counters of ResourceSnapshot
          peak,    \* its peak_* counters
          limits,  \* the current ResourceLimits
          faults   \* armed one-shot faults: -1 is none, n fails after n attempts

vars == <<alloc, tok, pin, snap, peak, limits, faults>>

-----------------------------------------------------------------------------
(* Objects and references *)

NoAlloc == [live |-> FALSE, category |-> Free, backing |-> FALSE, bytes |-> 0,
            reserved |-> FALSE, pins |-> 0]
NoTok   == [live |-> FALSE, held |-> FALSE, charge |-> FALSE, pooled |-> FALSE,
            blocks |-> {}]
NoPin   == {}

LiveBlocks == {b \in Blk : alloc[b].live}

\* The pin tokens that keep charge token t alive.
PinsOf(t) == {p \in PinId : pin[p] = {t}}

\* Mutant: a pin does not keep its token alive.
UnreferencedIgnoresPins(t) == tok[t].live /\ ~tok[t].held

\* shared_ptr reference count of t is zero: no handle and no pin refers to it.
Unreferenced(t) == tok[t].live /\ ~tok[t].held /\ PinsOf(t) = {}

\* Mutant: the pool keeps an allocation that went back to free.
OrphanedUnlessFree(b) ==
  /\ alloc[b].live /\ alloc[b].category # Free
  /\ \A t \in Tok : ~(tok[t].live /\ b \in tok[t].blocks)

\* No token refers to b any more.
Orphaned(b) ==
  /\ alloc[b].live
  /\ \A t \in Tok : ~(tok[t].live /\ b \in tok[t].blocks)

\* The assignment tokens (pooled) that own block b.
OwnersOf(b) == {t \in Tok : tok[t].live /\ tok[t].pooled /\ b \in tok[t].blocks}

\* b can be named by a caller through an original, converted pool handle.
IsPoolHandle(t) == /\ tok[t].held /\ tok[t].charge /\ ~tok[t].pooled
                   /\ \A b \in tok[t].blocks : alloc[b].backing
PoolBlocks == UNION {tok[t].blocks : t \in {u \in Tok : tok[u].live /\ IsPoolHandle(u)}}

SizeOf(S) == MapThenSumSet(LAMBDA b : alloc[b].bytes, S)

-----------------------------------------------------------------------------
(* Counters *)

\* Mutant: the bytes are added to the new category and never left the old one.
MoveAddsOnly(bytes, c, d, n) == [bytes EXCEPT ![d] = @ + n]

\* Move n bytes from category c to category d.
Move(bytes, c, d, n) == [[bytes EXCEPT ![c] = @ - n] EXCEPT ![d] = @ + n]

MaxOf(m, n) == IF m >= n THEN m ELSE n

\* LedgerState::Peaks
Peaks(p, s) ==
  [bytes  |-> [c \in Watched |-> MaxOf(p.bytes[c], s.bytes[c])],
   total  |-> MaxOf(p.total, s.total),
   ram    |-> MaxOf(p.ram, s.ram),
   pinned |-> MaxOf(p.pinned, s.pinned)]

\* LedgerState::Fail: an armed fault at count 0 disarms itself and throws, an
\* armed fault above 0 counts this attempt.
Fails(step) == faults[step] = 0

Attempt(step) == faults' = [faults EXCEPT ![step] = IF @ >= 0 THEN @ - 1 ELSE @]

\* A throwing operation leaves everything but the fault counter unchanged.
Throws(step) == /\ Fails(step)
                /\ Attempt(step)
                /\ UNCHANGED <<alloc, tok, pin, snap, peak, limits>>

-----------------------------------------------------------------------------
(* Operations *)

Init ==
  /\ alloc  = [b \in Blk |-> NoAlloc]
  /\ tok    = [t \in Tok |-> NoTok]
  /\ pin    = [p \in PinId |-> NoPin]
  /\ snap   = [bytes    |-> [c \in ResourceCategory |-> 0],
               reserved |-> [c \in ResourceCategory |-> 0],
               total    |-> 0, ram |-> 0, pinned |-> 0]
  /\ peak   = [bytes |-> [c \in Watched |-> 0],
               total |-> 0, ram |-> 0, pinned |-> 0]
  /\ limits = InitLimits
  /\ faults = [s \in LedgerStep |-> -1]

\* Mutant: the category's own limit is not consulted.
AdmitsTotalOnly(c, n) == n <= limits.total - snap.total

\* The admission test of ResourceLedger::Reserve.
Admits(c, n) ==
  /\ n <= limits.total - snap.total
  /\ IF c = Staging THEN n <= limits.staging - snap.bytes[Staging]
                    ELSE n <= limits.ram - snap.ram

\* ResourceLedger::Reserve
Reserve(t, b, c, n) ==
  /\ ~tok[t].live /\ ~alloc[b].live
  /\ c \in ResourceCategory \ {Spill, Chunk}
  /\ \/ Throws("reserve")
     \/ /\ ~Fails("reserve")
        /\ Attempt("reserve")
        /\ Admits(c, n)
        /\ alloc' = [alloc EXCEPT ![b] =
             [live |-> TRUE, category |-> c, backing |-> c = Free, bytes |-> n,
              reserved |-> TRUE, pins |-> 0]]
        /\ tok' = [tok EXCEPT ![t] =
             [live |-> TRUE, held |-> TRUE, charge |-> FALSE, pooled |-> FALSE,
              blocks |-> {b}]]
        /\ snap' = [snap EXCEPT !.bytes[c] = @ + n, !.reserved[c] = @ + n,
                                !.total = @ + n,
                                !.ram = IF c = Staging THEN @ ELSE @ + n]
        /\ peak' = Peaks(peak, snap')
        /\ UNCHANGED <<pin, limits>>
     \/ /\ ~Fails("reserve")
        /\ ~Admits(c, n)            \* ResourceExhausted, after the fault count
        /\ Attempt("reserve")
        /\ UNCHANGED <<alloc, tok, pin, snap, peak, limits>>

\* ResourceReservation::Convert: the reservation becomes a charge and assigned
\* spill backing becomes a materialized chunk.
Convert(t) ==
  /\ tok[t].held /\ ~tok[t].charge
  /\ \/ Throws("convert")
     \/ /\ ~Fails("convert")
        /\ Attempt("convert")
        /\ LET B == tok[t].blocks
               c == alloc[CHOOSE b \in B : TRUE].category
               d == IF c = Spill THEN Chunk ELSE c
               n == SizeOf(B)
           IN /\ alloc' = [b \in Blk |-> IF b \in B
                             THEN [alloc[b] EXCEPT !.reserved = FALSE, !.category = d]
                             ELSE alloc[b]]
              /\ snap' = [snap EXCEPT !.reserved[c] = @ - n,
                                      !.bytes = Move(@, c, d, n)]
        /\ tok' = [tok EXCEPT ![t].charge = TRUE]
        /\ peak' = Peaks(peak, snap')
        /\ UNCHANGED <<pin, limits>>

\* Mutant: a block another borrower holds is assigned again.
AnyState(B) == B # {}

\* Every block of the group is still in the pool.
AllFree(B) == \A b \in B : alloc[b].category = Free

\* ResourceCharge::ReserveBacking: assign a group of free pool blocks to one
\* new owner.  A block another borrower holds makes the whole call throw.
ReserveBacking(t, B, c) ==
  /\ ~tok[t].live
  /\ B # {} /\ B \subseteq PoolBlocks
  /\ c \in Assignable
  /\ AllFree(B)
  /\ \/ Throws("reserve")
     \/ /\ ~Fails("reserve")
        /\ Attempt("reserve")
        /\ alloc' = [b \in Blk |-> IF b \in B
                       THEN [alloc[b] EXCEPT !.category = c, !.reserved = TRUE]
                       ELSE alloc[b]]
        /\ tok' = [tok EXCEPT ![t] =
             [live |-> TRUE, held |-> TRUE, charge |-> FALSE, pooled |-> TRUE,
              blocks |-> B]]
        /\ snap' = [snap EXCEPT !.bytes = Move(@, Free, c, SizeOf(B)),
                                !.reserved[c] = @ + SizeOf(B)]
        /\ peak' = Peaks(peak, snap')
        /\ UNCHANGED <<pin, limits>>

\* The validation of Pin: every block is payload this token owns, and a
\* reservation may be pinned only where it borrows pool backing.
Pinnable(t) ==
  \A b \in tok[t].blocks :
    /\ alloc[b].category \in Payload
    /\ alloc[b].reserved => tok[t].pooled /\ alloc[b].category \in {Spill, Tail}
    /\ alloc[b].backing => tok[t].pooled

NewlyPinned(t) == SizeOf({b \in tok[t].blocks : alloc[b].pins = 0})

\* ResourceCharge::PinPersistence and ResourceReservation::PinPersistence
Pin(p, t) ==
  /\ pin[p] = NoPin
  /\ tok[t].held
  /\ Pinnable(t)
  /\ \/ Throws("pin")
     \/ /\ ~Fails("pin")
        /\ Attempt("pin")
        /\ NewlyPinned(t) <= limits.pinned - snap.pinned
        /\ snap' = [snap EXCEPT !.pinned = @ + NewlyPinned(t)]
        /\ alloc' = [b \in Blk |-> IF b \in tok[t].blocks
                       THEN [alloc[b] EXCEPT !.pins = @ + 1] ELSE alloc[b]]
        /\ pin' = [pin EXCEPT ![p] = {t}]
        /\ peak' = Peaks(peak, snap')
        /\ UNCHANGED <<tok, limits>>
     \/ /\ ~Fails("pin")
        /\ NewlyPinned(t) > limits.pinned - snap.pinned  \* bad_alloc
        /\ Attempt("pin")
        /\ UNCHANGED <<alloc, tok, pin, snap, peak, limits>>

-----------------------------------------------------------------------------
(* Release: the chain of destructors *)

\* The owner drops its last copy of a reservation or charge handle.
DropHandle(t) ==
  /\ tok[t].held
  /\ tok' = [tok EXCEPT ![t].held = FALSE]
  /\ UNCHANGED <<alloc, pin, snap, peak, limits, faults>>

\* ~PinToken: the last copy of a persistence pin dies.
DestroyPin(p) ==
  /\ pin[p] # NoPin
  /\ LET t == CHOOSE u \in Tok : pin[p] = {u}
         B == tok[t].blocks
     IN /\ alloc' = [b \in Blk |-> IF b \in B
                       THEN [alloc[b] EXCEPT !.pins = @ - 1] ELSE alloc[b]]
        /\ snap' = [snap EXCEPT !.pinned = @ - SizeOf({b \in B : alloc[b].pins = 1})]
  /\ pin' = [pin EXCEPT ![p] = NoPin]
  /\ UNCHANGED <<tok, peak, limits, faults>>

\* ~ChargeToken: an assignment returns its blocks to the pool; an original
\* token only drops its reference to the allocation.
DestroyToken(t) ==
  /\ Unreferenced(t)
  /\ tok' = [tok EXCEPT ![t] = NoTok]
  /\ IF tok[t].pooled
     THEN LET B == tok[t].blocks
              c == alloc[CHOOSE b \in B : TRUE].category
              r == alloc[CHOOSE b \in B : TRUE].reserved
              n == SizeOf(B)
          IN /\ alloc' = [b \in Blk |-> IF b \in B
                            THEN [alloc[b] EXCEPT !.category = Free, !.reserved = FALSE]
                            ELSE alloc[b]]
             /\ snap' = [snap EXCEPT !.bytes = Move(@, c, Free, n),
                                     !.reserved[c] = IF r THEN @ - n ELSE @]
             /\ peak' = Peaks(peak, snap')
     ELSE UNCHANGED <<alloc, snap, peak>>
  /\ UNCHANGED <<pin, limits, faults>>

\* ~Allocation: the last token that referred to b is gone.
DestroyAllocation(b) ==
  /\ Orphaned(b)
  /\ LET a == alloc[b]
     IN snap' = [snap EXCEPT !.bytes[a.category] = @ - a.bytes,
                             !.reserved[a.category] = IF a.reserved THEN @ - a.bytes ELSE @,
                             !.total = @ - a.bytes,
                             !.ram = IF a.category = Staging THEN @ ELSE @ - a.bytes]
  /\ alloc' = [alloc EXCEPT ![b] = NoAlloc]
  /\ UNCHANGED <<tok, pin, peak, limits, faults>>

-----------------------------------------------------------------------------
(* Administration *)

\* ResourceLedger::ConstrainLimits: limits only decrease and never below use.
ConstrainLimits(l) ==
  /\ l.total <= limits.total /\ l.ram <= limits.ram
  /\ l.staging <= limits.staging /\ l.pinned <= limits.pinned
  /\ l.total >= snap.total /\ l.ram >= snap.ram
  /\ l.staging >= snap.bytes[Staging] /\ l.pinned >= snap.pinned
  /\ limits' = l
  /\ UNCHANGED <<alloc, tok, pin, snap, peak, faults>>

\* ResourceLedger::SnapshotAndResetPeaks
SnapshotAndResetPeaks ==
  /\ peak' = [bytes |-> [c \in Watched |-> snap.bytes[c]], total |-> snap.total, ram |-> snap.ram,
              pinned |-> snap.pinned]
  /\ UNCHANGED <<alloc, tok, pin, snap, limits, faults>>

\* ResourceLedger::FailAfter
FailAfter(s, n) ==
  /\ faults' = [faults EXCEPT ![s] = n]
  /\ UNCHANGED <<alloc, tok, pin, snap, peak, limits>>

\* ResourceLedger::ClearFaults
ClearFaults ==
  /\ faults' = [s \in LedgerStep |-> -1]
  /\ UNCHANGED <<alloc, tok, pin, snap, peak, limits>>

Drop ==
  \/ \E t \in Tok : DropHandle(t)
  \/ \E p \in PinId : DestroyPin(p)

Release ==
  \/ \E t \in Tok : DestroyToken(t)
  \/ \E b \in Blk : DestroyAllocation(b)

Next ==
  \/ \E t \in Tok, b \in Blk, c \in ResourceCategory, n \in Sizes : Reserve(t, b, c, n)
  \/ \E t \in Tok : Convert(t)
  \/ \E t \in Tok, B \in SUBSET Blk, c \in Assignable : ReserveBacking(t, B, c)
  \/ \E p \in PinId, t \in Tok : Pin(p, t)
  \/ Drop
  \/ Release
  \/ \E l \in LaterLimits : ConstrainLimits(l)
  \/ SnapshotAndResetPeaks
  \/ \E s \in FaultSteps, n \in 0..MaxFault : FailAfter(s, n)
  \/ ClearFaults

Spec == Init /\ [][Next]_vars

-----------------------------------------------------------------------------
(* Properties *)

Snapshot(S) == [ResourceCategory -> S]

\* Every object and counter has the type the code declares for it; counters of
\* bytes are size_t in the code, so a negative value here is a wrap-around there.
TypeOK ==
  /\ alloc \in [Blk -> [live : BOOLEAN, category : ResourceCategory,
                        backing : BOOLEAN, bytes : Nat, reserved : BOOLEAN,
                        pins : Nat]]
  /\ tok \in [Tok -> [live : BOOLEAN, held : BOOLEAN, charge : BOOLEAN,
                      pooled : BOOLEAN, blocks : SUBSET Blk]]
  /\ pin \in [PinId -> {NoPin} \cup {{t} : t \in Tok}]
  /\ snap \in [bytes : Snapshot(Int), reserved : Snapshot(Int), total : Int,
               ram : Int, pinned : Int]
  /\ peak \in [bytes : [Watched -> Int], total : Int, ram : Int, pinned : Int]
  /\ limits \in Limits
  /\ faults \in [LedgerStep -> -1..MaxFault]

\* The counters of LedgerState::snapshot are exactly the bytes of the objects
\* alive, category by category, at every point of the destructor chain: nothing
\* is counted twice, lost, or left behind by a failed or partial release.
Conservation ==
  /\ TypeOK
  /\ \A c \in ResourceCategory :
       /\ snap.bytes[c] = SizeOf({b \in LiveBlocks : alloc[b].category = c})
       /\ snap.reserved[c] =
            SizeOf({b \in LiveBlocks : alloc[b].category = c /\ alloc[b].reserved})
  /\ snap.total = SizeOf(LiveBlocks)
  /\ snap.ram = SizeOf({b \in LiveBlocks : alloc[b].category # Staging})
  /\ snap.pinned = SizeOf({b \in LiveBlocks : alloc[b].pins > 0})

\* No admission, in any interleaving with ConstrainLimits, takes a counter past
\* its limit; the unsigned subtractions limit - counter in Reserve and Pin
\* depend on it.
WithinLimits ==
  /\ snap.total <= limits.total
  /\ snap.ram <= limits.ram
  /\ snap.bytes[Staging] <= limits.staging
  /\ snap.pinned <= limits.pinned

\* A pool block has at most one assigned owner, has one exactly when it is not
\* free, and the blocks of one assignment agree on category and state (the
\* asserts of Info and ~ChargeToken).
ExclusiveBacking ==
  /\ \A b \in Blk : alloc[b].backing =>
       /\ \A t, u \in OwnersOf(b) : t = u
       /\ (OwnersOf(b) # {}) <=> (alloc[b].category # Free)
  /\ \A t \in Tok : tok[t].live => \A b, d \in tok[t].blocks :
       /\ alloc[b].live
       /\ alloc[b].category = alloc[d].category
       /\ alloc[b].reserved = alloc[d].reserved

\* The pins that hold block b through a live token.
PinsOn(b) == {p \in PinId : \E t \in Tok : /\ pin[p] = {t} /\ tok[t].live
                                          /\ b \in tok[t].blocks}

\* A block a disk job has pinned stays alive, keeps its owner's token and is
\* not in the pool of free blocks: ~ChargeToken and ~Allocation never see a pin.
PinnedStaysOwned ==
  \A b \in Blk :
    /\ alloc[b].pins = Cardinality(PinsOn(b))
    /\ alloc[b].pins > 0 => alloc[b].live /\ alloc[b].category # Free

\* Bytes written to a pinned block cannot change hands: as long as a pin
\* survives a step, the same token owns the block after it, and no later Convert
\* moves it back to a reservation.
PinnedBlockStable ==
  [][\A b \in Blk : alloc[b].pins > 0 /\ alloc'[b].pins > 0 =>
       /\ OwnersOf(b)' = OwnersOf(b)
       /\ alloc'[b].reserved => alloc[b].reserved]_vars

\* Nothing leaks in the destructor chain: when every handle and every pin is
\* gone and no destructor is left to run, the ledger is empty.
LedgerDrains ==
  (/\ \A t \in Tok : ~tok[t].held /\ ~Unreferenced(t)
   /\ \A p \in PinId : pin[p] = NoPin
   /\ \A b \in Blk : ~Orphaned(b)) => snap.total = 0 /\ LiveBlocks = {}
=============================================================================
