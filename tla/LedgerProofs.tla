---------------------------- MODULE LedgerProofs ----------------------------
(***************************************************************************)
(* Who owns a block of the resource ledger and what its counters sum up,   *)
(* proved for any number of blocks, tokens, pins, sizes and limits.        *)
(*                                                                         *)
(* The first part follows the references between the three kinds of        *)
(* objects (pin -> token -> allocation) and ignores the byte counters: no  *)
(* guard that matters for ownership reads them.                            *)
(***************************************************************************)
EXTENDS Ledger, SumLemmas, FiniteSetTheorems, TLAPS

Objects ==
  /\ alloc \in [Blk -> [live : BOOLEAN, category : ResourceCategory,
                        backing : BOOLEAN, bytes : Nat, reserved : BOOLEAN,
                        pins : Nat]]
  /\ tok \in [Tok -> [live : BOOLEAN, held : BOOLEAN, charge : BOOLEAN,
                      pooled : BOOLEAN, blocks : SUBSET Blk]]
  /\ pin \in [PinId -> {NoPin} \cup {{t} : t \in Tok}]

\* b is assigned to t out of the pool; t is the handle that created b.
Assigned(t, b) == tok[t].live /\ tok[t].pooled /\ b \in tok[t].blocks
Original(t, b) == tok[t].live /\ ~tok[t].pooled /\ b \in tok[t].blocks

\* A token is alive while a handle or a pin refers to it, and keeps its blocks
\* alive; the blocks of one token agree (Info and ~ChargeToken read the first).
Handles ==
  /\ \A t \in Tok : tok[t].held => tok[t].live
  /\ \A t \in Tok : tok[t].live => tok[t].blocks # {}
  /\ \A t \in Tok : tok[t].live => \A b \in tok[t].blocks : alloc[b].live
  /\ \A t \in Tok : tok[t].live => \A b, d \in tok[t].blocks :
       alloc[b].category = alloc[d].category /\ alloc[b].reserved = alloc[d].reserved

\* Only pool blocks are ever free or assigned; a pool block has an assigned
\* owner exactly while it is not free.
Owners ==
  /\ \A b \in Blk : alloc[b].live /\ ~alloc[b].backing =>
       alloc[b].category \notin {Free, Spill, Chunk}
  /\ \A b \in Blk : ~alloc[b].live => ~alloc[b].backing /\ alloc[b].pins = 0
  /\ \A t \in Tok : tok[t].live /\ tok[t].pooled => \A b \in tok[t].blocks :
       alloc[b].backing /\ alloc[b].category # Free
  /\ \A t, u \in Tok : \A b \in Blk :
       Assigned(t, b) /\ Assigned(u, b) => t = u
  /\ \A b \in Blk : alloc[b].backing /\ alloc[b].category # Free =>
       \E t \in Tok : Assigned(t, b)

\* An original token names one block, which nobody else created; while it is an
\* unconverted reservation its block is still free.
Originals ==
  /\ \A t \in Tok : tok[t].live /\ ~tok[t].pooled =>
       \A b, d \in tok[t].blocks : b = d
  /\ \A t \in Tok : tok[t].live /\ ~tok[t].pooled /\ ~tok[t].charge =>
       \A b \in tok[t].blocks : alloc[b].backing => alloc[b].category = Free
  /\ \A t, u \in Tok : \A b \in Blk :
       Original(t, b) /\ Original(u, b) => t = u

\* A pin keeps its token alive and never holds a free block.
Pins ==
  /\ \A p \in PinId, t \in Tok : pin[p] = {t} =>
       tok[t].live /\ (~tok[t].pooled => \A b \in tok[t].blocks : ~alloc[b].backing)
  /\ \A b \in Blk : alloc[b].pins = Cardinality(PinsOn(b))

Ownership == Objects /\ Handles /\ Owners /\ Originals /\ Pins

-----------------------------------------------------------------------------
(* Lemmas *)

USE DEF Free, Spill, Chunk, Private, Tail, Metadata, Staging

\* The pins on a block are finitely many, so the pin count is a number.
LEMMA PinsOnFinite ==
  ASSUME NEW b \in Blk
  PROVE  IsFiniteSet(PinsOn(b)) /\ Cardinality(PinsOn(b)) \in Nat
<1>1. PinsOn(b) \subseteq PinId
  BY DEF PinsOn
<1>2. IsFiniteSet(PinsOn(b))
  BY <1>1, LedgerAssumption, FS_Subset
<1> QED
  BY <1>2, FS_CardinalityType

\* The initial ledger has no objects.
LEMMA OwnershipInit == Init => Ownership
<1> SUFFICES ASSUME Init PROVE Ownership
  OBVIOUS
<1>1. Objects
  BY DEF Init, Objects, NoAlloc, NoTok, NoPin, ResourceCategory
<1>2. Handles /\ Owners /\ Originals
  BY DEF Init, Handles, Owners, Originals, Assigned, Original, NoAlloc, NoTok
<1>3. ASSUME NEW b \in Blk PROVE alloc[b].pins = Cardinality(PinsOn(b))
  <2>1. PinsOn(b) = {}
    BY DEF Init, PinsOn, NoPin, NoTok
  <2> QED
    BY <2>1, FS_EmptySet DEF Init, NoAlloc
<1>4. Pins
  BY <1>3 DEF Init, Pins, NoPin
<1> QED
  BY <1>1, <1>2, <1>4 DEF Ownership

\* Steps that touch no object preserve ownership.
LEMMA OwnershipStutter ==
  ASSUME Ownership, UNCHANGED <<alloc, tok, pin>>
  PROVE  Ownership'
<1>1. (Objects /\ Handles /\ Owners /\ Originals)'
  BY DEF Ownership, Objects, Handles, Owners, Originals, Assigned, Original
<1>2. \A b \in Blk : PinsOn(b)' = PinsOn(b)
  BY DEF PinsOn
<1>3. Pins'
  BY <1>2 DEF Ownership, Pins
<1> QED
  BY <1>1, <1>3 DEF Ownership

\* Reserve creates one block and its original token.
LEMMA ReserveOwnership ==
  ASSUME Ownership, NEW t \in Tok, NEW b \in Blk, NEW c \in ResourceCategory,
         NEW n \in Sizes, Reserve(t, b, c, n)
  PROVE  Ownership'
<1> DEFINE New == [live |-> TRUE, category |-> c, backing |-> c = Free, bytes |-> n,
                   reserved |-> TRUE, pins |-> 0]
           NewTok == [live |-> TRUE, held |-> TRUE, charge |-> FALSE,
                      pooled |-> FALSE, blocks |-> {b}]
<1> USE DEF Ownership
<1>1. CASE UNCHANGED <<alloc, tok, pin>>
  BY <1>1, OwnershipStutter
<1>2. CASE /\ ~tok[t].live /\ ~alloc[b].live /\ c \notin {Spill, Chunk}
           /\ alloc' = [alloc EXCEPT ![b] = New] /\ tok' = [tok EXCEPT ![t] = NewTok]
           /\ pin' = pin
  <2> HIDE DEF New, NewTok
  <2>0. New \in [live : BOOLEAN, category : ResourceCategory, backing : BOOLEAN,
                 bytes : Nat, reserved : BOOLEAN, pins : Nat]
    BY LedgerAssumption DEF New
  <2>1. /\ NewTok \in [live : BOOLEAN, held : BOOLEAN, charge : BOOLEAN,
                      pooled : BOOLEAN, blocks : SUBSET Blk]
        /\ NewTok.live /\ ~NewTok.pooled /\ NewTok.blocks = {b} /\ ~NewTok.charge
        /\ New.live /\ New.category = c /\ New.backing = (c = Free) /\ New.pins = 0
    BY DEF NewTok, New
  <2>2. Objects'
    BY <1>2, <2>0, <2>1 DEF Objects
  <2>3. /\ \A d \in Blk : d # b => alloc'[d] = alloc[d]
        /\ alloc'[b] = New
        /\ \A u \in Tok : u # t => tok'[u] = tok[u]
        /\ tok'[t] = NewTok
    BY <1>2 DEF Objects
  <2>4. \A u \in Tok : tok[u].live => b \notin tok[u].blocks
    BY <1>2 DEF Handles
  <2>5. Handles'
    <3>1. ASSUME NEW u \in Tok, u # t PROVE
            /\ tok'[u].held => tok'[u].live
            /\ tok'[u].live => tok'[u].blocks # {}
            /\ tok'[u].live => \A d \in tok'[u].blocks : alloc'[d] = alloc[d]
      BY <2>3, <2>4, <3>1 DEF Objects, Handles
    <3>2. ASSUME NEW u \in Tok, u # t, tok'[u].live, NEW d \in tok'[u].blocks,
                 NEW e \in tok'[u].blocks
          PROVE  /\ alloc'[d].live
                 /\ alloc'[d].category = alloc'[e].category
                 /\ alloc'[d].reserved = alloc'[e].reserved
      BY <2>3, <3>1, <3>2 DEF Handles
    <3> QED
      BY <2>1, <2>3, <3>1, <3>2, SMTT(30) DEF Handles
  <2>6. Owners'
    BY <1>2, <2>1, <2>3, <2>4 DEF Objects, Owners, Assigned
  <2>7. Originals'
    BY <1>2, <2>1, <2>3, <2>4 DEF Objects, Originals, Original
  <2>8. ASSUME NEW d \in Blk PROVE PinsOn(d)' = PinsOn(d)
    BY <1>2, <2>3 DEF PinsOn, Pins
  <2>9. Pins'
    BY <1>2, <2>1, <2>3, <2>4, <2>8 DEF Pins, Objects, Owners
  <2> QED
    BY <2>2, <2>5, <2>6, <2>7, <2>9
<1> QED
  BY <1>1, <1>2 DEF Reserve, Throws

\* Convert changes the state of the blocks of one token.  Their category stays
\* payload if it was, and free if it was.
LEMMA ConvertOwnership ==
  ASSUME Ownership, NEW t \in Tok, Convert(t)
  PROVE  Ownership'
<1> USE DEF Ownership
<1> DEFINE B == tok[t].blocks
           c == alloc[CHOOSE b \in B : TRUE].category
           d == IF c = Spill THEN Chunk ELSE c
<1>1. CASE UNCHANGED <<alloc, tok, pin>>
  BY <1>1, OwnershipStutter
<1>2. CASE /\ tok[t].held /\ ~tok[t].charge
           /\ alloc' = [b \in Blk |-> IF b \in B
                          THEN [alloc[b] EXCEPT !.reserved = FALSE, !.category = d]
                          ELSE alloc[b]]
           /\ tok' = [tok EXCEPT ![t].charge = TRUE]
           /\ pin' = pin
  <2>1. tok[t].live /\ B # {} /\ B \subseteq Blk
    BY <1>2 DEF Handles, Objects
  <2>2. c \in ResourceCategory /\ \A b \in B : alloc[b].category = c
    <3> PICK a \in B : TRUE
      BY <2>1
    <3> (CHOOSE b \in B : TRUE) \in B
      OBVIOUS
    <3> QED
      BY <2>1 DEF Handles, Objects
  <2> HIDE DEF c
  <2>3. d \in ResourceCategory /\ (d = Free <=> c = Free)
        /\ (c \notin {Free, Spill, Chunk} => d = c)
    BY <2>2 DEF ResourceCategory
  <2> HIDE DEF d
  <2>4. \A b \in Blk : /\ b \notin B => alloc'[b] = alloc[b]
                       /\ b \in B => alloc'[b] = [alloc[b] EXCEPT !.reserved = FALSE,
                                                                 !.category = d]
    BY <1>2
  <2>5. \A u \in Tok : u # t => tok'[u] = tok[u]
    BY <1>2 DEF Objects
  <2>6. tok'[t] = [tok[t] EXCEPT !.charge = TRUE]
    BY <1>2 DEF Objects
  <2> HIDE DEF B
  <2>7. Objects'
    BY <1>2, <2>3, ZenonT(60) DEF Objects
  <2>8. ASSUME NEW b \in Blk PROVE
          /\ alloc'[b].live = alloc[b].live /\ alloc'[b].backing = alloc[b].backing
          /\ alloc'[b].pins = alloc[b].pins
          /\ alloc'[b].category = IF b \in B THEN d ELSE alloc[b].category
          /\ alloc'[b].reserved = IF b \in B THEN FALSE ELSE alloc[b].reserved
    BY <2>4, ZenonT(60) DEF Objects
  <2>9. ASSUME NEW u \in Tok PROVE
          /\ tok'[u].live = tok[u].live /\ tok'[u].held = tok[u].held
          /\ tok'[u].pooled = tok[u].pooled /\ tok'[u].blocks = tok[u].blocks
    BY <2>5, <2>6 DEF Objects
  <2>10. ASSUME NEW u \in Tok, u # t, tok[u].live, NEW b \in Blk, b \in B,
                b \in tok[u].blocks
         PROVE  alloc[b].backing /\ (tok[t].pooled <=> ~tok[u].pooled)
                /\ (tok[t].pooled => tok[u].charge)
    <3>1. tok[t].pooled /\ tok[u].pooled => t = u
      BY <2>1, <2>10 DEF Owners, Assigned, B
    <3>2. ~tok[t].pooled /\ ~tok[u].pooled => t = u
      BY <2>1, <2>10 DEF Originals, Original, B
    <3>3. tok[t].pooled \/ tok[u].pooled => alloc[b].backing
      BY <2>1, <2>10 DEF Owners, B
    <3>4. tok[t].pooled => alloc[b].category # Free
      BY <2>1, <2>10 DEF Owners, B
    <3>5. ~tok[u].pooled /\ ~tok[u].charge /\ alloc[b].backing => alloc[b].category = Free
      BY <2>10 DEF Originals
    <3> QED
      BY <2>10, <3>1, <3>2, <3>3, <3>4, <3>5 DEF Objects
  <2>11. ASSUME NEW u \in Tok, u # t, tok[u].live, NEW b \in Blk, b \in B,
                b \in tok[u].blocks, tok[u].pooled
         PROVE  FALSE
    <3>1. ~tok[t].pooled /\ alloc[b].backing
      BY <2>10, <2>11 DEF Objects
    <3>2. alloc[b].category = Free
      BY <1>2, <2>1, <2>11, <3>1 DEF Originals, B
    <3> QED
      BY <2>11, <3>2 DEF Owners
  <2>12. Handles'
    <3>1. ASSUME NEW u \in Tok, tok[u].live, NEW b \in tok[u].blocks,
                 NEW e \in tok[u].blocks
          PROVE  /\ alloc'[b].live
                 /\ alloc'[b].category = alloc'[e].category
                 /\ alloc'[b].reserved = alloc'[e].reserved
      <4>1. b \in Blk /\ e \in Blk
        BY DEF Objects
      <4>2. CASE u = t
        <5>1. b \in B /\ e \in B
          BY <3>1, <4>2 DEF B
        <5>2. alloc[b].live
          BY <3>1 DEF Handles
        <5> QED
          BY <2>8, <4>1, <5>1, <5>2
      <4>3. CASE u # t /\ tok[u].pooled
        <5>1. b \notin B /\ e \notin B
          BY <2>11, <3>1, <4>1, <4>3
        <5>2. /\ alloc[b].live /\ alloc[b].category = alloc[e].category
              /\ alloc[b].reserved = alloc[e].reserved
          BY <3>1 DEF Handles
        <5> QED
          BY <2>8, <4>1, <5>1, <5>2
      <4>4. CASE u # t /\ ~tok[u].pooled
        <5>1. b = e
          BY <3>1, <4>4 DEF Originals
        <5> QED
          BY <2>8, <3>1, <4>1, <5>1 DEF Handles
      <4> QED
        BY <4>2, <4>3, <4>4 DEF Objects
    <3> QED
      BY <2>9, <3>1 DEF Handles
  <2>13. Owners'
    <3>1. \A b \in Blk : (alloc'[b].category = Free) <=> (alloc[b].category = Free)
      BY <2>2, <2>3, <2>8
    <3>2. \A b \in Blk : alloc[b].category \notin {Free, Spill, Chunk} =>
             alloc'[b].category = alloc[b].category
      BY <2>2, <2>3, <2>8
    <3>3. \A u \in Tok, b \in Blk : Assigned(u, b)' = Assigned(u, b)
      BY <2>9 DEF Assigned
    <3>4. \A u \in Tok : tok'[u].live /\ tok'[u].pooled => \A b \in tok'[u].blocks :
             alloc'[b].backing /\ alloc'[b].category # Free
      BY <2>8, <2>9, <3>1 DEF Owners, Objects
    <3>5. \A b \in Blk : alloc'[b].live /\ ~alloc'[b].backing =>
             alloc'[b].category \notin {Free, Spill, Chunk}
      BY <2>8, <3>2 DEF Owners
    <3>6. \A b \in Blk : alloc'[b].backing /\ alloc'[b].category # Free =>
             \E u \in Tok : Assigned(u, b)'
      BY <2>8, <3>1, <3>3 DEF Owners
    <3>7. \A b \in Blk : ~alloc'[b].live => ~alloc'[b].backing /\ alloc'[b].pins = 0
      BY <2>8 DEF Owners
    <3>8. \A u, v \in Tok : \A b \in Blk : Assigned(u, b)' /\ Assigned(v, b)' => u = v
      BY <3>3 DEF Owners
    <3> QED
      BY <3>4, <3>5, <3>6, <3>7, <3>8 DEF Owners
  <2>14. Originals'
    <3>1. \A u \in Tok, b \in Blk : Original(u, b)' = Original(u, b)
      BY <2>9 DEF Original
    <3>2. ASSUME NEW u \in Tok, tok'[u].live, ~tok'[u].pooled, ~tok'[u].charge,
                 NEW b \in tok'[u].blocks, alloc'[b].backing
          PROVE  alloc'[b].category = Free
      <4>1. u # t /\ b \in Blk
        BY <2>6, <2>9, <3>2 DEF Objects
      <4>2. alloc[b].category = Free
        BY <2>5, <2>8, <3>2, <4>1 DEF Originals
      <4> QED
        BY <2>2, <2>3, <2>8, <4>1, <4>2
    <3>3. \A u \in Tok : tok'[u].live /\ ~tok'[u].pooled =>
            \A b, e \in tok'[u].blocks : b = e
      BY <2>9 DEF Originals
    <3>4. \A u, v \in Tok : \A b \in Blk : Original(u, b)' /\ Original(v, b)' => u = v
      BY <3>1 DEF Originals
    <3> QED
      BY <3>2, <3>3, <3>4 DEF Originals
  <2>15. Pins'
    <3>1. \A b \in Blk : PinsOn(b)' = PinsOn(b)
      BY <1>2, <2>9 DEF PinsOn
    <3>2. ASSUME NEW p \in PinId, NEW u \in Tok, pin'[p] = {u}
          PROVE  /\ tok'[u].live
                 /\ ~tok'[u].pooled => \A b \in tok'[u].blocks : ~alloc'[b].backing
      <4>1. /\ tok[u].live /\ tok[u].blocks \subseteq Blk
            /\ ~tok[u].pooled => \A b \in tok[u].blocks : ~alloc[b].backing
        BY <1>2, <3>2 DEF Pins, Objects
      <4> QED
        BY <2>8, <2>9, <4>1
    <3> QED
      BY <2>8, <3>1, <3>2 DEF Pins
  <2> QED
    BY <2>7, <2>12, <2>13, <2>14, <2>15
<1> QED
  BY <1>1, <1>2 DEF Convert, Throws

\* ReserveBacking assigns free pool blocks, which nobody owned, to a new token.
LEMMA ReserveBackingOwnership ==
  ASSUME Ownership, NEW t \in Tok, NEW B \in SUBSET Blk, NEW c \in Assignable,
         ReserveBacking(t, B, c)
  PROVE  Ownership'
<1> USE DEF Ownership
<1> DEFINE NewTok == [live |-> TRUE, held |-> TRUE, charge |-> FALSE,
                      pooled |-> TRUE, blocks |-> B]
<1>1. CASE UNCHANGED <<alloc, tok, pin>>
  BY <1>1, OwnershipStutter
<1>2. CASE /\ ~tok[t].live /\ B # {} /\ B \subseteq PoolBlocks /\ AllFree(B)
           /\ alloc' = [b \in Blk |-> IF b \in B
                          THEN [alloc[b] EXCEPT !.category = c, !.reserved = TRUE]
                          ELSE alloc[b]]
           /\ tok' = [tok EXCEPT ![t] = NewTok]
           /\ pin' = pin
  <2>1. /\ NewTok \in [live : BOOLEAN, held : BOOLEAN, charge : BOOLEAN,
                       pooled : BOOLEAN, blocks : SUBSET Blk]
        /\ NewTok.live /\ NewTok.pooled /\ NewTok.blocks = B
    OBVIOUS
  <2> HIDE DEF NewTok
  <2>2. c \in ResourceCategory /\ c # Free
    BY DEF Assignable, ResourceCategory
  <2>3. /\ tok'[t] = NewTok
        /\ \A u \in Tok : u # t => tok'[u] = tok[u]
    BY <1>2 DEF Objects
  <2>4. ASSUME NEW b \in Blk PROVE
          /\ alloc'[b].live = alloc[b].live /\ alloc'[b].backing = alloc[b].backing
          /\ alloc'[b].pins = alloc[b].pins
          /\ alloc'[b].category = IF b \in B THEN c ELSE alloc[b].category
          /\ alloc'[b].reserved = IF b \in B THEN TRUE ELSE alloc[b].reserved
    BY <1>2 DEF Objects
  <2>5. Objects'
    BY <1>2, <2>1, <2>2, ZenonT(60) DEF Objects
  <2>6. ASSUME NEW b \in B PROVE
          /\ alloc[b].live /\ alloc[b].backing
          /\ \A u \in Tok : ~Assigned(u, b)
          /\ \A u \in Tok : Original(u, b) => tok[u].charge
    <3>1. PICK w \in Tok : tok[w].live /\ IsPoolHandle(w) /\ b \in tok[w].blocks
      BY <1>2 DEF PoolBlocks
    <3>2. Original(w, b) /\ tok[w].charge /\ alloc[b].backing
      BY <3>1 DEF IsPoolHandle, Original
    <3>3. alloc[b].live
      BY <3>1 DEF Handles
    <3>4. \A u \in Tok : ~Assigned(u, b)
      BY <1>2 DEF AllFree, Owners, Assigned
    <3>5. \A u \in Tok : Original(u, b) => u = w
      BY <3>2 DEF Originals
    <3> QED
      BY <3>2, <3>3, <3>4, <3>5
  <2>7. Handles'
    <3>1. ASSUME NEW u \in Tok, tok'[u].live, NEW b \in tok'[u].blocks,
                 NEW e \in tok'[u].blocks
          PROVE  /\ alloc'[b].live
                 /\ alloc'[b].category = alloc'[e].category
                 /\ alloc'[b].reserved = alloc'[e].reserved
      <4>1. CASE u = t
        BY <2>1, <2>3, <2>4, <2>6, <4>1
      <4>2. CASE u # t
        <5>1. /\ tok[u].live /\ b \in tok[u].blocks /\ e \in tok[u].blocks
              /\ b \in Blk /\ e \in Blk
          BY <2>3, <3>1, <4>2 DEF Objects
        <5>2. /\ alloc[b].live /\ alloc[b].category = alloc[e].category
              /\ alloc[b].reserved = alloc[e].reserved
          BY <5>1 DEF Handles
        <5>3. b \in B <=> e \in B
          <6>1. CASE tok[u].pooled
            BY <2>6, <5>1, <6>1 DEF Assigned
          <6>2. CASE ~tok[u].pooled
            BY <5>1, <6>2 DEF Originals
          <6> QED
            BY <6>1, <6>2
        <5> QED
          BY <2>4, <5>1, <5>2, <5>3
      <4> QED
        BY <4>1, <4>2
    <3>2. ASSUME NEW u \in Tok PROVE
            (tok'[u].held => tok'[u].live) /\ (tok'[u].live => tok'[u].blocks # {})
      BY <1>2, <2>1, <2>3 DEF Handles
    <3> QED
      BY <3>1, <3>2 DEF Handles
  <2>8. ASSUME NEW u \in Tok, NEW b \in Blk PROVE
          /\ Assigned(u, b)' <=> Assigned(u, b) \/ (u = t /\ b \in B)
          /\ Original(u, b)' <=> Original(u, b)
    BY <1>2, <2>1, <2>3 DEF Assigned, Original, Objects
  <2>9. Owners'
    <3>1. \A b \in Blk : alloc'[b].live /\ ~alloc'[b].backing =>
            alloc'[b].category \notin {Free, Spill, Chunk}
      BY <2>4, <2>6 DEF Owners
    <3>2. \A b \in Blk : ~alloc'[b].live => ~alloc'[b].backing /\ alloc'[b].pins = 0
      BY <2>4 DEF Owners
    <3>3. ASSUME NEW u \in Tok, NEW b \in Blk, Assigned(u, b)'
          PROVE  alloc'[b].backing /\ alloc'[b].category # Free
      BY <2>2, <2>4, <2>6, <2>8, <3>3 DEF Owners, Assigned
    <3>4. \A u, v \in Tok : \A b \in Blk : Assigned(u, b)' /\ Assigned(v, b)' => u = v
      BY <2>6, <2>8 DEF Owners
    <3>5. \A b \in Blk : alloc'[b].backing /\ alloc'[b].category # Free =>
            \E u \in Tok : Assigned(u, b)'
      BY <2>4, <2>8 DEF Owners
    <3>6. \A u \in Tok : tok'[u].live /\ tok'[u].pooled => \A b \in tok'[u].blocks :
             alloc'[b].backing /\ alloc'[b].category # Free
      BY <2>5, <3>3 DEF Assigned, Objects
    <3> QED
      BY <3>1, <3>2, <3>4, <3>5, <3>6 DEF Owners
  <2>10. Originals'
    <3>1. ASSUME NEW u \in Tok, tok'[u].live, ~tok'[u].pooled
          PROVE  u # t /\ tok'[u] = tok[u]
      BY <2>1, <2>3, <3>1
    <3>2. ASSUME NEW u \in Tok, tok'[u].live, ~tok'[u].pooled, ~tok'[u].charge,
                 NEW b \in tok'[u].blocks, alloc'[b].backing
          PROVE  alloc'[b].category = Free
      <4>1. tok'[u] = tok[u] /\ b \in Blk /\ Original(u, b)
        BY <3>1, <3>2 DEF Objects, Original
      <4>2. b \notin B
        BY <2>6, <3>2, <4>1
      <4>3. /\ alloc'[b].backing = alloc[b].backing
            /\ alloc'[b].category = alloc[b].category
        BY <2>4, <4>1, <4>2
      <4>4. tok[u].live /\ ~tok[u].pooled /\ ~tok[u].charge /\ b \in tok[u].blocks
        BY <3>2, <4>1
      <4> QED
        BY <3>2, <4>3, <4>4 DEF Originals
    <3>3. \A u \in Tok : tok'[u].live /\ ~tok'[u].pooled =>
            \A b, e \in tok'[u].blocks : b = e
      BY <3>1 DEF Originals
    <3>4. \A u, v \in Tok : \A b \in Blk : Original(u, b)' /\ Original(v, b)' => u = v
      BY <2>8 DEF Originals
    <3> QED
      BY <3>2, <3>3, <3>4 DEF Originals
  <2>11. Pins'
    <3>1. ASSUME NEW p \in PinId, NEW u \in Tok, pin'[p] = {u}
          PROVE  /\ tok'[u].live
                 /\ ~tok'[u].pooled => \A b \in tok'[u].blocks : ~alloc'[b].backing
      <4>1. /\ tok[u].live /\ tok[u].blocks \subseteq Blk /\ u # t
            /\ ~tok[u].pooled => \A b \in tok[u].blocks : ~alloc[b].backing
        BY <1>2, <3>1 DEF Pins, Objects
      <4> QED
        BY <2>3, <2>4, <4>1
    <3>2. \A b \in Blk : PinsOn(b)' = PinsOn(b)
      BY <1>2, <2>3 DEF PinsOn, Pins
    <3> QED
      BY <2>4, <3>1, <3>2 DEF Pins
  <2> QED
    BY <2>5, <2>7, <2>9, <2>10, <2>11
<1> QED
  BY <1>1, <1>2 DEF ReserveBacking, Throws

\* Pin adds one pin to every block of a token somebody still holds.
LEMMA PinOwnership ==
  ASSUME Ownership, NEW p \in PinId, NEW t \in Tok, Pin(p, t)
  PROVE  Ownership'
<1> USE DEF Ownership
<1>1. CASE UNCHANGED <<alloc, tok, pin>>
  BY <1>1, OwnershipStutter
<1>2. CASE /\ pin[p] = NoPin /\ tok[t].held /\ Pinnable(t)
           /\ alloc' = [b \in Blk |-> IF b \in tok[t].blocks
                          THEN [alloc[b] EXCEPT !.pins = @ + 1] ELSE alloc[b]]
           /\ pin' = [pin EXCEPT ![p] = {t}]
           /\ tok' = tok
  <2>1. tok[t].live
    BY <1>2 DEF Handles
  <2>2. ASSUME NEW b \in Blk PROVE
          /\ alloc'[b].live = alloc[b].live /\ alloc'[b].backing = alloc[b].backing
          /\ alloc'[b].category = alloc[b].category
          /\ alloc'[b].reserved = alloc[b].reserved
          /\ alloc'[b].pins = IF b \in tok[t].blocks THEN alloc[b].pins + 1
                                                     ELSE alloc[b].pins
    BY <1>2 DEF Objects
  <2>3. Objects'
    <3>1. pin' \in [PinId -> {NoPin} \cup {{u} : u \in Tok}]
      BY <1>2 DEF Objects
    <3> QED
      BY <1>2, <3>1 DEF Objects
  <2>4. Handles' /\ Originals'
    BY <1>2, <2>2 DEF Handles, Originals, Original, Objects
  <2>5. Owners'
    <3>1. \A b \in Blk : ~alloc'[b].live => ~alloc'[b].backing /\ alloc'[b].pins = 0
      BY <2>1, <2>2 DEF Owners, Handles
    <3> QED
      BY <1>2, <2>2, <3>1 DEF Owners, Assigned, Objects
  <2>6. Pins'
    <3>1. ASSUME NEW q \in PinId, NEW u \in Tok, pin'[q] = {u}
          PROVE  /\ tok'[u].live
                 /\ ~tok'[u].pooled => \A b \in tok'[u].blocks : ~alloc'[b].backing
      <4>1. CASE q = p
        <5>1. u = t
          BY <1>2, <3>1, <4>1 DEF Objects
        <5> QED
          BY <1>2, <2>1, <2>2, <5>1 DEF Pinnable, Objects
      <4>2. CASE q # p
        <5>1. pin[q] = {u}
          BY <1>2, <3>1, <4>2 DEF Objects
        <5> QED
          BY <1>2, <2>2, <5>1 DEF Pins, Objects
      <4> QED
        BY <4>1, <4>2
    <3>2. ASSUME NEW b \in Blk PROVE alloc'[b].pins = Cardinality(PinsOn(b)')
      <4>1. p \notin PinsOn(b)
        BY <1>2 DEF PinsOn, NoPin
      <4>2. CASE b \in tok[t].blocks
        <5>1. ASSUME NEW q \in PinId, q # p PROVE pin'[q] = pin[q]
          BY <1>2, <5>1 DEF Objects
        <5>2. pin'[p] = {t}
          BY <1>2 DEF Objects
        <5>3. PinsOn(b)' = PinsOn(b) \cup {p}
          BY <1>2, <2>1, <4>1, <4>2, <5>1, <5>2 DEF PinsOn
        <5>4. Cardinality(PinsOn(b) \cup {p}) = Cardinality(PinsOn(b)) + 1
          BY <4>1, PinsOnFinite, FS_AddElement
        <5> QED
          BY <2>2, <4>2, <5>3, <5>4 DEF Pins
      <4>3. CASE b \notin tok[t].blocks
        <5>1. PinsOn(b)' = PinsOn(b)
          BY <1>2, <4>1, <4>3, ZenonT(60) DEF PinsOn, Objects
        <5> QED
          BY <2>2, <4>3, <5>1 DEF Pins
      <4> QED
        BY <4>2, <4>3
    <3> QED
      BY <3>1, <3>2 DEF Pins
  <2> QED
    BY <2>3, <2>4, <2>5, <2>6
<1> QED
  BY <1>1, <1>2 DEF Pin, Throws

\* Dropping a handle changes only whether the token is held.
LEMMA DropHandleOwnership ==
  ASSUME Ownership, NEW t \in Tok, DropHandle(t)
  PROVE  Ownership'
<1> USE DEF Ownership, DropHandle
<1>1. ASSUME NEW u \in Tok PROVE
        /\ tok'[u].live = tok[u].live /\ tok'[u].pooled = tok[u].pooled
        /\ tok'[u].blocks = tok[u].blocks /\ tok'[u].charge = tok[u].charge
        /\ tok'[u].held => tok[u].held
  BY DEF Objects
<1>2. Objects'
  BY DEF Objects
<1>3. Handles'
  BY <1>1 DEF Handles
<1>4. \A u \in Tok, b \in Blk : /\ Assigned(u, b)' = Assigned(u, b)
                               /\ Original(u, b)' = Original(u, b)
  BY <1>1 DEF Assigned, Original
<1>5. Owners'
  BY <1>1, <1>4 DEF Owners
<1>6. Originals'
  BY <1>1, <1>4 DEF Originals
<1>7. \A b \in Blk : PinsOn(b)' = PinsOn(b)
  BY <1>1 DEF PinsOn
<1>8. Pins'
  BY <1>1, <1>7 DEF Pins
<1> QED
  BY <1>2, <1>3, <1>5, <1>6, <1>8

\* ~PinToken takes one pin off every block of the token it referred to.
LEMMA DestroyPinOwnership ==
  ASSUME Ownership, NEW p \in PinId, DestroyPin(p)
  PROVE  Ownership'
<1> USE DEF Ownership
<1>1. PICK t \in Tok : pin[p] = {t}
  BY DEF DestroyPin, Objects
<1>2. (CHOOSE u \in Tok : pin[p] = {u}) = t
  BY <1>1
<1>3. /\ alloc' = [b \in Blk |-> IF b \in tok[t].blocks
                     THEN [alloc[b] EXCEPT !.pins = @ - 1] ELSE alloc[b]]
      /\ pin' = [pin EXCEPT ![p] = NoPin] /\ tok' = tok
  BY <1>2 DEF DestroyPin
<1>4. tok[t].live
  BY <1>1 DEF Pins
<1>5. ASSUME NEW b \in Blk PROVE
        /\ alloc'[b].live = alloc[b].live /\ alloc'[b].backing = alloc[b].backing
        /\ alloc'[b].category = alloc[b].category
        /\ alloc'[b].reserved = alloc[b].reserved
        /\ alloc'[b].pins = IF b \in tok[t].blocks THEN alloc[b].pins - 1
                                                   ELSE alloc[b].pins
  BY <1>3 DEF Objects
<1>6. ASSUME NEW b \in Blk PROVE alloc'[b].pins = Cardinality(PinsOn(b)')
  <2>1. CASE b \in tok[t].blocks
    <3>1. p \in PinsOn(b)
      BY <1>1, <1>4, <2>1 DEF PinsOn
    <3>2. PinsOn(b)' = PinsOn(b) \ {p}
      <4>1. pin'[p] = NoPin /\ \A q \in PinId : q # p => pin'[q] = pin[q]
        BY <1>3 DEF Objects
      <4>2. \A u \in Tok : NoPin # {u}
        BY DEF NoPin
      <4> QED
        BY <1>3, <4>1, <4>2 DEF PinsOn
    <3>3. Cardinality(PinsOn(b) \ {p}) = Cardinality(PinsOn(b)) - 1
      BY <3>1, PinsOnFinite, FS_RemoveElement
    <3> QED
      BY <1>5, <2>1, <3>2, <3>3 DEF Pins
  <2>2. CASE b \notin tok[t].blocks
    <3>1. p \notin PinsOn(b)
      BY <1>1, <2>2 DEF PinsOn
    <3>2. PinsOn(b)' = PinsOn(b)
      BY <1>3, <3>1 DEF PinsOn, NoPin, Objects
    <3> QED
      BY <1>5, <2>2, <3>2 DEF Pins
  <2> QED
    BY <2>1, <2>2
<1>7. \A b \in Blk : b \in tok[t].blocks => alloc[b].pins \in Nat \ {0}
  <2> SUFFICES ASSUME NEW b \in Blk, b \in tok[t].blocks PROVE alloc[b].pins # 0
    BY DEF Objects
  <2>1. p \in PinsOn(b)
    BY <1>1, <1>4 DEF PinsOn
  <2> QED
    BY <2>1, PinsOnFinite, FS_EmptySet DEF Pins
<1>8. Objects'
  <2>1. pin' \in [PinId -> {NoPin} \cup {{u} : u \in Tok}]
    BY <1>3 DEF Objects
  <2>2. ASSUME NEW b \in Blk, b \in tok[t].blocks
        PROVE  [alloc[b] EXCEPT !.pins = @ - 1] \in
                 [live : BOOLEAN, category : ResourceCategory, backing : BOOLEAN,
                  bytes : Nat, reserved : BOOLEAN, pins : Nat]
    <3>1. alloc[b].pins - 1 \in Nat
      BY <1>7, <2>2
    <3> QED
      BY <3>1 DEF Objects
  <2> QED
    BY <1>3, <2>1, <2>2 DEF Objects
<1>9. Handles' /\ Originals'
  BY <1>3, <1>5 DEF Handles, Originals, Original, Objects
<1>10. Owners'
  <2>1. \A b \in Blk : ~alloc'[b].live => ~alloc'[b].backing /\ alloc'[b].pins = 0
    BY <1>4, <1>5 DEF Owners, Handles
  <2> QED
    BY <1>3, <1>5, <2>1 DEF Owners, Assigned, Objects
<1>11. Pins'
  <2>1. ASSUME NEW q \in PinId, NEW u \in Tok, pin'[q] = {u}
        PROVE  /\ tok'[u].live
               /\ ~tok'[u].pooled => \A b \in tok'[u].blocks : ~alloc'[b].backing
    <3>1. pin[q] = {u}
      BY <1>3, <2>1 DEF Objects, NoPin
    <3> QED
      BY <1>3, <1>5, <3>1 DEF Pins, Objects
  <2> QED
    BY <1>6, <2>1 DEF Pins
<1> QED
  BY <1>8, <1>9, <1>10, <1>11

\* ~ChargeToken of an assignment frees blocks that only it owned; the token of
\* an original handle only disappears.
LEMMA DestroyTokenOwnership ==
  ASSUME Ownership, NEW t \in Tok, DestroyToken(t)
  PROVE  Ownership'
<1> USE DEF Ownership
<1> DEFINE Freed == IF tok[t].pooled THEN tok[t].blocks ELSE {}
           Returned == [d \in Blk |-> IF d \in tok[t].blocks
                          THEN [alloc[d] EXCEPT !.category = Free, !.reserved = FALSE]
                          ELSE alloc[d]]
<1>1. /\ tok[t].live /\ ~tok[t].held
      /\ \A p \in PinId : pin[p] # {t}
      /\ tok' = [tok EXCEPT ![t] = NoTok] /\ pin' = pin
  BY DEF DestroyToken, Unreferenced, PinsOf
<1>11. ASSUME tok[t].pooled
       PROVE  alloc' = Returned
  BY <1>11, Zenon DEF DestroyToken
<1>2. ASSUME NEW b \in Blk PROVE
        /\ alloc'[b].live = alloc[b].live /\ alloc'[b].backing = alloc[b].backing
        /\ alloc'[b].pins = alloc[b].pins
        /\ alloc'[b].category = IF b \in Freed THEN Free ELSE alloc[b].category
        /\ alloc'[b].reserved = IF b \in Freed THEN FALSE ELSE alloc[b].reserved
  <2>1. CASE tok[t].pooled
    <3>1. alloc' = Returned
      BY <2>1, <1>11, Zenon
    <3>2. Freed = tok[t].blocks
      BY <2>1
    <3> HIDE DEF Freed
    <3> QED
      BY <3>1, <3>2 DEF Objects
  <2>2. CASE ~tok[t].pooled
    BY <2>2 DEF DestroyToken
  <2> QED
    BY <2>1, <2>2
<1>3. Objects'
  <2>1. tok' \in [Tok -> [live : BOOLEAN, held : BOOLEAN, charge : BOOLEAN,
                          pooled : BOOLEAN, blocks : SUBSET Blk]]
    BY <1>1 DEF Objects, NoTok
  <2>2. alloc' \in [Blk -> [live : BOOLEAN, category : ResourceCategory,
                            backing : BOOLEAN, bytes : Nat, reserved : BOOLEAN,
                            pins : Nat]]
    <3>1. CASE tok[t].pooled
      <4>1. alloc' = Returned
        BY <1>11, <3>1, Zenon
      <4>2. ASSUME NEW d \in Blk
            PROVE  [alloc[d] EXCEPT !.category = Free, !.reserved = FALSE] \in
                     [live : BOOLEAN, category : ResourceCategory, backing : BOOLEAN,
                      bytes : Nat, reserved : BOOLEAN, pins : Nat]
        BY ZenonT(60) DEF Objects, ResourceCategory
      <4> HIDE DEF Freed
      <4> QED
        BY <4>1, <4>2 DEF Objects
    <3>2. CASE ~tok[t].pooled
      BY <3>2 DEF DestroyToken, Objects
    <3> QED
      BY <3>1, <3>2
  <2> QED
    BY <1>1, <2>1, <2>2 DEF Objects
<1>4. /\ ~tok'[t].live /\ ~tok'[t].held
      /\ \A u \in Tok : u # t => tok'[u] = tok[u]
  BY <1>1 DEF Objects, NoTok
<1>5. ASSUME NEW b \in Blk, b \in Freed
      PROVE  /\ Assigned(t, b) /\ alloc[b].backing
             /\ \A u \in Tok : u # t => ~Assigned(u, b)
  <2>1. Assigned(t, b)
    BY <1>1, <1>5 DEF Assigned
  <2> QED
    BY <2>1 DEF Owners, Assigned
<1> HIDE DEF Freed
<1>6. ASSUME NEW u \in Tok, NEW b \in Blk PROVE
        /\ Assigned(u, b)' <=> u # t /\ Assigned(u, b)
        /\ Original(u, b)' <=> u # t /\ Original(u, b)
  BY <1>4 DEF Assigned, Original
<1>7. Handles'
  <2>1. ASSUME NEW u \in Tok, tok'[u].live, NEW b \in tok'[u].blocks,
               NEW e \in tok'[u].blocks
        PROVE  /\ alloc'[b].live
               /\ alloc'[b].category = alloc'[e].category
               /\ alloc'[b].reserved = alloc'[e].reserved
    <3>1. /\ u # t /\ tok[u].live /\ b \in tok[u].blocks /\ e \in tok[u].blocks
          /\ b \in Blk /\ e \in Blk
      BY <1>4, <2>1 DEF Objects
    <3>2. /\ alloc[b].live /\ alloc[b].category = alloc[e].category
          /\ alloc[b].reserved = alloc[e].reserved
      BY <3>1 DEF Handles
    <3>3. CASE tok[u].pooled
      <4>1. b \notin Freed /\ e \notin Freed
        BY <1>5, <3>1, <3>3 DEF Assigned
      <4> QED
        BY <1>2, <3>1, <3>2, <4>1
    <3>4. CASE ~tok[u].pooled
      <4>1. b = e
        BY <3>1, <3>4 DEF Originals
      <4> QED
        BY <1>2, <3>1, <3>2, <4>1
    <3> QED
      BY <3>3, <3>4
  <2>2. ASSUME NEW u \in Tok PROVE
          (tok'[u].held => tok'[u].live) /\ (tok'[u].live => tok'[u].blocks # {})
    BY <1>4 DEF Handles
  <2> QED
    BY <2>1, <2>2 DEF Handles
<1>8. Owners'
  <2>1. \A b \in Blk : alloc'[b].live /\ ~alloc'[b].backing =>
          alloc'[b].category \notin {Free, Spill, Chunk}
    BY <1>2, <1>5 DEF Owners
  <2>2. \A b \in Blk : ~alloc'[b].live => ~alloc'[b].backing /\ alloc'[b].pins = 0
    BY <1>2 DEF Owners
  <2>3. ASSUME NEW u \in Tok, tok'[u].live, tok'[u].pooled, NEW b \in tok'[u].blocks
        PROVE  alloc'[b].backing /\ alloc'[b].category # Free
    <3>1. u # t /\ Assigned(u, b) /\ b \in Blk
      BY <1>4, <2>3 DEF Assigned, Objects
    <3>2. b \notin Freed
      BY <1>5, <3>1
    <3> QED
      BY <1>2, <3>1, <3>2 DEF Owners, Assigned
  <2>4. \A u, v \in Tok : \A b \in Blk : Assigned(u, b)' /\ Assigned(v, b)' => u = v
    BY <1>6 DEF Owners
  <2>5. ASSUME NEW b \in Blk, alloc'[b].backing, alloc'[b].category # Free
        PROVE  \E u \in Tok : Assigned(u, b)'
    <3>1. b \notin Freed /\ alloc[b].backing /\ alloc[b].category # Free
      BY <1>2, <2>5
    <3>2. PICK u \in Tok : Assigned(u, b)
      BY <3>1 DEF Owners
    <3>3. u # t
      BY <3>1, <3>2 DEF Assigned, Freed
    <3> QED
      BY <1>6, <3>2, <3>3
  <2> QED
    BY <2>1, <2>2, <2>3, <2>4, <2>5 DEF Owners
<1>9. Originals'
  <2>1. ASSUME NEW u \in Tok, tok'[u].live, ~tok'[u].pooled, ~tok'[u].charge,
               NEW b \in tok'[u].blocks, alloc'[b].backing
        PROVE  alloc'[b].category = Free
    <3>1. u # t /\ tok'[u] = tok[u] /\ b \in Blk
      BY <1>4, <2>1 DEF Objects
    <3>2. alloc[b].category = Free
      BY <1>2, <2>1, <3>1 DEF Originals
    <3> QED
      BY <1>2, <3>1, <3>2
  <2>2. \A u \in Tok : tok'[u].live /\ ~tok'[u].pooled =>
          \A b, e \in tok'[u].blocks : b = e
    BY <1>4 DEF Originals
  <2>3. \A u, v \in Tok : \A b \in Blk : Original(u, b)' /\ Original(v, b)' => u = v
    BY <1>6 DEF Originals
  <2> QED
    BY <2>1, <2>2, <2>3 DEF Originals
<1>10. Pins'
  <2>1. ASSUME NEW p \in PinId, NEW u \in Tok, pin'[p] = {u}
        PROVE  /\ tok'[u].live
               /\ ~tok'[u].pooled => \A b \in tok'[u].blocks : ~alloc'[b].backing
    <3>1. /\ u # t /\ tok[u].live /\ tok[u].blocks \subseteq Blk
          /\ ~tok[u].pooled => \A b \in tok[u].blocks : ~alloc[b].backing
      BY <1>1, <2>1 DEF Pins, Objects
    <3> QED
      BY <1>2, <1>4, <3>1
  <2>2. \A b \in Blk : PinsOn(b)' = PinsOn(b)
    BY <1>1, <1>4 DEF PinsOn
  <2> QED
    BY <1>2, <2>1, <2>2 DEF Pins
<1> QED
  BY <1>3, <1>7, <1>8, <1>9, <1>10

\* ~Allocation removes a block that no token refers to.
LEMMA DestroyAllocationOwnership ==
  ASSUME Ownership, NEW b \in Blk, DestroyAllocation(b)
  PROVE  Ownership'
<1> USE DEF Ownership
<1>1. /\ \A t \in Tok : tok[t].live => b \notin tok[t].blocks
      /\ alloc' = [alloc EXCEPT ![b] = NoAlloc] /\ tok' = tok /\ pin' = pin
  BY DEF DestroyAllocation, Orphaned
<1>2. /\ ~alloc'[b].live /\ ~alloc'[b].backing /\ alloc'[b].pins = 0
      /\ \A d \in Blk : d # b => alloc'[d] = alloc[d]
  BY <1>1 DEF Objects, NoAlloc
<1>3. Objects'
  BY <1>1 DEF Objects, NoAlloc, ResourceCategory
<1>4. ASSUME NEW t \in Tok, tok[t].live, NEW d \in tok[t].blocks
      PROVE  d \in Blk /\ alloc'[d] = alloc[d]
  BY <1>1, <1>2, <1>4 DEF Objects
<1>5. Handles'
  BY <1>1, <1>4 DEF Handles
<1>6. Owners'
  BY <1>1, <1>2, <1>4 DEF Owners, Assigned
<1>7. Originals'
  BY <1>1, <1>4 DEF Originals, Original
<1>8. \A d \in Blk : PinsOn(d)' = PinsOn(d)
  BY <1>1 DEF PinsOn
<1>9. PinsOn(b) = {}
  BY <1>1 DEF PinsOn
<1>10. Pins'
  <2>1. \A d \in Blk : alloc'[d].pins = Cardinality(PinsOn(d)')
    BY <1>2, <1>8, <1>9, FS_EmptySet DEF Pins
  <2>2. ASSUME NEW p \in PinId, NEW u \in Tok, pin'[p] = {u}
        PROVE  /\ tok'[u].live
               /\ ~tok'[u].pooled => \A d \in tok'[u].blocks : ~alloc'[d].backing
    BY <1>1, <1>4, <2>2 DEF Pins
  <2> QED
    BY <2>1, <2>2 DEF Pins
<1> QED
  BY <1>3, <1>5, <1>6, <1>7, <1>10

-----------------------------------------------------------------------------
(* The invariant and what follows from it *)

LEMMA OwnershipStep == Ownership /\ [Next]_vars => Ownership'
<1> SUFFICES ASSUME Ownership, [Next]_vars PROVE Ownership'
  OBVIOUS
<1>1. ASSUME NEW t \in Tok, NEW b \in Blk, NEW c \in ResourceCategory, NEW n \in Sizes,
             Reserve(t, b, c, n)
      PROVE  Ownership'
  BY <1>1, ReserveOwnership
<1>2. ASSUME NEW t \in Tok, Convert(t) PROVE Ownership'
  BY <1>2, ConvertOwnership
<1>3. ASSUME NEW t \in Tok, NEW B \in SUBSET Blk, NEW c \in Assignable,
             ReserveBacking(t, B, c)
      PROVE  Ownership'
  BY <1>3, ReserveBackingOwnership
<1>4. ASSUME NEW p \in PinId, NEW t \in Tok, Pin(p, t) PROVE Ownership'
  BY <1>4, PinOwnership
<1>5. CASE Drop
  BY <1>5, DropHandleOwnership, DestroyPinOwnership DEF Drop
<1>6. CASE Release
  BY <1>6, DestroyTokenOwnership, DestroyAllocationOwnership DEF Release
<1>7. CASE UNCHANGED <<alloc, tok, pin>>
  BY <1>7, OwnershipStutter
<1> QED
  BY <1>1, <1>2, <1>3, <1>4, <1>5, <1>6, <1>7
  DEF Next, vars, ConstrainLimits, SnapshotAndResetPeaks, FailAfter, ClearFaults

\* Ownership holds in every reachable state of the ledger.
THEOREM OwnershipInvariant == Spec => []Ownership
<1>1. Init => Ownership
  BY OwnershipInit
<1>2. Ownership /\ [Next]_vars => Ownership'
  BY OwnershipStep
<1> QED
  BY <1>1, <1>2, PTL DEF Spec

\* Two borrowers never share a pool block, whatever the order in which threads
\* assign blocks and run the destructors of earlier owners.
THEOREM BackingIsExclusive == Spec => []ExclusiveBacking
<1>1. Ownership => ExclusiveBacking
  BY DEF Ownership, Objects, Handles, Owners, Assigned, OwnersOf, ExclusiveBacking
<1> QED
  BY <1>1, OwnershipInvariant, PTL

\* A block with a pin is alive and not free.
LEMMA PinnedIsOwned ==
  ASSUME Ownership, NEW b \in Blk, alloc[b].pins > 0
  PROVE  /\ alloc[b].live /\ alloc[b].category # Free
         /\ \E p \in PinId, t \in Tok :
              pin[p] = {t} /\ tok[t].live /\ b \in tok[t].blocks
<1>1. PinsOn(b) # {}
  BY PinsOnFinite, FS_EmptySet DEF Ownership, Pins
<1>2. PICK p \in PinId, t \in Tok : pin[p] = {t} /\ tok[t].live /\ b \in tok[t].blocks
  BY <1>1 DEF PinsOn
<1>3. alloc[b].live
  BY <1>2 DEF Ownership, Handles
<1>4. CASE tok[t].pooled
  BY <1>2, <1>3, <1>4 DEF Ownership, Owners
<1>5. CASE ~tok[t].pooled
  BY <1>2, <1>3, <1>5 DEF Ownership, Owners, Pins
<1> QED
  BY <1>2, <1>3, <1>4, <1>5

\* A pinned block is alive, owned, out of the pool, and counts its pins.
THEOREM PinsKeepOwners == Spec => []PinnedStaysOwned
<1>1. Ownership => PinnedStaysOwned
  BY PinnedIsOwned DEF Ownership, Pins, PinnedStaysOwned
<1> QED
  BY <1>1, OwnershipInvariant, PTL

\* While a pin survives, the pinned block keeps its owner and never becomes a
\* reservation again: a disk job reads bytes nobody else can write.
THEOREM PinnedBlocksAreStable == Spec => PinnedBlockStable
<1> DEFINE Stable(b) == alloc[b].pins > 0 /\ alloc'[b].pins > 0 =>
                          /\ OwnersOf(b)' = OwnersOf(b)
                          /\ alloc'[b].reserved => alloc[b].reserved
<1>1. ASSUME Ownership, NEW b \in Blk, alloc[b].pins > 0
      PROVE  /\ alloc[b].live /\ alloc[b].category # Free
             /\ \E p \in PinId, t \in Tok :
                  pin[p] = {t} /\ tok[t].live /\ b \in tok[t].blocks
  BY <1>1, PinnedIsOwned
<1>2. ASSUME Ownership, [Next]_vars, NEW b \in Blk, alloc[b].pins > 0,
             alloc'[b].pins > 0
      PROVE  Stable(b)
  <2> USE DEF Ownership
  <2> HIDE DEF Stable
  <2>1. CASE UNCHANGED <<alloc, tok>>
    BY <2>1 DEF OwnersOf, Stable
  <2>2. ASSUME OwnersOf(b)' = OwnersOf(b), alloc'[b].reserved => alloc[b].reserved
        PROVE  Stable(b)
    BY <2>2 DEF Stable
  <2>3. ASSUME NEW t \in Tok, NEW d \in Blk, NEW c \in ResourceCategory,
               NEW n \in Sizes, Reserve(t, d, c, n)
        PROVE  Stable(b)
    <3>1. CASE UNCHANGED <<alloc, tok, pin>>
      BY <2>1, <3>1
    <3>2. CASE /\ ~tok[t].live /\ ~alloc[d].live
               /\ alloc' = [alloc EXCEPT ![d] =
                    [live |-> TRUE, category |-> c, backing |-> c = Free, bytes |-> n,
                     reserved |-> TRUE, pins |-> 0]]
               /\ tok' = [tok EXCEPT ![t] =
                    [live |-> TRUE, held |-> TRUE, charge |-> FALSE, pooled |-> FALSE,
                     blocks |-> {d}]]
      <4>1. b # d
        BY <1>1, <1>2, <3>2
      <4>2. alloc'[b] = alloc[b]
        BY <1>2, <3>2, <4>1 DEF Objects
      <4>3. ~tok[t].live /\ ~tok'[t].pooled /\ \A u \in Tok : u # t => tok'[u] = tok[u]
        BY <1>2, <3>2 DEF Objects
      <4>4. OwnersOf(b)' = OwnersOf(b)
        BY <4>3 DEF OwnersOf
      <4> QED
        BY <2>2, <4>2, <4>4
    <3> QED
      BY <2>3, <3>1, <3>2 DEF Reserve, Throws
  <2>4. ASSUME NEW t \in Tok, Convert(t) PROVE Stable(b)
    <3>1. CASE UNCHANGED <<alloc, tok, pin>>
      BY <2>1, <3>1
    <3> DEFINE B == tok[t].blocks
               x == alloc[CHOOSE d \in B : TRUE].category
               y == IF x = Spill THEN Chunk ELSE x
    <3>2. CASE /\ tok' = [tok EXCEPT ![t].charge = TRUE]
               /\ alloc' = [d \in Blk |-> IF d \in B
                           THEN [alloc[d] EXCEPT !.reserved = FALSE, !.category = y]
                           ELSE alloc[d]]
      <4> HIDE DEF x, y
      <4>0. ASSUME NEW u \in Tok PROVE
              /\ tok'[u].live = tok[u].live /\ tok'[u].pooled = tok[u].pooled
              /\ tok'[u].blocks = tok[u].blocks
        BY <1>2, <3>2 DEF Objects
      <4>1. OwnersOf(b)' = OwnersOf(b)
        BY <4>0 DEF OwnersOf
      <4>2. alloc'[b].reserved => alloc[b].reserved
        BY <1>2, <3>2 DEF Objects
      <4> QED
        BY <2>2, <4>1, <4>2
    <3> QED
      BY <2>4, <3>1, <3>2 DEF Convert, Throws
  <2>5. ASSUME NEW t \in Tok, NEW B \in SUBSET Blk, NEW c \in Assignable,
               ReserveBacking(t, B, c)
        PROVE  Stable(b)
    <3>1. CASE UNCHANGED <<alloc, tok, pin>>
      BY <2>1, <3>1
    <3>2. CASE /\ ~tok[t].live /\ AllFree(B)
               /\ alloc' = [d \in Blk |-> IF d \in B
                              THEN [alloc[d] EXCEPT !.category = c, !.reserved = TRUE]
                              ELSE alloc[d]]
               /\ tok' = [tok EXCEPT ![t] =
                    [live |-> TRUE, held |-> TRUE, charge |-> FALSE, pooled |-> TRUE,
                     blocks |-> B]]
      <4>1. b \notin B
        BY <1>1, <1>2, <3>2 DEF AllFree
      <4>2. alloc'[b] = alloc[b]
        BY <3>2, <4>1
      <4>3. /\ ~tok[t].live /\ tok'[t].blocks = B
            /\ \A u \in Tok : u # t => tok'[u] = tok[u]
        BY <1>2, <3>2 DEF Objects
      <4>4. OwnersOf(b)' = OwnersOf(b)
        BY <4>1, <4>3 DEF OwnersOf
      <4> QED
        BY <2>2, <4>2, <4>4
    <3> QED
      BY <2>5, <3>1, <3>2 DEF ReserveBacking, Throws
  <2>6. ASSUME NEW p \in PinId, NEW t \in Tok, Pin(p, t) PROVE Stable(b)
    <3>1. CASE UNCHANGED <<alloc, tok, pin>>
      BY <2>1, <3>1
    <3>2. CASE /\ tok' = tok
               /\ alloc' = [d \in Blk |-> IF d \in tok[t].blocks
                              THEN [alloc[d] EXCEPT !.pins = @ + 1] ELSE alloc[d]]
      <4>1. OwnersOf(b)' = OwnersOf(b)
        BY <3>2 DEF OwnersOf
      <4>2. alloc'[b].reserved => alloc[b].reserved
        BY <1>2, <3>2 DEF Objects
      <4> QED
        BY <2>2, <4>1, <4>2
    <3> QED
      BY <2>6, <3>1, <3>2 DEF Pin, Throws
  <2>7. ASSUME NEW t \in Tok, DropHandle(t) PROVE Stable(b)
    <3>1. OwnersOf(b)' = OwnersOf(b)
      BY <1>2, <2>7 DEF DropHandle, OwnersOf, Objects
    <3> QED
      BY <2>2, <2>7, <3>1 DEF DropHandle
  <2>8. ASSUME NEW p \in PinId, DestroyPin(p) PROVE Stable(b)
    <3>1. OwnersOf(b)' = OwnersOf(b)
      BY <2>8 DEF DestroyPin, OwnersOf
    <3>2. alloc'[b].reserved => alloc[b].reserved
      BY <1>2, <2>8 DEF DestroyPin, Objects
    <3> QED
      BY <2>2, <3>1, <3>2
  <2>9. ASSUME NEW t \in Tok, DestroyToken(t) PROVE Stable(b)
    <3>1. PICK p \in PinId, u \in Tok :
            pin[p] = {u} /\ tok[u].live /\ b \in tok[u].blocks
      BY <1>1, <1>2
    <3>2. u # t /\ tok[t].live
      BY <2>9, <3>1 DEF DestroyToken, Unreferenced, PinsOf
    <3>3. ASSUME tok[t].pooled PROVE b \notin tok[t].blocks
      <4>1. CASE tok[u].pooled
        <5>1. Assigned(u, b) /\ ~Assigned(t, b)
          BY <1>2, <3>1, <3>2, <4>1 DEF Owners, Assigned
        <5> QED
          BY <3>2, <3>3, <5>1 DEF Assigned
      <4>2. CASE ~tok[u].pooled
        <5>1. ~alloc[b].backing
          BY <1>2, <3>1, <4>2 DEF Pins
        <5> QED
          BY <1>2, <3>2, <3>3, <5>1 DEF Owners
      <4> QED
        BY <4>1, <4>2
    <3>4. tok' = [tok EXCEPT ![t] = NoTok]
      BY <2>9 DEF DestroyToken
    <3>5. OwnersOf(b)' = OwnersOf(b)
      BY <1>2, <3>3, <3>4 DEF OwnersOf, Objects, NoTok
    <3>6. alloc'[b].reserved => alloc[b].reserved
      <4>1. CASE tok[t].pooled
        BY <2>9, <3>3, <4>1, Zenon DEF DestroyToken
      <4>2. CASE ~tok[t].pooled
        BY <2>9, <4>2 DEF DestroyToken
      <4> QED
        BY <4>1, <4>2
    <3> QED
      BY <2>2, <3>5, <3>6
  <2>10. ASSUME NEW d \in Blk, DestroyAllocation(d) PROVE Stable(b)
    <3>1. alloc'[b].reserved => alloc[b].reserved
      BY <1>2, <2>10 DEF DestroyAllocation, Objects, NoAlloc
    <3>2. OwnersOf(b)' = OwnersOf(b)
      BY <2>10 DEF DestroyAllocation, OwnersOf
    <3> QED
      BY <2>2, <3>1, <3>2
  <2> QED
    BY <1>2, <2>1, <2>3, <2>4, <2>5, <2>6, <2>7, <2>8, <2>9, <2>10
    DEF Next, Drop, Release, vars, ConstrainLimits, SnapshotAndResetPeaks, FailAfter,
        ClearFaults
<1>3. Ownership /\ [Next]_vars => [\A b \in Blk : alloc[b].pins > 0 /\ alloc'[b].pins > 0 =>
        /\ OwnersOf(b)' = OwnersOf(b)
        /\ alloc'[b].reserved => alloc[b].reserved]_vars
  BY <1>2
<1> QED
  BY <1>3, OwnershipInvariant, PTL DEF Spec, PinnedBlockStable

-----------------------------------------------------------------------------
(***************************************************************************)
(* The accounts of the ledger are exact, for every set of blocks, sizes,   *)
(* tokens, pins and limits: each counter of ResourceSnapshot is the sum of *)
(* the bytes of the objects it counts, none passes its limit, and they are *)
(* zero once everything has been released.                                 *)
(*                                                                         *)
(* The first part shows who owns what; this part adds the sums.  The       *)
(* operations move whole groups of blocks between categories, so most of   *)
(* it is about what such a move does to the five classes that are counted. *)
(***************************************************************************)
HIDE DEF Free, Spill, Chunk, Private, Tail, Metadata, Staging

\* The bytes of the blocks S of the allocation table a.
Total(a, S) == MapThenSumSet(LAMBDA b : a[b].bytes, S)

\* Every block of a has a size.
Sized(a) == \A b \in Blk : a[b].bytes \in Nat

\* The sizes of a as weights of SumLemmas.
Weights(a) == [b \in Blk |-> a[b].bytes]

-----------------------------------------------------------------------------
(* Sums of block sizes *)

\* SizeOf is the sum of the current sizes.
LEMMA SizeOfIs == \A S : SizeOf(S) = Total(alloc, S)
BY DEF SizeOf, Total

\* The function MapThenFoldSet iterates to compute Total(a, S).
SizeStep(g, a, S) ==
  g = [s \in SUBSET S |-> IF s = {} THEN 0
                          ELSE a[CHOOSE x \in s : TRUE].bytes
                               + g[s \ {CHOOSE x \in s : TRUE}]]

\* Total is a sum in the sense of SumLemmas.
LEMMA TotalIs ==
  ASSUME NEW a, Sized(a), NEW S \in SUBSET Blk
  PROVE  Total(a, S) = SumOf(Weights(a), S) /\ Weights(a) \in [Blk -> Nat]
         /\ IsFiniteSet(S)
<1>. DEFINE w == Weights(a)
            c == CHOOSE g : SizeStep(g, a, S)
<1>1. w \in [Blk -> Nat] /\ \A b \in Blk : w[b] = a[b].bytes
  BY DEF Sized, Weights
<1>2. IsFiniteSet(S)
  BY LedgerAssumption, FS_Subset
<1>3. Total(a, S) = c[S]
  BY DEF Total, MapThenSumSet, MapThenFoldSet, SizeStep
<1>. HIDE DEF w
<1>4. ASSUME NEW g PROVE SizeStep(g, a, S) <=> IsSum(g, w, S)
  <2>1. ASSUME NEW s \in SUBSET S, s # {}
        PROVE  a[CHOOSE x \in s : TRUE].bytes = w[CHOOSE x \in s : TRUE]
    BY <1>1, <2>1
  <2>2. [s \in SUBSET S |-> IF s = {} THEN 0
                            ELSE a[CHOOSE x \in s : TRUE].bytes
                                 + g[s \ {CHOOSE x \in s : TRUE}]]
      = [s \in SUBSET S |-> IF s = {} THEN 0
                            ELSE w[CHOOSE x \in s : TRUE]
                                 + g[s \ {CHOOSE x \in s : TRUE}]]
    BY <2>1
  <2>. QED
    BY <2>2 DEF IsSum, Pick, SizeStep
<1>5. PICK h : IsSum(h, w, S)
  BY <1>1, <1>2, SumExists
<1>6. SizeStep(c, a, S)
  <2>1. \E g : SizeStep(g, a, S)
    BY <1>4, <1>5
  <2>. QED
    BY <2>1
<1>7. IsSum(c, w, S)
  BY <1>4, <1>6
<1>8. SumOf(w, S) = c[S]
  BY <1>1, <1>2, <1>7, SumIs
<1>. QED
  BY <1>1, <1>2, <1>3, <1>8 DEF w

\* A total is a natural.
LEMMA TotalNat ==
  ASSUME NEW a, Sized(a), NEW S \in SUBSET Blk
  PROVE  Total(a, S) \in Nat
BY TotalIs, SumNat

\* No block has no bytes.
LEMMA TotalEmpty ==
  ASSUME NEW a, Sized(a)
  PROVE  Total(a, {}) = 0
BY TotalIs, SumEmpty

\* The total of one block is its size.
LEMMA TotalOne ==
  ASSUME NEW a, Sized(a), NEW b \in Blk
  PROVE  Total(a, {b}) = a[b].bytes
<1>1. Weights(a) \in [Blk -> Nat] /\ Total(a, {b}) = SumOf(Weights(a), {b})
  BY TotalIs
<1>2. SumOf(Weights(a), {} \cup {b}) = Weights(a)[b] + SumOf(Weights(a), {})
  BY <1>1, SumAdd, FS_EmptySet
<1>3. {} \cup {b} = {b} /\ SumOf(Weights(a), {}) = 0
  BY <1>1, SumEmpty
<1>4. Weights(a)[b] = a[b].bytes /\ a[b].bytes \in Nat
  BY DEF Weights, Sized
<1>. QED
  BY <1>1, <1>2, <1>3, <1>4

\* Two tables with the same sizes on S have the same total.
LEMMA TotalSame ==
  ASSUME NEW a, Sized(a), NEW z, Sized(z), NEW S \in SUBSET Blk,
         \A b \in S : a[b].bytes = z[b].bytes
  PROVE  Total(a, S) = Total(z, S)
<1>1. \A b \in S : Weights(a)[b] = Weights(z)[b]
  BY DEF Weights
<1>2. /\ Total(a, S) = SumOf(Weights(a), S) /\ Weights(a) \in [Blk -> Nat]
      /\ Total(z, S) = SumOf(Weights(z), S) /\ Weights(z) \in [Blk -> Nat]
      /\ IsFiniteSet(S)
  BY TotalIs
<1>. QED
  BY <1>1, <1>2, SumSame

\* Totals of disjoint sets add up.
LEMMA TotalUnion ==
  ASSUME NEW a, Sized(a), NEW S \in SUBSET Blk, NEW T \in SUBSET Blk,
         S \cap T = {}
  PROVE  Total(a, S \cup T) = Total(a, S) + Total(a, T)
<1>1. /\ Total(a, S) = SumOf(Weights(a), S) /\ IsFiniteSet(S)
      /\ Total(a, T) = SumOf(Weights(a), T) /\ IsFiniteSet(T)
      /\ Total(a, S \cup T) = SumOf(Weights(a), S \cup T)
      /\ Weights(a) \in [Blk -> Nat]
  BY TotalIs
<1>. QED
  BY <1>1, SumUnion

\* A class gains the blocks of B.
LEMMA TotalIn ==
  ASSUME NEW a, Sized(a), NEW z, Sized(z), NEW K \in SUBSET Blk,
         NEW B \in SUBSET Blk, K \cap B = {},
         \A b \in K : a[b].bytes = z[b].bytes
  PROVE  Total(z, K \cup B) = Total(a, K) + Total(z, B)
BY TotalSame, TotalUnion

\* A class loses the blocks of B.
LEMMA TotalOut ==
  ASSUME NEW a, Sized(a), NEW z, Sized(z), NEW K \in SUBSET Blk,
         NEW B \in SUBSET K, \A b \in K \ B : a[b].bytes = z[b].bytes
  PROVE  Total(z, K \ B) = Total(a, K) - Total(a, B)
<1>1. Total(a, (K \ B) \cup B) = Total(a, K \ B) + Total(a, B)
  BY TotalUnion
<1>2. Total(a, (K \ B) \cup B) = Total(a, K)
  <2>1. (K \ B) \cup B = K
    OBVIOUS
  <2>. QED
    BY <2>1, Zenon
<1>3. Total(z, K \ B) = Total(a, K \ B)
  BY TotalSame
<1>4. Total(a, K \ B) \in Nat /\ Total(a, B) \in Nat /\ Total(a, K) \in Nat
  BY TotalNat
<1>. QED
  BY <1>1, <1>2, <1>3, <1>4

\* A class gains, loses or keeps all the blocks of B.
LEMMA Reclass ==
  ASSUME NEW a, Sized(a), NEW z, Sized(z),
         \A b \in Blk : a[b].bytes = z[b].bytes,
         NEW K \in SUBSET Blk, NEW L \in SUBSET Blk, NEW B \in SUBSET Blk,
         K \ B = L \ B,
         NEW out \in BOOLEAN, IF out THEN B \subseteq K ELSE K \cap B = {},
         NEW in \in BOOLEAN, IF in THEN B \subseteq L ELSE L \cap B = {}
  PROVE  Total(z, L) = Total(a, K) - (IF out THEN Total(a, B) ELSE 0)
                                   + (IF in THEN Total(a, B) ELSE 0)
<1>1. /\ Total(a, K) \in Nat /\ Total(a, B) \in Nat /\ Total(a, K \ B) \in Nat
      /\ Total(z, L) \in Nat
      /\ Total(z, B) = Total(a, B) /\ Total(z, K \ B) = Total(a, K \ B)
  BY TotalNat, TotalSame
<1>2. Total(a, K \ B) = Total(a, K) - (IF out THEN Total(a, B) ELSE 0)
  <2>1. CASE out
    <3>1. B \in SUBSET K
      BY <2>1
    <3>. QED
      BY <2>1, <3>1, TotalOut
  <2>2. CASE ~out
    <3>1. K \ B = K
      BY <2>2
    <3>2. Total(a, K \ B) = Total(a, K)
      BY <3>1, Zenon
    <3>. QED
      BY <1>1, <2>2, <3>2
  <2>. QED
    BY <2>1, <2>2
<1>3. Total(z, L) = Total(z, L \ B) + (IF in THEN Total(z, B) ELSE 0)
  <2>1. CASE in
    <3>1. (L \ B) \cup B = L /\ (L \ B) \cap B = {}
      BY <2>1
    <3>2. Total(z, (L \ B) \cup B) = Total(z, L \ B) + Total(z, B)
      BY <3>1, TotalUnion
    <3>3. Total(z, (L \ B) \cup B) = Total(z, L)
      BY <3>1, Zenon
    <3>. QED
      BY <2>1, <3>2, <3>3
  <2>2. CASE ~in
    <3>1. L \ B = L
      BY <2>2
    <3>2. Total(z, L \ B) = Total(z, L)
      BY <3>1, Zenon
    <3>. QED
      BY <1>1, <2>2, <3>2
  <2>. QED
    BY <2>1, <2>2
<1>4. Total(z, L \ B) = Total(z, K \ B)
  BY Zenon
<1>. QED
  BY <1>1, <1>2, <1>3, <1>4
-----------------------------------------------------------------------------
(* The invariant *)

\* The classes of blocks the counters of ResourceSnapshot add up.
InCategory(a, c) == {b \in Blk : a[b].live /\ a[b].category = c}
\* Blocks counted in ResourceSnapshot::reserved.
InReserve(a, c) == {b \in Blk : a[b].live /\ a[b].category = c /\ a[b].reserved}
\* Blocks counted in the total.
InUse(a) == {b \in Blk : a[b].live}
\* Blocks counted as RAM: staging is counted apart.
InRam(a) == {b \in Blk : a[b].live /\ a[b].category # Staging}
\* Blocks counted as pinned.
InPins(a) == {b \in Blk : a[b].live /\ a[b].pins > 0}

\* The fields of an allocation.
AllocState == [live : BOOLEAN, category : ResourceCategory, backing : BOOLEAN,
               bytes : Nat, reserved : BOOLEAN, pins : Nat]
\* The fields of ResourceSnapshot, before anything is known of their signs.
SnapState == [bytes : Snapshot(Int), reserved : Snapshot(Int), total : Int,
              ram : Int, pinned : Int]
\* The fields of the peaks.
PeakState == [bytes : [Watched -> Int], total : Int, ram : Int, pinned : Int]

\* The types that are not about objects.
Counters ==
  /\ snap \in SnapState
  /\ peak \in PeakState
  /\ limits \in Limits
  /\ faults \in [LedgerStep -> -1..MaxFault]

\* Whether a block counts as reserved follows the token that could convert it:
\* Convert and ~ChargeToken read one block and move the bytes of all.
Reservations ==
  /\ \A b \in Blk : alloc[b].backing => alloc[b].category # Staging
  /\ \A t \in Tok : tok[t].live /\ ~tok[t].charge =>
       \A b \in tok[t].blocks : alloc[b].reserved
  /\ \A t \in Tok : tok[t].live /\ tok[t].charge =>
       \A b \in tok[t].blocks : alloc[b].category = Free => ~alloc[b].reserved

\* The counters s are the bytes of the objects in a.
Counted(s, a) ==
  /\ \A c \in ResourceCategory : s.bytes[c] = Total(a, InCategory(a, c))
  /\ \A c \in ResourceCategory : s.reserved[c] = Total(a, InReserve(a, c))
  /\ s.total = Total(a, InUse(a))
  /\ s.ram = Total(a, InRam(a))
  /\ s.pinned = Total(a, InPins(a))

\* What the ledger's accounts promise in every state.
Accounts == /\ Counters /\ Reservations
            /\ Counted(snap, alloc) /\ WithinLimits

\* The inductive invariant: who owns what, and what it counts for.
Balance == Ownership /\ Accounts

-----------------------------------------------------------------------------
(* Lemmas about the counters *)

\* Move takes n from one counter and adds it to another, or to the same.
LEMMA MoveIs ==
  ASSUME NEW f \in Snapshot(Int), NEW c \in ResourceCategory,
         NEW d \in ResourceCategory, NEW n \in Int
  PROVE  /\ Move(f, c, d, n) \in Snapshot(Int)
         /\ \A k \in ResourceCategory :
              Move(f, c, d, n)[k] = f[k] - (IF k = c THEN n ELSE 0)
                                         + (IF k = d THEN n ELSE 0)
<1>. DEFINE g == [f EXCEPT ![c] = @ - n]
<1>1. g \in Snapshot(Int) /\ \A k \in ResourceCategory :
        g[k] = f[k] - (IF k = c THEN n ELSE 0) /\ g[k] \in Int
  BY DEF Snapshot
<1>2. Move(f, c, d, n) = [g EXCEPT ![d] = @ + n]
  BY DEF Move
<1>. HIDE DEF g
<1>. QED
  BY <1>1, <1>2 DEF Snapshot

\* Peaks keeps its type.
LEMMA PeaksType ==
  ASSUME NEW p \in PeakState, NEW s \in SnapState
  PROVE  Peaks(p, s) \in PeakState
<1>1. \A m \in Int, n \in Int : MaxOf(m, n) \in Int
  BY DEF MaxOf
<1>2. [c \in Watched |-> MaxOf(p.bytes[c], s.bytes[c])] \in [Watched -> Int]
  BY <1>1, LedgerAssumption DEF PeakState, SnapState, Snapshot
<1>3. /\ MaxOf(p.total, s.total) \in Int /\ MaxOf(p.ram, s.ram) \in Int
      /\ MaxOf(p.pinned, s.pinned) \in Int
  BY <1>1 DEF PeakState, SnapState
<1>. QED
  BY <1>2, <1>3 DEF Peaks, PeakState

\* Counting down to an injected fault keeps the type of the fault table.
LEMMA AttemptType ==
  ASSUME faults \in [LedgerStep -> -1..MaxFault], NEW s \in LedgerStep, Attempt(s)
  PROVE  faults' \in [LedgerStep -> -1..MaxFault]
BY LedgerAssumption DEF Attempt

\* Allocations have sizes.
LEMMA AllocSized ==
  ASSUME NEW a, a \in [Blk -> AllocState]
  PROVE  Sized(a)
BY DEF Sized, AllocState

\* The classes are sets of blocks.
LEMMA ClassesIn ==
  ASSUME NEW a, NEW c
  PROVE  /\ InCategory(a, c) \in SUBSET Blk /\ InReserve(a, c) \in SUBSET Blk
         /\ InUse(a) \in SUBSET Blk /\ InRam(a) \in SUBSET Blk
         /\ InPins(a) \in SUBSET Blk
BY DEF InCategory, InReserve, InUse, InRam, InPins

\* A group of blocks changes category, state or both; the bytes go with it.
LEMMA Recategorise ==
  ASSUME NEW a \in [Blk -> AllocState], NEW z \in [Blk -> AllocState],
         NEW B \in SUBSET Blk, NEW c \in ResourceCategory, NEW d \in ResourceCategory,
         c = Staging <=> d = Staging,
         NEW r \in BOOLEAN, NEW q \in BOOLEAN,
         \A b \in B : a[b].live /\ a[b].category = c /\ a[b].reserved = r,
         \A b \in B : z[b].category = d /\ z[b].reserved = q,
         \A b \in Blk : /\ z[b].live = a[b].live /\ z[b].pins = a[b].pins
                        /\ z[b].bytes = a[b].bytes,
         \A b \in Blk \ B : z[b] = a[b]
  PROVE  /\ \A k \in ResourceCategory :
              Total(z, InCategory(z, k)) = Total(a, InCategory(a, k))
                - (IF k = c THEN Total(a, B) ELSE 0)
                + (IF k = d THEN Total(a, B) ELSE 0)
         /\ \A k \in ResourceCategory :
              Total(z, InReserve(z, k)) = Total(a, InReserve(a, k))
                - (IF k = c /\ r THEN Total(a, B) ELSE 0)
                + (IF k = d /\ q THEN Total(a, B) ELSE 0)
         /\ Total(z, InUse(z)) = Total(a, InUse(a))
         /\ Total(z, InRam(z)) = Total(a, InRam(a))
         /\ Total(z, InPins(z)) = Total(a, InPins(a))
<1>1. Sized(a) /\ Sized(z)
  BY AllocSized
<1>2. ASSUME NEW k \in ResourceCategory
      PROVE  Total(z, InCategory(z, k)) = Total(a, InCategory(a, k))
                - (IF k = c THEN Total(a, B) ELSE 0)
                + (IF k = d THEN Total(a, B) ELSE 0)
  <2>. DEFINE K == InCategory(a, k)
              L == InCategory(z, k)
  <2>1. K \in SUBSET Blk /\ L \in SUBSET Blk
    BY ClassesIn
  <2>2. K \ B = L \ B
    BY DEF InCategory
  <2>3. IF k = c THEN B \subseteq K ELSE K \cap B = {}
    BY DEF InCategory
  <2>4. IF k = d THEN B \subseteq L ELSE L \cap B = {}
    BY DEF InCategory
  <2>5. PICK o \in BOOLEAN, i \in BOOLEAN : (o <=> k = c) /\ (i <=> k = d)
    OBVIOUS
  <2>. HIDE DEF K, L
  <2>6. /\ IF o THEN B \subseteq K ELSE K \cap B = {}
        /\ IF i THEN B \subseteq L ELSE L \cap B = {}
    BY <2>3, <2>4, <2>5
  <2>7. Total(z, L) = Total(a, K) - (IF o THEN Total(a, B) ELSE 0)
                                  + (IF i THEN Total(a, B) ELSE 0)
    BY <1>1, <2>1, <2>2, <2>6, Reclass
  <2>. QED
    BY <2>5, <2>7 DEF K, L
<1>3. ASSUME NEW k \in ResourceCategory
      PROVE  Total(z, InReserve(z, k)) = Total(a, InReserve(a, k))
                - (IF k = c /\ r THEN Total(a, B) ELSE 0)
                + (IF k = d /\ q THEN Total(a, B) ELSE 0)
  <2>. DEFINE K == InReserve(a, k)
              L == InReserve(z, k)
  <2>1. K \in SUBSET Blk /\ L \in SUBSET Blk
    BY ClassesIn
  <2>2. K \ B = L \ B
    BY DEF InReserve
  <2>3. IF k = c /\ r THEN B \subseteq K ELSE K \cap B = {}
    BY DEF InReserve
  <2>4. IF k = d /\ q THEN B \subseteq L ELSE L \cap B = {}
    BY DEF InReserve
  <2>5. PICK o \in BOOLEAN, i \in BOOLEAN : (o <=> k = c /\ r) /\ (i <=> k = d /\ q)
    OBVIOUS
  <2>. HIDE DEF K, L
  <2>6. /\ IF o THEN B \subseteq K ELSE K \cap B = {}
        /\ IF i THEN B \subseteq L ELSE L \cap B = {}
    BY <2>3, <2>4, <2>5
  <2>7. Total(z, L) = Total(a, K) - (IF o THEN Total(a, B) ELSE 0)
                                  + (IF i THEN Total(a, B) ELSE 0)
    BY <1>1, <2>1, <2>2, <2>6, Reclass
  <2>. QED
    BY <2>5, <2>7 DEF K, L
<1>4. InUse(z) = InUse(a) /\ InRam(z) = InRam(a) /\ InPins(z) = InPins(a)
  BY DEF InUse, InRam, InPins
<1>5. \A S \in SUBSET Blk : Total(z, S) = Total(a, S)
  BY <1>1, TotalSame
<1>6. /\ Total(z, InUse(a)) = Total(a, InUse(a))
      /\ Total(z, InRam(a)) = Total(a, InRam(a))
      /\ Total(z, InPins(a)) = Total(a, InPins(a))
  BY <1>5, ClassesIn
<1>7. /\ Total(z, InUse(z)) = Total(a, InUse(a))
      /\ Total(z, InRam(z)) = Total(a, InRam(a))
      /\ Total(z, InPins(z)) = Total(a, InPins(a))
  BY <1>4, <1>6, Zenon
<1>. QED
  BY <1>2, <1>3, <1>7

\* Adding one block to the objects adds its bytes to the classes it is in.
LEMMA AddOne ==
  ASSUME NEW a, Sized(a), NEW z, Sized(z), NEW b \in Blk,
         \A d \in Blk \ {b} : a[d].bytes = z[d].bytes,
         NEW K \in SUBSET Blk, b \notin K, NEW in \in BOOLEAN,
         NEW L, L = IF in THEN K \cup {b} ELSE K
  PROVE  Total(z, L) = Total(a, K) + (IF in THEN z[b].bytes ELSE 0)
<1>1. CASE in
  <2>1. Total(z, K \cup {b}) = Total(a, K) + Total(z, {b})
    BY TotalIn
  <2>2. Total(z, {b}) = z[b].bytes
    BY TotalOne
  <2>3. Total(z, L) = Total(z, K \cup {b})
    BY <1>1
  <2>. QED
    BY <1>1, <2>1, <2>2, <2>3
<1>2. CASE ~in
  <2>1. Total(z, K) = Total(a, K) /\ Total(a, K) \in Nat
    BY TotalSame, TotalNat
  <2>2. L = K
    BY <1>2
  <2>3. Total(z, L) = Total(z, K)
    BY <2>2, Zenon
  <2>. QED
    BY <1>2, <2>1, <2>3
<1>. QED
  BY <1>1, <1>2

\* Reserve, read forwards, and ~Allocation, read backwards: z has one block more
\* than a.
LEMMA OneBlock ==
  ASSUME NEW a \in [Blk -> AllocState], NEW z \in [Blk -> AllocState],
         NEW b \in Blk, ~a[b].live, z[b].live, z[b].pins = 0,
         \A d \in Blk \ {b} : z[d] = a[d]
  PROVE  /\ \A k \in ResourceCategory :
              Total(z, InCategory(z, k)) = Total(a, InCategory(a, k))
                + (IF k = z[b].category THEN z[b].bytes ELSE 0)
         /\ \A k \in ResourceCategory :
              Total(z, InReserve(z, k)) = Total(a, InReserve(a, k))
                + (IF k = z[b].category /\ z[b].reserved THEN z[b].bytes ELSE 0)
         /\ Total(z, InUse(z)) = Total(a, InUse(a)) + z[b].bytes
         /\ Total(z, InRam(z)) = Total(a, InRam(a))
              + (IF z[b].category # Staging THEN z[b].bytes ELSE 0)
         /\ Total(z, InPins(z)) = Total(a, InPins(a))
<1>1. Sized(a) /\ Sized(z)
  BY AllocSized
<1>2. \A d \in Blk \ {b} : a[d].bytes = z[d].bytes
  OBVIOUS
<1>3. ASSUME NEW k \in ResourceCategory
      PROVE  Total(z, InCategory(z, k)) = Total(a, InCategory(a, k))
                + (IF k = z[b].category THEN z[b].bytes ELSE 0)
  <2>1. PICK i \in BOOLEAN : i <=> k = z[b].category
    OBVIOUS
  <2>2. /\ InCategory(a, k) \in SUBSET Blk /\ b \notin InCategory(a, k)
        /\ InCategory(z, k) = IF i THEN InCategory(a, k) \cup {b} ELSE InCategory(a, k)
    BY <2>1 DEF InCategory
  <2>3. Total(z, InCategory(z, k)) = Total(a, InCategory(a, k))
                                     + (IF i THEN z[b].bytes ELSE 0)
    BY <1>1, <1>2, <2>2, AddOne
  <2>. QED
    BY <2>1, <2>3
<1>4. ASSUME NEW k \in ResourceCategory
      PROVE  Total(z, InReserve(z, k)) = Total(a, InReserve(a, k))
                + (IF k = z[b].category /\ z[b].reserved THEN z[b].bytes ELSE 0)
  <2>1. PICK i \in BOOLEAN : i <=> k = z[b].category /\ z[b].reserved
    OBVIOUS
  <2>2. /\ InReserve(a, k) \in SUBSET Blk /\ b \notin InReserve(a, k)
        /\ InReserve(z, k) = IF i THEN InReserve(a, k) \cup {b} ELSE InReserve(a, k)
    BY <2>1 DEF InReserve
  <2>3. Total(z, InReserve(z, k)) = Total(a, InReserve(a, k))
                                    + (IF i THEN z[b].bytes ELSE 0)
    BY <1>1, <1>2, <2>2, AddOne
  <2>. QED
    BY <2>1, <2>3
<1>5. Total(z, InUse(z)) = Total(a, InUse(a)) + z[b].bytes
  <2>0. PICK i \in BOOLEAN : i
    OBVIOUS
  <2>1. /\ InUse(a) \in SUBSET Blk /\ b \notin InUse(a)
        /\ InUse(z) = IF i THEN InUse(a) \cup {b} ELSE InUse(a)
    BY <2>0 DEF InUse
  <2>2. Total(z, InUse(z)) = Total(a, InUse(a)) + (IF i THEN z[b].bytes ELSE 0)
    BY <1>1, <1>2, <2>1, AddOne
  <2>. QED
    BY <2>0, <2>2
<1>6. Total(z, InRam(z)) = Total(a, InRam(a))
              + (IF z[b].category # Staging THEN z[b].bytes ELSE 0)
  <2>1. PICK i \in BOOLEAN : i <=> z[b].category # Staging
    OBVIOUS
  <2>2. /\ InRam(a) \in SUBSET Blk /\ b \notin InRam(a)
        /\ InRam(z) = IF i THEN InRam(a) \cup {b} ELSE InRam(a)
    BY <2>1 DEF InRam
  <2>3. Total(z, InRam(z)) = Total(a, InRam(a)) + (IF i THEN z[b].bytes ELSE 0)
    BY <1>1, <1>2, <2>2, AddOne
  <2>. QED
    BY <2>1, <2>3
<1>7. Total(z, InPins(z)) = Total(a, InPins(a))
  <2>0. PICK i \in BOOLEAN : ~i
    OBVIOUS
  <2>1. /\ InPins(a) \in SUBSET Blk /\ b \notin InPins(a)
        /\ InPins(z) = IF i THEN InPins(a) \cup {b} ELSE InPins(a)
    BY <2>0 DEF InPins
  <2>2. Total(z, InPins(z)) = Total(a, InPins(a)) + (IF i THEN z[b].bytes ELSE 0)
    BY <1>1, <1>2, <2>1, AddOne
  <2>3. Total(a, InPins(a)) \in Nat
    BY <1>1, <2>1, TotalNat
  <2>. QED
    BY <2>0, <2>2, <2>3
<1>. QED
  BY <1>3, <1>4, <1>5, <1>6, <1>7

\* What Reserve and ~Allocation do to the counters: m reserved bytes of the n
\* bytes added to category c.
Charged(s, c, n, m) ==
  [s EXCEPT !.bytes[c] = @ + n, !.reserved[c] = @ + m, !.total = @ + n,
            !.ram = IF c = Staging THEN @ ELSE @ + n]

\* What Charged does, field by field.
LEMMA ChargedIs ==
  ASSUME NEW s \in SnapState, NEW c \in ResourceCategory, NEW n \in Int, NEW m \in Int
  PROVE  /\ Charged(s, c, n, m) \in SnapState
         /\ \A k \in ResourceCategory :
              /\ Charged(s, c, n, m).bytes[k] = s.bytes[k] + (IF k = c THEN n ELSE 0)
              /\ Charged(s, c, n, m).reserved[k]
                   = s.reserved[k] + (IF k = c THEN m ELSE 0)
         /\ Charged(s, c, n, m).total = s.total + n
         /\ Charged(s, c, n, m).ram = s.ram + (IF c # Staging THEN n ELSE 0)
         /\ Charged(s, c, n, m).pinned = s.pinned
<1>. DEFINE f == [s.bytes EXCEPT ![c] = @ + n]
            g == [s.reserved EXCEPT ![c] = @ + m]
            r == IF c = Staging THEN s.ram ELSE s.ram + n
<1>1. /\ s.bytes \in Snapshot(Int) /\ s.reserved \in Snapshot(Int)
      /\ s.total \in Int /\ s.ram \in Int /\ s.pinned \in Int
  BY DEF SnapState
<1>2. f \in Snapshot(Int) /\ \A k \in ResourceCategory :
        f[k] = s.bytes[k] + (IF k = c THEN n ELSE 0)
  BY <1>1 DEF Snapshot
<1>3. g \in Snapshot(Int) /\ \A k \in ResourceCategory :
        g[k] = s.reserved[k] + (IF k = c THEN m ELSE 0)
  BY <1>1 DEF Snapshot
<1>4. r \in Int /\ r = s.ram + (IF c # Staging THEN n ELSE 0)
  BY <1>1
<1>5. /\ Charged(s, c, n, m).bytes = f /\ Charged(s, c, n, m).reserved = g
      /\ Charged(s, c, n, m).total = s.total + n
      /\ Charged(s, c, n, m).ram = r /\ Charged(s, c, n, m).pinned = s.pinned
  BY DEF Charged, SnapState
<1>6. Charged(s, c, n, m) = [s EXCEPT !.bytes = f, !.reserved = g,
                                      !.total = s.total + n, !.ram = r]
  BY Zenon DEF Charged
<1>7. [s EXCEPT !.bytes = f, !.reserved = g, !.total = s.total + n, !.ram = r]
        \in SnapState
  <2>1. f \in Snapshot(Int) /\ g \in Snapshot(Int) /\ r \in Int
        /\ s.total + n \in Int
    BY <1>1, <1>2, <1>3, <1>4
  <2>. HIDE DEF f, g, r
  <2>. QED
    BY <2>1 DEF SnapState
<1>8. Charged(s, c, n, m) \in SnapState
  BY <1>6, <1>7, Zenon
<1>. QED
  BY <1>2, <1>3, <1>4, <1>5, <1>8

\* From a to z, the blocks of B move from category c to d and from state r to q.
Regroups(a, z, B, c, d, r, q) ==
  /\ a \in [Blk -> AllocState] /\ z \in [Blk -> AllocState]
  /\ B \in SUBSET Blk /\ c \in ResourceCategory /\ d \in ResourceCategory
  /\ c = Staging <=> d = Staging
  /\ r \in BOOLEAN /\ q \in BOOLEAN
  /\ \A b \in B : a[b].live /\ a[b].category = c /\ a[b].reserved = r
  /\ \A b \in B : z[b].category = d /\ z[b].reserved = q
  /\ \A b \in Blk : /\ z[b].live = a[b].live /\ z[b].pins = a[b].pins
                    /\ z[b].bytes = a[b].bytes
  /\ \A b \in Blk \ B : z[b] = a[b]

\* f and g are the category and the reserved counters after such a move of n bytes.
Shifts(s, f, g, n, c, d, r, q) ==
  /\ f \in Snapshot(Int) /\ g \in Snapshot(Int)
  /\ \A k \in ResourceCategory :
       /\ f[k] = s.bytes[k] - (IF k = c THEN n ELSE 0) + (IF k = d THEN n ELSE 0)
       /\ g[k] = s.reserved[k] - (IF k = c /\ r THEN n ELSE 0)
                               + (IF k = d /\ q THEN n ELSE 0)

\* The counters with f and g in place.
Shifted(s, f, g) == [s EXCEPT !.bytes = f, !.reserved = g]

\* Counters that move bytes the way a group of blocks is recategorised stay exact.
LEMMA Recount ==
  ASSUME NEW a, NEW z, NEW B, NEW c, NEW d, NEW r, NEW q,
         Regroups(a, z, B, c, d, r, q),
         NEW s \in SnapState, Counted(s, a),
         NEW f, NEW g, Shifts(s, f, g, Total(a, B), c, d, r, q),
         NEW x, x = Shifted(s, f, g)
  PROVE  /\ x \in SnapState /\ Counted(x, z)
         /\ x.bytes[Staging] = s.bytes[Staging] /\ x.total = s.total
         /\ x.ram = s.ram /\ x.pinned = s.pinned
<1>1. Total(a, B) \in Nat
  BY AllocSized, TotalNat DEF Regroups
<1>2. /\ s.bytes \in Snapshot(Int) /\ s.reserved \in Snapshot(Int)
      /\ Staging \in ResourceCategory
  BY DEF SnapState, ResourceCategory
<1>3. f \in Snapshot(Int) /\ g \in Snapshot(Int)
  BY DEF Shifts
<1>4. x \in SnapState
  BY <1>3 DEF SnapState, Shifted
<1>5. /\ x.bytes = f /\ x.reserved = g /\ x.total = s.total /\ x.ram = s.ram
      /\ x.pinned = s.pinned
  BY DEF SnapState, Shifted
<1>6. /\ \A k \in ResourceCategory :
           Total(z, InCategory(z, k)) = Total(a, InCategory(a, k))
             - (IF k = c THEN Total(a, B) ELSE 0)
             + (IF k = d THEN Total(a, B) ELSE 0)
      /\ \A k \in ResourceCategory :
           Total(z, InReserve(z, k)) = Total(a, InReserve(a, k))
             - (IF k = c /\ r THEN Total(a, B) ELSE 0)
             + (IF k = d /\ q THEN Total(a, B) ELSE 0)
      /\ Total(z, InUse(z)) = Total(a, InUse(a))
      /\ Total(z, InRam(z)) = Total(a, InRam(a))
      /\ Total(z, InPins(z)) = Total(a, InPins(a))
  BY Recategorise DEF Regroups
<1>7. Counted(x, z)
  BY <1>5, <1>6 DEF Counted, Shifts
<1>8. f[Staging] = s.bytes[Staging]
  <2>1. s.bytes[Staging] \in Int
    BY <1>2 DEF Snapshot
  <2>. QED
    BY <1>1, <1>2, <2>1 DEF Shifts, Regroups
<1>. QED
  BY <1>4, <1>5, <1>7, <1>8

\* A refused or throwing operation, and the administration of peaks, leave the
\* accounts as they are.
LEMMA AccountsSame ==
  ASSUME Accounts, UNCHANGED <<alloc, tok, snap, limits>>, peak' \in PeakState,
         faults' \in [LedgerStep -> -1..MaxFault]
  PROVE  Accounts'
BY DEF Accounts, Counters, Reservations, Counted, WithinLimits

\* Ownership types the allocation table.
LEMMA AllocType ==
  ASSUME Ownership PROVE alloc \in [Blk -> AllocState]
BY DEF Ownership, Objects, AllocState

\* What Convert, ReserveBacking and ~ChargeToken share: one group of blocks moves
\* and the counters move with it.
LEMMA GroupAccounts ==
  ASSUME Accounts, NEW B, NEW c, NEW d, NEW r, NEW q,
         Regroups(alloc, alloc', B, c, d, r, q),
         NEW f, NEW g, Shifts(snap, f, g, SizeOf(B), c, d, r, q),
         snap' = [snap EXCEPT !.bytes = f, !.reserved = g],
         limits' = limits
  PROVE  snap' \in SnapState /\ Counted(snap', alloc') /\ WithinLimits'
<1>1. PICK a, z : a = alloc /\ z = alloc'
  OBVIOUS
<1>2. PICK s \in SnapState : s = snap
  BY DEF Accounts, Counters
<1>3. Regroups(a, z, B, c, d, r, q) /\ Counted(s, a)
  BY <1>1, <1>2 DEF Accounts
<1>4. SizeOf(B) = Total(a, B)
  BY <1>1, SizeOfIs
<1>5. Shifts(s, f, g, Total(a, B), c, d, r, q)
  BY <1>2, <1>4
<1>6. PICK x : x = Shifted(s, f, g)
  OBVIOUS
<1>7. /\ x \in SnapState /\ Counted(x, z)
      /\ x.bytes[Staging] = s.bytes[Staging] /\ x.total = s.total
      /\ x.ram = s.ram /\ x.pinned = s.pinned
  BY <1>3, <1>5, <1>6, Recount
<1>8. snap' = x
  BY <1>2, <1>6 DEF Shifted
<1>9. WithinLimits'
  BY <1>2, <1>7, <1>8 DEF Accounts, WithinLimits
<1>. QED
  BY <1>1, <1>7, <1>8, <1>9

-----------------------------------------------------------------------------
(* One lemma for each operation *)

USE DEF Free, Spill, Chunk, Private, Tail, Metadata, Staging

\* Reserve charges one block.
LEMMA ReserveAccounts ==
  ASSUME Ownership, Accounts, NEW t \in Tok, NEW b \in Blk,
         NEW c \in ResourceCategory, NEW n \in Sizes, Reserve(t, b, c, n)
  PROVE  Accounts'
<1>0. faults' \in [LedgerStep -> -1..MaxFault]
  <2>1. Attempt("reserve")
    BY DEF Reserve, Throws
  <2>. QED
    BY <2>1, AttemptType DEF Accounts, Counters, LedgerStep
<1>1. CASE UNCHANGED <<alloc, tok, snap, peak, limits>>
  BY <1>0, <1>1, AccountsSame DEF Accounts, Counters
<1>2. CASE /\ ~alloc[b].live
           /\ Admits(c, n)
           /\ alloc' = [alloc EXCEPT ![b] =
                [live |-> TRUE, category |-> c, backing |-> c = Free, bytes |-> n,
                 reserved |-> TRUE, pins |-> 0]]
           /\ tok' = [tok EXCEPT ![t] =
                [live |-> TRUE, held |-> TRUE, charge |-> FALSE, pooled |-> FALSE,
                 blocks |-> {b}]]
           /\ snap' = [snap EXCEPT !.bytes[c] = @ + n, !.reserved[c] = @ + n,
                                   !.total = @ + n,
                                   !.ram = IF c = Staging THEN @ ELSE @ + n]
           /\ peak' = Peaks(peak, snap')
           /\ limits' = limits
  <2>1. Ownership'
    BY ReserveOwnership
  <2>2. alloc \in [Blk -> AllocState] /\ alloc' \in [Blk -> AllocState]
    BY <2>1, AllocType DEF Ownership, Objects, AllocState
  <2>3. /\ alloc'[b].live /\ alloc'[b].category = c /\ alloc'[b].bytes = n
        /\ alloc'[b].reserved /\ alloc'[b].pins = 0 /\ alloc'[b].backing = (c = Free)
        /\ \A d \in Blk \ {b} : alloc'[d] = alloc[d]
    BY <1>2, <2>2
  <2>4. n \in Nat
    BY LedgerAssumption
  <2>5. /\ snap \in SnapState
        /\ \A k \in ResourceCategory : snap.bytes[k] \in Int /\ snap.reserved[k] \in Int
        /\ snap.total \in Int /\ snap.ram \in Int /\ snap.pinned \in Int
    BY DEF Accounts, Counters, SnapState, Snapshot
  <2>6. /\ snap' \in SnapState
        /\ \A k \in ResourceCategory :
             /\ snap'.bytes[k] = snap.bytes[k] + (IF k = c THEN n ELSE 0)
             /\ snap'.reserved[k] = snap.reserved[k] + (IF k = c THEN n ELSE 0)
        /\ snap'.total = snap.total + n
        /\ snap'.ram = snap.ram + (IF c # Staging THEN n ELSE 0)
        /\ snap'.pinned = snap.pinned
    <3>1. PICK v \in SnapState, m \in Int : v = snap /\ m = n
      BY <2>4, <2>5
    <3>2. snap' = Charged(v, c, m, m)
      BY <1>2, <3>1 DEF Charged
    <3>3. PICK w : w = Charged(v, c, m, m)
      OBVIOUS
    <3>4. /\ w \in SnapState
          /\ \A k \in ResourceCategory :
               /\ w.bytes[k] = v.bytes[k] + (IF k = c THEN m ELSE 0)
               /\ w.reserved[k] = v.reserved[k] + (IF k = c THEN m ELSE 0)
          /\ w.total = v.total + m
          /\ w.ram = v.ram + (IF c # Staging THEN m ELSE 0)
          /\ w.pinned = v.pinned
      BY <3>3, ChargedIs
    <3>. QED
      BY <3>1, <3>2, <3>3, <3>4
  <2>7. Counted(snap', alloc')
    <3>1. PICK a \in [Blk -> AllocState], z \in [Blk -> AllocState] :
            a = alloc /\ z = alloc'
      BY <2>2
    <3>2. /\ ~a[b].live /\ z[b].live /\ z[b].pins = 0 /\ z[b].category = c
          /\ z[b].bytes = n /\ z[b].reserved /\ \A d \in Blk \ {b} : z[d] = a[d]
      BY <1>2, <2>3, <3>1
    <3>3. Counted(snap, a)
      BY <3>1 DEF Accounts
    <3>4. Counted(snap', z)
      BY <2>6, <3>2, <3>3, OneBlock DEF Counted
    <3>. QED
      BY <3>1, <3>4
  <2>8. Counters'
    BY <1>0, <1>2, <2>6, PeaksType DEF Accounts, Counters
  <2>9. WithinLimits'
    <3>1. /\ limits.total \in Nat /\ limits.ram \in Nat /\ limits.staging \in Nat
          /\ limits.pinned \in Nat
      BY DEF Accounts, Counters, Limits
    <3>2. Staging \in ResourceCategory
      BY DEF ResourceCategory
    <3>. QED
      BY <1>2, <2>4, <2>5, <2>6, <3>1, <3>2 DEF Accounts, WithinLimits, Admits
  <2>10. Reservations'
    <3>1. \A u \in Tok \ {t} : tok'[u] = tok[u]
      BY <1>2 DEF Ownership, Objects
    <3>2. tok'[t].blocks = {b} /\ ~tok'[t].charge
      BY <1>2 DEF Ownership, Objects
    <3>3. \A u \in Tok \ {t} : tok[u].live => b \notin tok[u].blocks
      BY <1>2 DEF Ownership, Handles
    <3>4. \A u \in Tok : tok[u].blocks \subseteq Blk
      BY DEF Ownership, Objects
    <3>5. \A d \in Blk : alloc'[d].backing => alloc'[d].category # Staging
      <4>1. alloc'[b].backing => alloc'[b].category # Staging
        <5>1. CASE c = Free
          BY <2>3, <5>1
        <5>2. CASE c # Free
          <6>1. ~alloc'[b].backing
            <7>1. alloc'[b].backing = (c = Free)
              BY <2>3
            <7>. QED
              BY <5>2, <7>1
          <6>. QED
            BY <6>1
        <5>. QED
          BY <5>1, <5>2
      <4>. QED
        BY <2>3, <4>1 DEF Accounts, Reservations
    <3>. QED
      BY <2>3, <3>1, <3>2, <3>3, <3>4, <3>5 DEF Accounts, Reservations
  <2>. QED
    BY <2>7, <2>8, <2>9, <2>10 DEF Accounts
<1>. QED
  BY <1>1, <1>2 DEF Reserve, Throws

\* ~Allocation takes n bytes, of which m were reserved, out of category c.
Released(s, c, n, r) ==
  [s EXCEPT !.bytes[c] = @ - n, !.reserved[c] = IF r THEN @ - n ELSE @,
            !.total = @ - n, !.ram = IF c = Staging THEN @ ELSE @ - n]

\* What Released does, field by field.
LEMMA ReleasedIs ==
  ASSUME NEW s \in SnapState, NEW c \in ResourceCategory, NEW n \in Int,
         NEW r \in BOOLEAN
  PROVE  /\ Released(s, c, n, r) \in SnapState
         /\ \A k \in ResourceCategory :
              /\ Released(s, c, n, r).bytes[k] = s.bytes[k] - (IF k = c THEN n ELSE 0)
              /\ Released(s, c, n, r).reserved[k]
                   = s.reserved[k] - (IF k = c /\ r THEN n ELSE 0)
         /\ Released(s, c, n, r).total = s.total - n
         /\ Released(s, c, n, r).ram = s.ram - (IF c # Staging THEN n ELSE 0)
         /\ Released(s, c, n, r).pinned = s.pinned
<1>. DEFINE f == [s.bytes EXCEPT ![c] = @ - n]
            g == [s.reserved EXCEPT ![c] = IF r THEN @ - n ELSE @]
            m == IF c = Staging THEN s.ram ELSE s.ram - n
<1>1. /\ s.bytes \in Snapshot(Int) /\ s.reserved \in Snapshot(Int)
      /\ s.total \in Int /\ s.ram \in Int /\ s.pinned \in Int
  BY DEF SnapState
<1>2. f \in Snapshot(Int) /\ \A k \in ResourceCategory :
        f[k] = s.bytes[k] - (IF k = c THEN n ELSE 0)
  BY <1>1 DEF Snapshot
<1>3. g \in Snapshot(Int) /\ \A k \in ResourceCategory :
        g[k] = s.reserved[k] - (IF k = c /\ r THEN n ELSE 0)
  BY <1>1 DEF Snapshot
<1>4. m \in Int /\ m = s.ram - (IF c # Staging THEN n ELSE 0)
  BY <1>1
<1>5. /\ Released(s, c, n, r).bytes = f /\ Released(s, c, n, r).reserved = g
      /\ Released(s, c, n, r).total = s.total - n
      /\ Released(s, c, n, r).ram = m /\ Released(s, c, n, r).pinned = s.pinned
  BY DEF Released, SnapState
<1>6. Released(s, c, n, r) = [s EXCEPT !.bytes = f, !.reserved = g,
                                       !.total = s.total - n, !.ram = m]
  BY Zenon DEF Released
<1>7. [s EXCEPT !.bytes = f, !.reserved = g, !.total = s.total - n, !.ram = m]
        \in SnapState
  <2>1. f \in Snapshot(Int) /\ g \in Snapshot(Int) /\ m \in Int
        /\ s.total - n \in Int
    BY <1>1, <1>2, <1>3, <1>4
  <2>. HIDE DEF f, g, m
  <2>. QED
    BY <2>1 DEF SnapState
<1>8. Released(s, c, n, r) \in SnapState
  BY <1>6, <1>7, Zenon
<1>. QED
  BY <1>2, <1>3, <1>4, <1>5, <1>8

\* ~Allocation takes one block out of every class it was in.
LEMMA DestroyAllocationAccounts ==
  ASSUME Ownership, Accounts, NEW b \in Blk, DestroyAllocation(b)
  PROVE  Accounts'
<1>1. Ownership'
  BY DestroyAllocationOwnership
<1>2. alloc \in [Blk -> AllocState] /\ alloc' \in [Blk -> AllocState]
  BY <1>1, AllocType DEF Ownership, Objects, AllocState
<1>3. /\ alloc[b].live /\ alloc'[b] = NoAlloc
      /\ \A d \in Blk \ {b} : alloc'[d] = alloc[d]
      /\ \A t \in Tok : tok[t].live => b \notin tok[t].blocks
      /\ UNCHANGED <<tok, pin, peak, limits, faults>>
  BY <1>2 DEF DestroyAllocation, Orphaned
<1>4. alloc[b].pins = 0
  <2>1. PinsOn(b) = {}
    BY <1>3 DEF PinsOn
  <2>. QED
    BY <2>1, FS_EmptySet DEF Ownership, Pins
<1>5. PICK c \in ResourceCategory, n \in Nat, r \in BOOLEAN :
        c = alloc[b].category /\ n = alloc[b].bytes /\ r = alloc[b].reserved
  BY <1>2 DEF AllocState
<1>6. snap \in SnapState
  BY DEF Accounts, Counters
<1>7. snap' = Released(snap, c, n, r)
  BY <1>5 DEF DestroyAllocation, Released
<1>8. /\ snap' \in SnapState
      /\ \A k \in ResourceCategory :
           /\ snap'.bytes[k] = snap.bytes[k] - (IF k = c THEN n ELSE 0)
           /\ snap'.reserved[k] = snap.reserved[k] - (IF k = c /\ r THEN n ELSE 0)
      /\ snap'.total = snap.total - n
      /\ snap'.ram = snap.ram - (IF c # Staging THEN n ELSE 0)
      /\ snap'.pinned = snap.pinned
  BY <1>5, <1>6, <1>7, ReleasedIs
<1>9. Counted(snap', alloc')
  <2>1. PICK a \in [Blk -> AllocState], z \in [Blk -> AllocState] :
          a = alloc' /\ z = alloc
    BY <1>2
  <2>2. /\ ~a[b].live /\ z[b].live /\ z[b].pins = 0 /\ z[b].category = c
        /\ z[b].bytes = n /\ z[b].reserved = r /\ \A d \in Blk \ {b} : z[d] = a[d]
    BY <1>3, <1>4, <1>5, <2>1 DEF NoAlloc
  <2>3. Counted(snap, z)
    BY <2>1 DEF Accounts
  <2>4. Sized(a) /\ Sized(z)
    BY AllocSized
  <2>5. \A k \in ResourceCategory :
          Total(a, InCategory(a, k)) \in Nat /\ Total(a, InReserve(a, k)) \in Nat
    BY <2>4, TotalNat, ClassesIn
  <2>6. Total(a, InUse(a)) \in Nat /\ Total(a, InRam(a)) \in Nat
        /\ Total(a, InPins(a)) \in Nat
    BY <2>4, TotalNat, ClassesIn
  <2>7. \A k \in ResourceCategory : snap'.bytes[k] = Total(a, InCategory(a, k))
    BY <1>8, <2>2, <2>3, <2>5, OneBlock DEF Counted
  <2>8. \A k \in ResourceCategory : snap'.reserved[k] = Total(a, InReserve(a, k))
    <3>. SUFFICES ASSUME NEW k \in ResourceCategory
                  PROVE  snap'.reserved[k] = Total(a, InReserve(a, k))
      OBVIOUS
    <3>1. Total(z, InReserve(z, k)) = Total(a, InReserve(a, k))
            + (IF k = z[b].category /\ z[b].reserved THEN z[b].bytes ELSE 0)
      BY <2>2, OneBlock
    <3>2. (k = z[b].category /\ z[b].reserved) <=> (k = c /\ r)
      BY <2>2
    <3>. QED
      BY <1>5, <1>8, <2>2, <2>3, <2>5, <3>1, <3>2 DEF Counted
  <2>9. /\ snap'.total = Total(a, InUse(a)) /\ snap'.ram = Total(a, InRam(a))
        /\ snap'.pinned = Total(a, InPins(a))
    BY <1>8, <2>2, <2>3, <2>6, OneBlock DEF Counted
  <2>. QED
    BY <2>1, <2>7, <2>8, <2>9 DEF Counted
<1>10. Counters'
  BY <1>3, <1>8 DEF Accounts, Counters
<1>11. WithinLimits'
  <2>1. /\ limits.total \in Nat /\ limits.ram \in Nat /\ limits.staging \in Nat
        /\ limits.pinned \in Nat
    BY DEF Accounts, Counters, Limits
  <2>2. Staging \in ResourceCategory
    BY DEF ResourceCategory
  <2>3. /\ snap.total \in Int /\ snap.ram \in Int /\ snap.bytes[Staging] \in Int
    BY <1>6, <2>2 DEF SnapState, Snapshot
  <2>. QED
    BY <1>3, <1>8, <2>1, <2>2, <2>3 DEF Accounts, WithinLimits
<1>12. Reservations'
  <2>1. \A t \in Tok : tok[t].live => \A d \in tok[t].blocks : alloc'[d] = alloc[d]
    BY <1>3 DEF Ownership, Objects
  <2>2. ~alloc'[b].backing
    BY <1>3 DEF NoAlloc
  <2>. QED
    BY <1>3, <2>1, <2>2 DEF Accounts, Reservations
<1>. QED
  BY <1>9, <1>10, <1>11, <1>12 DEF Accounts

\* Convert moves the token's blocks into the category asked for.
LEMMA ConvertAccounts ==
  ASSUME Ownership, Accounts, NEW t \in Tok, Convert(t)
  PROVE  Accounts'
<1>0. faults' \in [LedgerStep -> -1..MaxFault]
  <2>1. Attempt("convert")
    BY DEF Convert, Throws
  <2>. QED
    BY <2>1, AttemptType DEF Accounts, Counters, LedgerStep
<1>1. CASE UNCHANGED <<alloc, tok, snap, peak, limits>>
  BY <1>0, <1>1, AccountsSame DEF Accounts, Counters
<1>. DEFINE B == tok[t].blocks
            c == alloc[CHOOSE b \in B : TRUE].category
            d == IF c = Spill THEN Chunk ELSE c
            n == SizeOf(B)
<1>2. CASE /\ tok[t].held /\ ~tok[t].charge
           /\ alloc' = [b \in Blk |-> IF b \in B
                          THEN [alloc[b] EXCEPT !.reserved = FALSE, !.category = d]
                          ELSE alloc[b]]
           /\ snap' = [snap EXCEPT !.reserved[c] = @ - n,
                                   !.bytes = Move(@, c, d, n)]
           /\ tok' = [tok EXCEPT ![t].charge = TRUE]
           /\ peak' = Peaks(peak, snap')
           /\ limits' = limits
  <2>1. Ownership'
    BY ConvertOwnership
  <2>2. alloc \in [Blk -> AllocState] /\ alloc' \in [Blk -> AllocState]
    BY <2>1, AllocType DEF Ownership, Objects, AllocState
  <2>3. tok[t].live /\ B # {} /\ B \in SUBSET Blk
    BY <1>2 DEF Ownership, Handles, Objects
  <2>4. /\ c \in ResourceCategory
        /\ \A b \in B : alloc[b].live /\ alloc[b].category = c /\ alloc[b].reserved = TRUE
    <3>1. (CHOOSE b \in B : TRUE) \in B
      BY <2>3
    <3>2. \A b \in B : alloc[b].reserved
      BY <1>2, <2>3 DEF Accounts, Reservations
    <3>3. \A b \in B : alloc[b].reserved \in BOOLEAN
      BY <2>2, <2>3 DEF AllocState
    <3>4. \A b \in B : alloc[b].live /\ alloc[b].category = c
      BY <2>3, <3>1 DEF Ownership, Handles
    <3>5. c \in ResourceCategory
      BY <2>2, <2>3, <3>1 DEF AllocState
    <3>. QED
      BY <3>2, <3>3, <3>4, <3>5
  <2>. HIDE DEF c
  <2>5. d \in ResourceCategory /\ (c = Staging <=> d = Staging)
    BY <2>4 DEF ResourceCategory
  <2>6. n \in Nat
    BY <2>2, <2>3, AllocSized, SizeOfIs, TotalNat
  <2>. HIDE DEF d, n
  <2>7. /\ \A b \in B : alloc'[b].category = d /\ alloc'[b].reserved = FALSE
        /\ \A b \in Blk : /\ alloc'[b].live = alloc[b].live
                          /\ alloc'[b].pins = alloc[b].pins
                          /\ alloc'[b].bytes = alloc[b].bytes
                          /\ alloc'[b].backing = alloc[b].backing
        /\ \A b \in Blk \ B : alloc'[b] = alloc[b]
    <3>. HIDE DEF B
    <3>1. \A b \in Blk \ B : alloc'[b] = alloc[b]
      BY <1>2
    <3>2. ASSUME NEW b \in B
          PROVE  /\ alloc'[b].category = d /\ alloc'[b].reserved = FALSE
                 /\ alloc'[b].live = alloc[b].live
                 /\ alloc'[b].pins = alloc[b].pins
                 /\ alloc'[b].bytes = alloc[b].bytes
                 /\ alloc'[b].backing = alloc[b].backing
      <4>1. b \in Blk /\ alloc[b] \in AllocState
        BY <2>2, <2>3
      <4>2. alloc'[b] = [alloc[b] EXCEPT !.reserved = FALSE, !.category = d]
        BY <1>2, <4>1
      <4>. QED
        BY <4>1, <4>2 DEF AllocState
    <3>. QED
      BY <3>1, <3>2
  <2>8. snap.bytes \in Snapshot(Int) /\ snap.reserved \in Snapshot(Int)
    BY DEF Accounts, Counters, SnapState
  <2>9. PICK h \in Snapshot(Int), m \in Int : h = snap.bytes /\ m = n
    BY <2>6, <2>8
  <2>10. PICK v \in ResourceCategory, w \in ResourceCategory : v = c /\ w = d
    BY <2>4, <2>5
  <2>11. /\ Move(h, v, w, m) \in Snapshot(Int)
         /\ \A k \in ResourceCategory :
              Move(h, v, w, m)[k] = h[k] - (IF k = v THEN m ELSE 0)
                                         + (IF k = w THEN m ELSE 0)
    BY MoveIs
  <2>12. PICK f : f = Move(h, v, w, m)
    OBVIOUS
  <2>. DEFINE g == [snap.reserved EXCEPT ![c] = @ - n]
  <2>g. /\ g \in Snapshot(Int)
        /\ \A k \in ResourceCategory :
             g[k] = snap.reserved[k] - (IF k = c THEN n ELSE 0)
    BY <2>4, <2>6, <2>8 DEF Snapshot
  <2>13. snap' \in SnapState /\ Counted(snap', alloc') /\ WithinLimits'
    <3>1. PICK r \in BOOLEAN, q \in BOOLEAN : r = TRUE /\ q = FALSE
      OBVIOUS
    <3>2. Regroups(alloc, alloc', B, c, d, r, q)
      BY <2>2, <2>3, <2>4, <2>5, <2>7, <3>1 DEF Regroups
    <3>3. Shifts(snap, f, g, n, c, d, r, q)
      <4>1. \A k \in ResourceCategory :
              f[k] = snap.bytes[k] - (IF k = c THEN n ELSE 0) + (IF k = d THEN n ELSE 0)
        BY <2>9, <2>10, <2>11, <2>12
      <4>2. f \in Snapshot(Int)
        BY <2>11, <2>12
      <4>3. \A k \in ResourceCategory : snap.reserved[k] \in Int
        BY <2>8 DEF Snapshot
      <4>. HIDE DEF g
      <4>. QED
        BY <2>6, <2>g, <3>1, <4>1, <4>2, <4>3 DEF Shifts
    <3>4. snap' = [snap EXCEPT !.bytes = f, !.reserved = g]
      <4>1. snap' = [snap EXCEPT !.reserved = g, !.bytes = f]
        BY <1>2, <2>9, <2>10, <2>12, Zenon
      <4>. QED
        BY <2>8, <4>1 DEF Accounts, Counters, SnapState
    <3>5. n = SizeOf(B)
      BY DEF n
    <3>. HIDE DEF B
    <3>. QED
      BY <1>2, <3>2, <3>3, <3>4, <3>5, GroupAccounts
  <2>14. Counters'
    BY <1>0, <1>2, <2>13, PeaksType DEF Accounts, Counters
  <2>15. Reservations'
    <3>1. \A u \in Tok \ {t} : tok'[u] = tok[u]
      BY <1>2 DEF Ownership, Objects
    <3>2. tok'[t].charge /\ tok'[t].blocks = B
      BY <1>2 DEF Ownership, Objects
    <3>3. \A b \in Blk : alloc'[b].backing => alloc'[b].category # Staging
      BY <2>4, <2>5, <2>7 DEF Accounts, Reservations
    <3>4. \A b \in B : ~alloc'[b].reserved
      BY <2>7
    <3>5. ASSUME NEW u \in Tok \ {t}, tok[u].live, ~tok[u].charge
          PROVE  \A b \in tok[u].blocks : b \notin B
      BY <1>2, <2>3, <3>5 DEF Ownership, Owners, Originals, Assigned, Original, Objects
    <3>6. \A u \in Tok : tok[u].blocks \subseteq Blk
      BY DEF Ownership, Objects
    <3>7. ASSUME NEW u \in Tok \ {t}, tok[u].live
          PROVE  /\ ~tok[u].charge => \A b \in tok[u].blocks : alloc'[b].reserved
                 /\ tok[u].charge => \A b \in tok[u].blocks :
                      alloc'[b].category = Free => ~alloc'[b].reserved
      <4>1. ~tok[u].charge => \A b \in tok[u].blocks : alloc'[b].reserved
        BY <2>7, <3>5, <3>6, <3>7 DEF Accounts, Reservations
      <4>2. ASSUME tok[u].charge, NEW b \in tok[u].blocks, alloc'[b].category = Free
            PROVE  ~alloc'[b].reserved
        <5>1. CASE b \in B
          BY <3>4, <5>1
        <5>2. CASE b \notin B
          BY <2>7, <3>6, <3>7, <4>2, <5>2 DEF Accounts, Reservations
        <5>. QED
          BY <5>1, <5>2
      <4>. QED
        BY <4>1, <4>2
    <3>. HIDE DEF B
    <3>. QED
      BY <3>1, <3>2, <3>3, <3>4, <3>7 DEF Reservations
  <2>. QED
    BY <2>13, <2>14, <2>15 DEF Accounts
<1>. QED
  BY <1>1, <1>2 DEF Convert, Throws

\* ReserveBacking moves free blocks to the category and the reserve.
LEMMA ReserveBackingAccounts ==
  ASSUME Ownership, Accounts, NEW t \in Tok, NEW B \in SUBSET Blk,
         NEW c \in Assignable, ReserveBacking(t, B, c)
  PROVE  Accounts'
<1>0. faults' \in [LedgerStep -> -1..MaxFault]
  <2>1. Attempt("reserve")
    BY DEF ReserveBacking, Throws
  <2>. QED
    BY <2>1, AttemptType DEF Accounts, Counters, LedgerStep
<1>1. CASE UNCHANGED <<alloc, tok, snap, peak, limits>>
  BY <1>0, <1>1, AccountsSame DEF Accounts, Counters
<1>. DEFINE n == SizeOf(B)
<1>2. CASE /\ B \subseteq PoolBlocks /\ AllFree(B)
           /\ alloc' = [b \in Blk |-> IF b \in B
                          THEN [alloc[b] EXCEPT !.category = c, !.reserved = TRUE]
                          ELSE alloc[b]]
           /\ tok' = [tok EXCEPT ![t] =
                [live |-> TRUE, held |-> TRUE, charge |-> FALSE, pooled |-> TRUE,
                 blocks |-> B]]
           /\ snap' = [snap EXCEPT !.bytes = Move(@, Free, c, n),
                                   !.reserved[c] = @ + n]
           /\ peak' = Peaks(peak, snap')
           /\ limits' = limits
  <2>1. Ownership'
    BY ReserveBackingOwnership
  <2>2. alloc \in [Blk -> AllocState] /\ alloc' \in [Blk -> AllocState]
    BY <2>1, AllocType DEF Ownership, Objects, AllocState
  <2>3. /\ c \in ResourceCategory /\ Free \in ResourceCategory
        /\ c # Staging /\ c # Free /\ (Free = Staging <=> c = Staging)
    BY DEF Assignable, ResourceCategory
  <2>4. \A b \in B : alloc[b].live /\ alloc[b].category = Free /\ alloc[b].reserved = FALSE
    <3>. SUFFICES ASSUME NEW b \in B
                  PROVE  alloc[b].live /\ alloc[b].category = Free
                         /\ alloc[b].reserved = FALSE
      OBVIOUS
    <3>1. PICK u \in Tok : tok[u].live /\ tok[u].charge /\ b \in tok[u].blocks
      BY <1>2 DEF PoolBlocks, IsPoolHandle
    <3>2. alloc[b].live /\ alloc[b].category = Free
      BY <1>2, <3>1 DEF AllFree, Ownership, Handles
    <3>3. ~alloc[b].reserved
      BY <3>1, <3>2 DEF Accounts, Reservations
    <3>4. alloc[b].reserved \in BOOLEAN
      BY <2>2 DEF AllocState
    <3>. QED
      BY <3>2, <3>3, <3>4
  <2>6. n \in Nat
    BY <2>2, AllocSized, SizeOfIs, TotalNat
  <2>. HIDE DEF n
  <2>7. /\ \A b \in B : alloc'[b].category = c /\ alloc'[b].reserved = TRUE
        /\ \A b \in Blk : /\ alloc'[b].live = alloc[b].live
                          /\ alloc'[b].pins = alloc[b].pins
                          /\ alloc'[b].bytes = alloc[b].bytes
                          /\ alloc'[b].backing = alloc[b].backing
        /\ \A b \in Blk \ B : alloc'[b] = alloc[b]
    <3>1. \A b \in Blk \ B : alloc'[b] = alloc[b]
      BY <1>2
    <3>2. ASSUME NEW b \in B
          PROVE  /\ alloc'[b].category = c /\ alloc'[b].reserved = TRUE
                 /\ alloc'[b].live = alloc[b].live
                 /\ alloc'[b].pins = alloc[b].pins
                 /\ alloc'[b].bytes = alloc[b].bytes
                 /\ alloc'[b].backing = alloc[b].backing
      <4>1. b \in Blk /\ alloc[b] \in AllocState
        BY <2>2
      <4>2. alloc'[b] = [alloc[b] EXCEPT !.category = c, !.reserved = TRUE]
        BY <1>2, <4>1
      <4>. QED
        BY <4>1, <4>2 DEF AllocState
    <3>. QED
      BY <3>1, <3>2
  <2>8. snap.bytes \in Snapshot(Int) /\ snap.reserved \in Snapshot(Int)
    BY DEF Accounts, Counters, SnapState
  <2>9. PICK h \in Snapshot(Int), m \in Int : h = snap.bytes /\ m = n
    BY <2>6, <2>8
  <2>10. PICK v \in ResourceCategory, w \in ResourceCategory : v = Free /\ w = c
    BY <2>3
  <2>11. /\ Move(h, v, w, m) \in Snapshot(Int)
         /\ \A k \in ResourceCategory :
              Move(h, v, w, m)[k] = h[k] - (IF k = v THEN m ELSE 0)
                                         + (IF k = w THEN m ELSE 0)
    BY MoveIs
  <2>12. PICK f : f = Move(h, v, w, m)
    OBVIOUS
  <2>. DEFINE g == [snap.reserved EXCEPT ![c] = @ + n]
  <2>13. /\ g \in Snapshot(Int)
         /\ \A k \in ResourceCategory :
              g[k] = snap.reserved[k] + (IF k = c THEN n ELSE 0)
    BY <2>3, <2>6, <2>8 DEF Snapshot
  <2>14. snap' \in SnapState /\ Counted(snap', alloc') /\ WithinLimits'
    <3>1. PICK r \in BOOLEAN, q \in BOOLEAN : r = FALSE /\ q = TRUE
      OBVIOUS
    <3>2. Regroups(alloc, alloc', B, v, w, r, q)
      BY <2>2, <2>3, <2>4, <2>7, <2>10, <3>1 DEF Regroups
    <3>3. Shifts(snap, f, g, n, v, w, r, q)
      <4>1. \A k \in ResourceCategory :
              f[k] = snap.bytes[k] - (IF k = v THEN n ELSE 0) + (IF k = w THEN n ELSE 0)
        BY <2>9, <2>11, <2>12
      <4>2. f \in Snapshot(Int)
        BY <2>11, <2>12
      <4>3. \A k \in ResourceCategory : snap.reserved[k] \in Int
        BY <2>8 DEF Snapshot
      <4>. HIDE DEF g
      <4>. QED
        BY <2>6, <2>10, <2>13, <3>1, <4>1, <4>2, <4>3 DEF Shifts
    <3>4. snap' = [snap EXCEPT !.bytes = f, !.reserved = g]
      BY <1>2, <2>9, <2>10, <2>12, Zenon
    <3>5. n = SizeOf(B)
      BY DEF n
    <3>. QED
      BY <1>2, <3>2, <3>3, <3>4, <3>5, GroupAccounts
  <2>15. Counters'
    BY <1>0, <1>2, <2>14, PeaksType DEF Accounts, Counters
  <2>16. Reservations'
    <3>1. \A u \in Tok \ {t} : tok'[u] = tok[u]
      BY <1>2 DEF Ownership, Objects
    <3>2. ~tok'[t].charge /\ tok'[t].blocks = B
      BY <1>2 DEF Ownership, Objects
    <3>3. \A b \in Blk : alloc'[b].backing => alloc'[b].category # Staging
      BY <2>3, <2>7 DEF Accounts, Reservations
    <3>4. \A u \in Tok : tok[u].blocks \subseteq Blk
      BY DEF Ownership, Objects
    <3>5. ASSUME NEW u \in Tok \ {t}, tok[u].live
          PROVE  /\ ~tok[u].charge => \A b \in tok[u].blocks : alloc'[b].reserved
                 /\ tok[u].charge => \A b \in tok[u].blocks :
                      alloc'[b].category = Free => ~alloc'[b].reserved
      BY <2>3, <2>7, <3>4, <3>5 DEF Accounts, Reservations
    <3>. QED
      BY <2>7, <3>1, <3>2, <3>3, <3>5 DEF Reservations
  <2>. QED
    BY <2>14, <2>15, <2>16 DEF Accounts
<1>. QED
  BY <1>1, <1>2 DEF ReserveBacking, Throws

\* ~ChargeToken returns backing blocks to the free pool and lets the others
\* go.
LEMMA DestroyTokenAccounts ==
  ASSUME Ownership, Accounts, NEW t \in Tok, DestroyToken(t)
  PROVE  Accounts'
<1>. DEFINE B == tok[t].blocks
            c == alloc[CHOOSE b \in B : TRUE].category
            e == alloc[CHOOSE b \in B : TRUE].reserved
            n == SizeOf(B)
<1>1. /\ tok[t].live /\ limits' = limits /\ faults' = faults
      /\ tok' = [tok EXCEPT ![t] = NoTok]
  BY DEF DestroyToken, Unreferenced
<1>2. (\A u \in Tok \ {t} : tok'[u] = tok[u]) /\ ~tok'[t].live
  BY <1>1 DEF Ownership, Objects, NoTok
<1>3. CASE UNCHANGED <<alloc, snap, peak>>
  BY <1>1, <1>2, <1>3
     DEF Accounts, Counters, Reservations, Counted, WithinLimits
<1>4. CASE /\ tok[t].pooled
           /\ alloc' = [b \in Blk |-> IF b \in B
                          THEN [alloc[b] EXCEPT !.category = Free, !.reserved = FALSE]
                          ELSE alloc[b]]
           /\ snap' = [snap EXCEPT !.bytes = Move(@, c, Free, n),
                                   !.reserved[c] = IF e THEN @ - n ELSE @]
           /\ peak' = Peaks(peak, snap')
  <2>1. Ownership'
    BY DestroyTokenOwnership
  <2>2. alloc \in [Blk -> AllocState] /\ alloc' \in [Blk -> AllocState]
    BY <2>1, AllocType DEF Ownership, Objects, AllocState
  <2>3. B # {} /\ B \in SUBSET Blk /\ Free \in ResourceCategory
    BY <1>1 DEF Ownership, Handles, Objects, ResourceCategory
  <2>4. /\ c \in ResourceCategory /\ e \in BOOLEAN
        /\ \A b \in B : alloc[b].live /\ alloc[b].category = c /\ alloc[b].reserved = e
    <3>1. (CHOOSE b \in B : TRUE) \in B
      BY <2>3
    <3>2. \A b \in B : alloc[b].live /\ alloc[b].category = c /\ alloc[b].reserved = e
      BY <1>1, <3>1 DEF Ownership, Handles
    <3>3. c \in ResourceCategory /\ e \in BOOLEAN
      BY <2>2, <2>3, <3>1 DEF AllocState
    <3>. QED
      BY <3>2, <3>3
  <2>. HIDE DEF c, e
  <2>5. c # Staging /\ (c = Staging <=> Free = Staging)
    <3>1. PICK b \in B : TRUE
      BY <2>3
    <3>2. alloc[b].backing /\ b \in Blk
      BY <1>1, <1>4, <2>3 DEF Ownership, Owners
    <3>. QED
      BY <2>4, <3>2 DEF Accounts, Reservations
  <2>6. n \in Nat
    BY <2>2, <2>3, AllocSized, SizeOfIs, TotalNat
  <2>. HIDE DEF n
  <2>7. /\ \A b \in B : alloc'[b].category = Free /\ alloc'[b].reserved = FALSE
        /\ \A b \in Blk : /\ alloc'[b].live = alloc[b].live
                          /\ alloc'[b].pins = alloc[b].pins
                          /\ alloc'[b].bytes = alloc[b].bytes
                          /\ alloc'[b].backing = alloc[b].backing
        /\ \A b \in Blk \ B : alloc'[b] = alloc[b]
    <3>. HIDE DEF B
    <3>1. \A b \in Blk \ B : alloc'[b] = alloc[b]
      BY <1>4
    <3>2. ASSUME NEW b \in B
          PROVE  /\ alloc'[b].category = Free /\ alloc'[b].reserved = FALSE
                 /\ alloc'[b].live = alloc[b].live
                 /\ alloc'[b].pins = alloc[b].pins
                 /\ alloc'[b].bytes = alloc[b].bytes
                 /\ alloc'[b].backing = alloc[b].backing
      <4>1. b \in Blk /\ alloc[b] \in AllocState
        BY <2>2, <2>3
      <4>2. alloc'[b] = [alloc[b] EXCEPT !.category = Free, !.reserved = FALSE]
        BY <1>4, <4>1
      <4>. QED
        BY <4>1, <4>2 DEF AllocState
    <3>. QED
      BY <3>1, <3>2
  <2>8. snap.bytes \in Snapshot(Int) /\ snap.reserved \in Snapshot(Int)
    BY DEF Accounts, Counters, SnapState
  <2>9. PICK h \in Snapshot(Int), m \in Int : h = snap.bytes /\ m = n
    BY <2>6, <2>8
  <2>10. PICK v \in ResourceCategory, w \in ResourceCategory : v = c /\ w = Free
    BY <2>3, <2>4
  <2>11. /\ Move(h, v, w, m) \in Snapshot(Int)
         /\ \A k \in ResourceCategory :
              Move(h, v, w, m)[k] = h[k] - (IF k = v THEN m ELSE 0)
                                         + (IF k = w THEN m ELSE 0)
    BY MoveIs
  <2>12. PICK f : f = Move(h, v, w, m)
    OBVIOUS
  <2>. DEFINE g == [snap.reserved EXCEPT ![c] = IF e THEN @ - n ELSE @]
  <2>13. /\ g \in Snapshot(Int)
         /\ \A k \in ResourceCategory :
              g[k] = snap.reserved[k] - (IF k = c /\ e THEN n ELSE 0)
    BY <2>4, <2>6, <2>8 DEF Snapshot
  <2>14. snap' \in SnapState /\ Counted(snap', alloc') /\ WithinLimits'
    <3>1. PICK r \in BOOLEAN, q \in BOOLEAN : r = e /\ q = FALSE
      BY <2>4
    <3>2. Regroups(alloc, alloc', B, v, w, r, q)
      BY <2>2, <2>3, <2>4, <2>5, <2>7, <2>10, <3>1 DEF Regroups
    <3>3. Shifts(snap, f, g, n, v, w, r, q)
      <4>1. \A k \in ResourceCategory :
              f[k] = snap.bytes[k] - (IF k = v THEN n ELSE 0) + (IF k = w THEN n ELSE 0)
        BY <2>9, <2>11, <2>12
      <4>2. f \in Snapshot(Int)
        BY <2>11, <2>12
      <4>3. \A k \in ResourceCategory : snap.reserved[k] \in Int
        BY <2>8 DEF Snapshot
      <4>. HIDE DEF g
      <4>4. r <=> e
        BY <3>1
      <4>5. \A k \in ResourceCategory :
              g[k] = snap.reserved[k] - (IF k = v /\ r THEN n ELSE 0) + 0
        <5>1. CASE e
          BY <2>6, <2>10, <2>13, <4>3, <4>4, <5>1
        <5>2. CASE ~e
          BY <2>6, <2>10, <2>13, <4>3, <4>4, <5>2
        <5>. QED
          BY <5>1, <5>2
      <4>6. \A k \in ResourceCategory :
              g[k] = snap.reserved[k] - (IF k = v /\ r THEN n ELSE 0)
                                      + (IF k = w /\ q THEN n ELSE 0)
        BY <3>1, <4>5
      <4>7. g \in Snapshot(Int)
        BY <2>13
      <4>. QED
        BY <4>1, <4>2, <4>6, <4>7 DEF Shifts
    <3>4. snap' = [snap EXCEPT !.bytes = f, !.reserved = g]
      BY <1>4, <2>9, <2>10, <2>12, Zenon
    <3>5. n = SizeOf(B)
      BY DEF n
    <3>. HIDE DEF B
    <3>. QED
      BY <1>1, <3>2, <3>3, <3>4, <3>5, GroupAccounts
  <2>15. Counters'
    BY <1>1, <1>4, <2>14, PeaksType DEF Accounts, Counters
  <2>16. Reservations'
    <3>1. \A b \in Blk : alloc'[b].backing => alloc'[b].category # Staging
      BY <2>7 DEF Accounts, Reservations
    <3>2. \A u \in Tok : tok[u].blocks \subseteq Blk
      BY DEF Ownership, Objects
    <3>3. ASSUME NEW u \in Tok \ {t}, tok[u].live, ~tok[u].charge
          PROVE  \A b \in tok[u].blocks : b \notin B
      BY <1>1, <1>4, <2>3, <3>3
         DEF Ownership, Owners, Originals, Assigned, Original, Objects
    <3>4. ASSUME NEW u \in Tok \ {t}, tok[u].live
          PROVE  /\ ~tok[u].charge => \A b \in tok[u].blocks : alloc'[b].reserved
                 /\ tok[u].charge => \A b \in tok[u].blocks :
                      alloc'[b].category = Free => ~alloc'[b].reserved
      <4>1. ~tok[u].charge => \A b \in tok[u].blocks : alloc'[b].reserved
        BY <2>7, <3>2, <3>3, <3>4 DEF Accounts, Reservations
      <4>2. ASSUME tok[u].charge, NEW b \in tok[u].blocks, alloc'[b].category = Free
            PROVE  ~alloc'[b].reserved
        <5>1. CASE b \in B
          BY <2>7, <5>1
        <5>2. CASE b \notin B
          BY <2>7, <3>2, <3>4, <4>2, <5>2 DEF Accounts, Reservations
        <5>. QED
          BY <5>1, <5>2
      <4>. QED
        BY <4>1, <4>2
    <3>. HIDE DEF B
    <3>. QED
      BY <1>2, <3>1, <3>4 DEF Reservations
  <2>. QED
    BY <2>14, <2>15, <2>16 DEF Accounts
<1>. QED
  BY <1>3, <1>4 DEF DestroyToken

\* Pins change how often a block is counted as pinned and no other class.
LEMMA PinClasses ==
  ASSUME NEW a \in [Blk -> AllocState], NEW z \in [Blk -> AllocState],
         \A b \in Blk : /\ z[b].live = a[b].live /\ z[b].category = a[b].category
                        /\ z[b].reserved = a[b].reserved
                        /\ z[b].bytes = a[b].bytes,
         NEW s \in SnapState, Counted(s, a), NEW x \in SnapState,
         x.bytes = s.bytes, x.reserved = s.reserved, x.total = s.total,
         x.ram = s.ram, x.pinned = Total(z, InPins(z))
  PROVE  Counted(x, z)
<1>1. Sized(a) /\ Sized(z)
  BY AllocSized
<1>2. ASSUME NEW k \in ResourceCategory
      PROVE  /\ InCategory(z, k) = InCategory(a, k)
             /\ InReserve(z, k) = InReserve(a, k)
  BY DEF InCategory, InReserve
<1>3. InUse(z) = InUse(a) /\ InRam(z) = InRam(a)
  BY DEF InUse, InRam
<1>4. \A S \in SUBSET Blk : Total(z, S) = Total(a, S)
  BY <1>1, TotalSame
<1>5. ASSUME NEW k \in ResourceCategory
      PROVE  /\ Total(z, InCategory(z, k)) = Total(a, InCategory(a, k))
             /\ Total(z, InReserve(z, k)) = Total(a, InReserve(a, k))
  <2>1. /\ Total(z, InCategory(a, k)) = Total(a, InCategory(a, k))
        /\ Total(z, InReserve(a, k)) = Total(a, InReserve(a, k))
    BY <1>4, ClassesIn
  <2>. QED
    BY <1>2, <2>1, Zenon
<1>6. /\ Total(z, InUse(z)) = Total(a, InUse(a))
      /\ Total(z, InRam(z)) = Total(a, InRam(a))
  <2>1. /\ Total(z, InUse(a)) = Total(a, InUse(a))
        /\ Total(z, InRam(a)) = Total(a, InRam(a))
    BY <1>4, ClassesIn
  <2>. QED
    BY <1>3, <2>1, Zenon
<1>. QED
  BY <1>5, <1>6 DEF Counted

\* Pin counts the blocks nobody pinned before.
LEMMA PinAccounts ==
  ASSUME Ownership, Accounts, NEW p \in PinId, NEW t \in Tok, Pin(p, t)
  PROVE  Accounts'
<1>0. faults' \in [LedgerStep -> -1..MaxFault]
  <2>1. Attempt("pin")
    BY DEF Pin, Throws
  <2>. QED
    BY <2>1, AttemptType DEF Accounts, Counters, LedgerStep
<1>1. CASE UNCHANGED <<alloc, tok, snap, peak, limits>>
  BY <1>0, <1>1, AccountsSame DEF Accounts, Counters
<1>2. CASE /\ tok[t].held
           /\ NewlyPinned(t) <= limits.pinned - snap.pinned
           /\ snap' = [snap EXCEPT !.pinned = @ + NewlyPinned(t)]
           /\ alloc' = [b \in Blk |-> IF b \in tok[t].blocks
                          THEN [alloc[b] EXCEPT !.pins = @ + 1] ELSE alloc[b]]
           /\ peak' = Peaks(peak, snap')
           /\ tok' = tok /\ limits' = limits
  <2>1. Ownership'
    BY PinOwnership
  <2>2. PICK a \in [Blk -> AllocState], z \in [Blk -> AllocState] :
          a = alloc /\ z = alloc'
    BY <2>1 DEF Ownership, Objects, AllocState
  <2>3. PICK s \in SnapState : s = snap
    BY DEF Accounts, Counters
  <2>4. PICK B \in SUBSET Blk : B = tok[t].blocks
    BY DEF Ownership, Objects
  <2>5. \A b \in B : a[b].live
    BY <1>2, <2>2, <2>4 DEF Ownership, Handles
  <2>6. \A b \in Blk : /\ z[b].live = a[b].live /\ z[b].category = a[b].category
                       /\ z[b].reserved = a[b].reserved /\ z[b].bytes = a[b].bytes
                       /\ z[b].backing = a[b].backing
                       /\ z[b].pins = IF b \in B THEN a[b].pins + 1 ELSE a[b].pins
    BY <1>2, <2>2, <2>4 DEF AllocState
  <2>7. \A b \in Blk : a[b].pins \in Nat
    BY DEF AllocState
  <2>. DEFINE N == {b \in B : a[b].pins = 0}
  <2>8. Sized(a) /\ Sized(z)
    BY AllocSized
  <2>9. NewlyPinned(t) = Total(a, N)
    BY <2>2, <2>4, SizeOfIs DEF NewlyPinned
  <2>10. N \in SUBSET Blk /\ N \cap InPins(a) = {} /\ InPins(z) = InPins(a) \cup N
         /\ InPins(a) \in SUBSET Blk
    BY <2>5, <2>6, <2>7 DEF InPins
  <2>. HIDE DEF N
  <2>11. /\ Total(z, InPins(a) \cup N) = Total(a, InPins(a)) + Total(z, N)
         /\ Total(z, N) = Total(a, N) /\ Total(a, N) \in Nat
    BY <2>6, <2>8, <2>10, TotalIn, TotalSame, TotalNat
  <2>12. Total(z, InPins(z)) = Total(z, InPins(a) \cup N)
    BY <2>10, Zenon
  <2>13. PICK x \in SnapState : x = [s EXCEPT !.pinned = @ + Total(a, N)]
    <3>1. PICK m \in Int : m = s.pinned + Total(a, N)
      BY <2>11 DEF SnapState
    <3>2. [s EXCEPT !.pinned = m] \in SnapState
      BY DEF SnapState
    <3>. QED
      BY <3>1, <3>2, Zenon
  <2>14. /\ x.bytes = s.bytes /\ x.reserved = s.reserved /\ x.total = s.total
         /\ x.ram = s.ram /\ x.pinned = s.pinned + Total(a, N)
    BY <2>13 DEF SnapState
  <2>15. snap' = x
    BY <1>2, <2>3, <2>9, <2>13
  <2>16. Counted(s, a)
    BY <2>2, <2>3 DEF Accounts
  <2>17. x.pinned = Total(z, InPins(z))
    BY <2>11, <2>12, <2>14, <2>16 DEF Counted
  <2>18. Counted(x, z)
    BY <2>6, <2>14, <2>16, <2>17, PinClasses
  <2>19. WithinLimits'
    <3>1. s.pinned \in Int /\ limits.pinned \in Nat
      BY DEF Accounts, Counters, Limits, SnapState
    <3>. QED
      BY <1>2, <2>3, <2>9, <2>11, <2>14, <2>15, <3>1 DEF Accounts, WithinLimits
  <2>20. Counters'
    BY <1>0, <1>2, <2>15, PeaksType DEF Accounts, Counters
  <2>21. Reservations'
    <3>1. \A b \in Blk : /\ alloc'[b].category = alloc[b].category
                         /\ alloc'[b].reserved = alloc[b].reserved
                         /\ alloc'[b].backing = alloc[b].backing
      BY <2>2, <2>6
    <3>2. \A u \in Tok : tok[u].blocks \subseteq Blk
      BY DEF Ownership, Objects
    <3>. QED
      BY <1>2, <3>1, <3>2 DEF Accounts, Reservations
  <2>22. Counted(snap', alloc')
    BY <2>2, <2>15, <2>18
  <2>. QED
    BY <2>19, <2>20, <2>21, <2>22 DEF Accounts
<1>. QED
  BY <1>1, <1>2 DEF Pin, Throws

\* ~Pin uncounts the blocks nobody else pins.
LEMMA DestroyPinAccounts ==
  ASSUME Ownership, Accounts, NEW p \in PinId, DestroyPin(p)
  PROVE  Accounts'
<1>1. PICK t \in Tok : pin[p] = {t}
  BY DEF DestroyPin, Ownership, Objects
<1>2. (CHOOSE u \in Tok : pin[p] = {u}) = t
  BY <1>1
<1>3. /\ alloc' = [b \in Blk |-> IF b \in tok[t].blocks
                     THEN [alloc[b] EXCEPT !.pins = @ - 1] ELSE alloc[b]]
      /\ snap' = [snap EXCEPT !.pinned =
                    @ - SizeOf({b \in tok[t].blocks : alloc[b].pins = 1})]
      /\ UNCHANGED <<tok, peak, limits, faults>>
  BY <1>2 DEF DestroyPin
<1>4. tok[t].live
  BY <1>1 DEF Ownership, Pins
<1>5. Ownership'
  BY DestroyPinOwnership
<1>6. PICK a \in [Blk -> AllocState], z \in [Blk -> AllocState] :
        a = alloc /\ z = alloc'
  BY <1>5 DEF Ownership, Objects, AllocState
<1>7. PICK s \in SnapState : s = snap
  BY DEF Accounts, Counters
<1>8. PICK B \in SUBSET Blk : B = tok[t].blocks
  BY DEF Ownership, Objects
<1>9. \A b \in B : a[b].live
  BY <1>4, <1>6, <1>8 DEF Ownership, Handles
<1>10. \A b \in B : a[b].pins \in Nat \ {0}
  <2>. SUFFICES ASSUME NEW b \in B PROVE alloc[b].pins \in Nat \ {0}
    BY <1>6
  <2>1. p \in PinsOn(b)
    BY <1>1, <1>4, <1>8 DEF PinsOn
  <2>2. Cardinality(PinsOn(b)) # 0
    BY <2>1, PinsOnFinite, FS_EmptySet
  <2>3. Cardinality(PinsOn(b)) \in Nat
    BY PinsOnFinite
  <2>. QED
    BY <2>2, <2>3 DEF Ownership, Pins
<1>11. \A b \in Blk : /\ z[b].live = a[b].live /\ z[b].category = a[b].category
                      /\ z[b].reserved = a[b].reserved /\ z[b].bytes = a[b].bytes
                      /\ z[b].backing = a[b].backing
                      /\ z[b].pins = IF b \in B THEN a[b].pins - 1 ELSE a[b].pins
  BY <1>3, <1>6, <1>8 DEF AllocState
<1>12. \A b \in Blk : a[b].pins \in Nat
  BY DEF AllocState
<1>. DEFINE N == {b \in B : a[b].pins = 1}
<1>13. Sized(a) /\ Sized(z)
  BY AllocSized
<1>14. SizeOf({b \in tok[t].blocks : alloc[b].pins = 1}) = Total(a, N)
  BY <1>6, <1>8, SizeOfIs
<1>15. N \in SUBSET InPins(a) /\ InPins(z) = InPins(a) \ N
       /\ InPins(a) \in SUBSET Blk /\ N \in SUBSET Blk
  BY <1>9, <1>10, <1>11, <1>12 DEF InPins
<1>. HIDE DEF N
<1>16. /\ Total(z, InPins(a) \ N) = Total(a, InPins(a)) - Total(a, N)
       /\ Total(a, N) \in Nat
  BY <1>11, <1>13, <1>15, TotalOut, TotalNat
<1>17. Total(z, InPins(z)) = Total(z, InPins(a) \ N)
  BY <1>15, Zenon
<1>18. PICK x \in SnapState : x = [s EXCEPT !.pinned = @ - Total(a, N)]
  <2>1. PICK m \in Int : m = s.pinned - Total(a, N)
    BY <1>16 DEF SnapState
  <2>2. [s EXCEPT !.pinned = m] \in SnapState
    BY DEF SnapState
  <2>. QED
    BY <2>1, <2>2, Zenon
<1>19. /\ x.bytes = s.bytes /\ x.reserved = s.reserved /\ x.total = s.total
       /\ x.ram = s.ram /\ x.pinned = s.pinned - Total(a, N)
  BY <1>18 DEF SnapState
<1>20. snap' = x
  BY <1>3, <1>7, <1>14, <1>18
<1>21. Counted(s, a)
  BY <1>6, <1>7 DEF Accounts
<1>22. x.pinned = Total(z, InPins(z))
  BY <1>16, <1>17, <1>19, <1>21 DEF Counted
<1>23. Counted(x, z)
  BY <1>11, <1>19, <1>21, <1>22, PinClasses
<1>24. WithinLimits'
  <2>1. s.pinned \in Int /\ limits.pinned \in Nat
    BY DEF Accounts, Counters, Limits, SnapState
  <2>2. x.pinned <= s.pinned
    BY <1>16, <1>19, <2>1
  <2>3. x.pinned \in Int
    BY DEF SnapState
  <2>4. s.pinned <= limits.pinned
    BY <1>7 DEF Accounts, WithinLimits
  <2>5. x.pinned <= limits.pinned
    BY <2>1, <2>2, <2>3, <2>4
  <2>. QED
    BY <1>3, <1>7, <1>19, <1>20, <2>5 DEF Accounts, WithinLimits
<1>25. Counters'
  BY <1>3, <1>20 DEF Accounts, Counters
<1>26. Reservations'
  <2>1. \A b \in Blk : /\ alloc'[b].category = alloc[b].category
                       /\ alloc'[b].reserved = alloc[b].reserved
                       /\ alloc'[b].backing = alloc[b].backing
    BY <1>6, <1>11
  <2>2. \A u \in Tok : tok[u].blocks \subseteq Blk
    BY DEF Ownership, Objects
  <2>. QED
    BY <1>3, <2>1, <2>2 DEF Accounts, Reservations
<1>27. Counted(snap', alloc')
  BY <1>6, <1>20, <1>23
<1>. QED
  BY <1>24, <1>25, <1>26, <1>27 DEF Accounts

\* Dropping a handle moves no byte.
LEMMA DropHandleAccounts ==
  ASSUME Ownership, Accounts, NEW t \in Tok, DropHandle(t)
  PROVE  Accounts'
<1>1. \A u \in Tok : /\ tok'[u].live = tok[u].live /\ tok'[u].charge = tok[u].charge
                     /\ tok'[u].blocks = tok[u].blocks
  BY DEF DropHandle, Ownership, Objects
<1>2. UNCHANGED <<alloc, snap, peak, limits, faults>>
  BY DEF DropHandle
<1>3. Reservations'
  BY <1>1, <1>2 DEF Accounts, Reservations
<1>. QED
  BY <1>2, <1>3 DEF Accounts, Counters, Counted, WithinLimits

\* Limits, peaks and injected faults move no byte, and a limit may not fall
\* below its counter.
LEMMA AdministrationAccounts ==
  ASSUME Accounts,
         \/ \E l \in LaterLimits : ConstrainLimits(l)
         \/ SnapshotAndResetPeaks
         \/ \E s \in FaultSteps, n \in 0..MaxFault : FailAfter(s, n)
         \/ ClearFaults
         \/ UNCHANGED vars
  PROVE  Accounts'
<1>1. ASSUME NEW l \in LaterLimits, ConstrainLimits(l) PROVE Accounts'
  BY <1>1, LedgerAssumption
     DEF ConstrainLimits, Accounts, Counters, Reservations, Counted, WithinLimits
<1>2. CASE SnapshotAndResetPeaks
  <2>1. peak' \in PeakState
    BY <1>2, LedgerAssumption
       DEF SnapshotAndResetPeaks, Accounts, Counters, PeakState, SnapState, Snapshot
  <2>. QED
    BY <1>2, <2>1, AccountsSame DEF SnapshotAndResetPeaks, Accounts, Counters
<1>3. ASSUME NEW s \in FaultSteps, NEW n \in 0..MaxFault, FailAfter(s, n)
      PROVE  Accounts'
  <2>1. faults' \in [LedgerStep -> -1..MaxFault]
    <3>1. n \in -1..MaxFault /\ s \in LedgerStep
      BY LedgerAssumption
    <3>. QED
      BY <1>3, <3>1 DEF FailAfter, Accounts, Counters
  <2>. QED
    BY <1>3, <2>1, AccountsSame DEF FailAfter, Accounts, Counters
<1>4. CASE ClearFaults
  <2>1. faults' \in [LedgerStep -> -1..MaxFault]
    <3>1. -1 \in -1..MaxFault
      BY LedgerAssumption
    <3>. QED
      BY <1>4, <3>1 DEF ClearFaults
  <2>. QED
    BY <1>4, <2>1, AccountsSame DEF ClearFaults, Accounts, Counters
<1>5. CASE UNCHANGED vars
  BY <1>5, AccountsSame DEF vars, Accounts, Counters
<1>. QED
  BY <1>1, <1>2, <1>3, <1>4, <1>5

-----------------------------------------------------------------------------
(* Theorems *)

\* An empty ledger, or the configured backing as one free block each,
\* balances.
LEMMA BalanceInit == Init => Balance
<1>. SUFFICES ASSUME Init PROVE Balance
  OBVIOUS
<1>1. Ownership
  BY OwnershipInit
<1>2. snap \in SnapState
  BY DEF Init, SnapState, Snapshot
<1>3. peak \in PeakState
  BY DEF Init, PeakState
<1>4. faults \in [LedgerStep -> -1..MaxFault]
  <2>1. -1 \in -1..MaxFault
    BY LedgerAssumption
  <2>. QED
    BY <2>1 DEF Init
<1>5. Counters
  BY <1>2, <1>3, <1>4, LedgerAssumption DEF Counters, Init
<1>6. Reservations
  BY DEF Init, Reservations, NoAlloc, NoTok
<1>7. Sized(alloc)
  BY <1>1, AllocType, AllocSized
<1>8. ASSUME NEW c \in ResourceCategory
      PROVE  /\ Total(alloc, InCategory(alloc, c)) = 0
             /\ Total(alloc, InReserve(alloc, c)) = 0
  <2>1. InCategory(alloc, c) = {} /\ InReserve(alloc, c) = {}
    BY DEF Init, NoAlloc, InCategory, InReserve
  <2>2. Total(alloc, {}) = 0
    BY <1>7, TotalEmpty
  <2>. QED
    BY <2>1, <2>2, Zenon
<1>9. /\ Total(alloc, InUse(alloc)) = 0 /\ Total(alloc, InRam(alloc)) = 0
      /\ Total(alloc, InPins(alloc)) = 0
  <2>1. InUse(alloc) = {} /\ InRam(alloc) = {} /\ InPins(alloc) = {}
    BY DEF Init, NoAlloc, InUse, InRam, InPins
  <2>2. Total(alloc, {}) = 0
    BY <1>7, TotalEmpty
  <2>. QED
    BY <2>1, <2>2, Zenon
<1>10. /\ \A c \in ResourceCategory : snap.bytes[c] = 0 /\ snap.reserved[c] = 0
       /\ snap.total = 0 /\ snap.ram = 0 /\ snap.pinned = 0
  BY DEF Init
<1>11. Counted(snap, alloc)
  BY <1>8, <1>9, <1>10 DEF Counted
<1>12. WithinLimits
  <2>1. Staging \in ResourceCategory
    BY DEF ResourceCategory
  <2>2. /\ limits.total \in Nat /\ limits.ram \in Nat /\ limits.staging \in Nat
        /\ limits.pinned \in Nat
    BY LedgerAssumption DEF Init, Limits
  <2>. QED
    BY <1>10, <2>1, <2>2 DEF WithinLimits
<1>. QED
  BY <1>1, <1>5, <1>6, <1>11, <1>12 DEF Balance, Accounts

\* Every step keeps the balance.
LEMMA BalanceStep == Balance /\ [Next]_vars => Balance'
<1>. SUFFICES ASSUME Ownership, Accounts, [Next]_vars PROVE Ownership' /\ Accounts'
  BY DEF Balance
<1>0. Ownership'
  BY OwnershipStep
<1>1. ASSUME NEW t \in Tok, NEW b \in Blk, NEW c \in ResourceCategory, NEW n \in Sizes,
             Reserve(t, b, c, n)
      PROVE  Accounts'
  BY <1>1, ReserveAccounts
<1>2. ASSUME NEW t \in Tok, Convert(t) PROVE Accounts'
  BY <1>2, ConvertAccounts
<1>3. ASSUME NEW t \in Tok, NEW B \in SUBSET Blk, NEW c \in Assignable,
             ReserveBacking(t, B, c)
      PROVE  Accounts'
  BY <1>3, ReserveBackingAccounts
<1>4. ASSUME NEW p \in PinId, NEW t \in Tok, Pin(p, t) PROVE Accounts'
  BY <1>4, PinAccounts
<1>5. ASSUME Drop PROVE Accounts'
  <2>1. ASSUME NEW t \in Tok, DropHandle(t) PROVE Accounts'
    BY <2>1, DropHandleAccounts
  <2>2. ASSUME NEW p \in PinId, DestroyPin(p) PROVE Accounts'
    BY <2>2, DestroyPinAccounts
  <2>. QED
    BY <1>5, <2>1, <2>2 DEF Drop
<1>6. ASSUME Release PROVE Accounts'
  <2>1. ASSUME NEW t \in Tok, DestroyToken(t) PROVE Accounts'
    BY <2>1, DestroyTokenAccounts
  <2>2. ASSUME NEW b \in Blk, DestroyAllocation(b) PROVE Accounts'
    BY <2>2, DestroyAllocationAccounts
  <2>. QED
    BY <1>6, <2>1, <2>2 DEF Release
<1>. QED
  BY <1>0, <1>1, <1>2, <1>3, <1>4, <1>5, <1>6, AdministrationAccounts DEF Next

\* Balance holds in every reachable state of the ledger.
THEOREM BalanceInvariant == Spec => []Balance
<1>1. Init => Balance
  BY BalanceInit
<1>2. Balance /\ [Next]_vars => Balance'
  BY BalanceStep
<1>. QED
  BY <1>1, <1>2, PTL DEF Spec

\* The snapshot is exactly the bytes of the objects alive, by category, state and
\* pin, at every point of the destructor chain (LedgerState::snapshot).
THEOREM CountersAreExact == Spec => []Conservation
<1>1. Balance => Conservation
  <2>. SUFFICES ASSUME Balance PROVE Conservation
    OBVIOUS
  <2>1. TypeOK
    BY DEF Balance, Ownership, Objects, Accounts, Counters, SnapState, PeakState, TypeOK
  <2>2. ASSUME NEW c \in ResourceCategory
        PROVE  /\ snap.bytes[c] = SizeOf({b \in LiveBlocks : alloc[b].category = c})
               /\ snap.reserved[c] =
                    SizeOf({b \in LiveBlocks : alloc[b].category = c /\ alloc[b].reserved})
    <3>1. /\ InCategory(alloc, c) = {b \in LiveBlocks : alloc[b].category = c}
          /\ InReserve(alloc, c)
               = {b \in LiveBlocks : alloc[b].category = c /\ alloc[b].reserved}
      BY DEF InCategory, InReserve, LiveBlocks
    <3>2. /\ snap.bytes[c] = SizeOf(InCategory(alloc, c))
          /\ snap.reserved[c] = SizeOf(InReserve(alloc, c))
      BY SizeOfIs DEF Balance, Accounts, Counted
    <3>. QED
      BY <3>1, <3>2, Zenon
  <2>3. /\ snap.total = SizeOf(LiveBlocks)
        /\ snap.ram = SizeOf({b \in LiveBlocks : alloc[b].category # Staging})
        /\ snap.pinned = SizeOf({b \in LiveBlocks : alloc[b].pins > 0})
    <3>1. /\ InUse(alloc) = LiveBlocks
          /\ InRam(alloc) = {b \in LiveBlocks : alloc[b].category # Staging}
          /\ InPins(alloc) = {b \in LiveBlocks : alloc[b].pins > 0}
      BY DEF InUse, InRam, InPins, LiveBlocks
    <3>2. /\ snap.total = SizeOf(InUse(alloc))
          /\ snap.ram = SizeOf(InRam(alloc))
          /\ snap.pinned = SizeOf(InPins(alloc))
      BY SizeOfIs DEF Balance, Accounts, Counted
    <3>. QED
      BY <3>1, <3>2, Zenon
  <2>. QED
    BY <2>1, <2>2, <2>3 DEF Conservation
<1>. QED
  BY <1>1, BalanceInvariant, PTL

\* No counter passes its limit, so limit - counter in Reserve and Pin never wraps.
THEOREM LimitsAreKept == Spec => []WithinLimits
<1>1. Balance => WithinLimits
  BY DEF Balance, Accounts
<1>. QED
  BY <1>1, BalanceInvariant, PTL

\* When every handle and pin is gone and no destructor is left to run, no block is
\* alive and no byte is counted.
THEOREM LedgerEmpties == Spec => []LedgerDrains
<1>1. Balance => LedgerDrains
  <2>. SUFFICES ASSUME Balance,
                       \A t \in Tok : ~tok[t].held /\ ~Unreferenced(t),
                       \A p \in PinId : pin[p] = NoPin,
                       \A b \in Blk : ~Orphaned(b)
                PROVE  snap.total = 0 /\ LiveBlocks = {}
    BY DEF LedgerDrains
  <2>1. \A t \in Tok : ~tok[t].live
    <3>1. \A t \in Tok : PinsOf(t) = {}
      BY DEF PinsOf, NoPin
    <3>. QED
      BY <3>1 DEF Unreferenced
  <2>2. \A b \in Blk : ~alloc[b].live
    BY <2>1 DEF Orphaned
  <2>3. LiveBlocks = {} /\ InUse(alloc) = {}
    BY <2>2 DEF LiveBlocks, InUse
  <2>4. Total(alloc, {}) = 0
    BY AllocType, AllocSized, TotalEmpty DEF Balance
  <2>5. Total(alloc, InUse(alloc)) = 0
    BY <2>3, <2>4, Zenon
  <2>. QED
    BY <2>3, <2>5 DEF Balance, Accounts, Counted
<1>. QED
  BY <1>1, BalanceInvariant, PTL

=============================================================================
