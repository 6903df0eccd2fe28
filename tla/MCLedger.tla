------------------------------ MODULE MCLedger ------------------------------
(* Small instances of Ledger for TLC. *)
EXTENDS Ledger, TLC

\* Two blocks of one or two bytes against limits that admit a pool block next
\* to one other charge, so that every limit is reached.
SmallLimits == [total |-> 4, ram |-> 3, staging |-> 2, pinned |-> 2]
TightLimits == [total |-> 3, ram |-> 3, staging |-> 0, pinned |-> 1]
Lowered     == {TightLimits}

\* The peaks record the past and no guard reads them: states that differ only
\* in them have the same future.
WithoutPeaks == <<alloc, tok, pin, snap, limits, faults>>

Symmetric == Permutations(Blk) \cup Permutations(Tok) \cup Permutations(PinId)
=============================================================================
