---------------------------- MODULE MCSlotLease ----------------------------
(* Small instances of SlotLease for TLC. *)
EXTENDS SlotLease, TLC

Symmetric == Permutations(Row) \cup Permutations(Reader)
=============================================================================
