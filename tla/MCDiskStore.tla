----------------------------- MODULE MCDiskStore -----------------------------
(* Small instances of DiskStore for TLC. *)
EXTENDS DiskStore

CONSTANTS m1, m2, m3, c1, p1

\* all manifests share the chunk c1 and m1 owns the private file p1.  m3
\* declares the same checkpoint as m1: another process, with another nonce,
\* names the files of a checkpoint differently.
SharedDeps == [m \in Manifest |-> IF m = m1 THEN {c1, p1} ELSE {c1}]
Ids        == [m \in Manifest |-> IF m = m2 THEN 2 ELSE 1]
Lengths    == [n \in Name |-> IF n = p1 THEN 2 ELSE 1]
=============================================================================
