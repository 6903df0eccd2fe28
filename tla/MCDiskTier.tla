----------------------------- MODULE MCDiskTier -----------------------------
(* Small instances of DiskTier: a checkpoint 1 and its continuation 2, which
   shares the chunk "f" and has a private payload of its own.  The budget holds
   both, but not together with an orphan. *)
EXTENDS DiskTier

MCDeps == [c \in Ckpt |-> IF c = 1 THEN {"f", "g"} ELSE {"f", "h"}]
=============================================================================
