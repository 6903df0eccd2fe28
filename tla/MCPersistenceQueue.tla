-------------------------- MODULE MCPersistenceQueue --------------------------
(* Small instances of PersistenceQueue: a conversation with boundaries a, b and
   c (each extends the ones before it) and a checkpoint d of another one. *)
EXTENDS PersistenceQueue, TLC

MCSize == [j \in Job |-> IF j = "d" THEN 2 ELSE 1]
MCPrior == [j \in Job |-> CASE j \in {"a", "d"} -> {}
                             [] j = "b" -> {"a"} \cap Job
                             [] j = "c" -> {"a", "b"} \cap Job]
MCPayload == [j \in Job |-> IF j = "d" THEN 5 ELSE 1]
MCManifest == [j \in Job |-> 1]
MCSymmetry == Permutations(Submitter)
============================================================================
