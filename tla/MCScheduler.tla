---------------------------- MODULE MCScheduler ----------------------------
(* Small instances of the text generation scheduler.                       *)
EXTENDS Scheduler

CONSTANTS r1, r2

MCReq == {r1, r2}
MCClients == [r \in MCReq |-> "client"]
MCPrompt == (r1 :> 2 @@ r2 :> 1)
MCCommon == [r \in MCReq |-> [x \in MCReq |-> 1]]
MCTwo == [r \in MCReq |-> 2]
MCOne == [r \in MCReq |-> 1]
MCEos == {(r1 :> 3 @@ r2 :> 2)}

(* The capabilities of the backends: plain decoding, batched multi-token   *)
(* decoding, and the two-host runner that batches single tokens only.      *)
Plain == [capacity |-> 2, multi |-> FALSE, batched |-> FALSE, final |-> TRUE,
          width |-> 2, filtered |-> {}, output |-> 2, stall |-> 1,
          commit |-> [r \in MCReq |-> "done"]]
TwoHost == [Plain EXCEPT !.multi = TRUE, !.final = FALSE]
Speculative == [TwoHost EXCEPT !.batched = TRUE, !.filtered = {r1}]
Filtering == [Plain EXCEPT !.filtered = MCReq]

(* The first request outgrows max_output_bytes, the second's Commit fails. *)
Failing == [Plain EXCEPT !.output = 1,
                         !.commit = [r \in MCReq |-> IF r = r2 THEN "error" ELSE "done"]]

MCModes == {Plain, Speculative, TwoHost, Failing}
MCPlain == {Plain, [Plain EXCEPT !.capacity = 1]}
MCMonitored == MCPlain \cup {[Plain EXCEPT !.stall = 0]}
MCFiltering == {Filtering}
=============================================================================
