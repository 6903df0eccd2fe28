--------------------------- MODULE CheckpointStore ---------------------------
(***************************************************************************)
(* What the disk tier promises its callers, without files: publications    *)
(* are atomic and permanent, retirement is permanent once reported, and    *)
(* only what was in flight at a crash may go either way.                   *)
(***************************************************************************)
CONSTANT Manifest

VARIABLES up,       \* the store is open
          visible,  \* the checkpoints callers can read
          promised, \* checkpoints shown as durable and not retired since
          gone      \* removals reported as done

svars == <<up, visible, promised, gone>>

Init == up = FALSE /\ visible = {} /\ promised = {} /\ gone = {}

\* What the store shows is everything it promised and nothing it gave up; an
\* outcome that was uncertain is settled either way.
Open ==
  /\ ~up /\ up' = TRUE
  /\ visible' \in SUBSET (Manifest \ gone)
  /\ promised \subseteq visible' /\ promised' = visible'
  /\ UNCHANGED gone

Close ==
  /\ up /\ up' = FALSE /\ visible' = {}
  /\ UNCHANGED <<promised, gone>>

\* Files disappear while nobody owns the directory.
Lose ==
  /\ ~up /\ promised' \in SUBSET promised
  /\ UNCHANGED <<up, visible, gone>>

Attempt(m) ==
  /\ up /\ m \notin visible /\ gone' = gone \ {m}
  /\ UNCHANGED <<up, visible, promised>>

Publish(m) ==
  /\ up /\ m \notin visible \cup gone
  /\ visible' = visible \cup {m} /\ promised' = promised \cup {m}
  /\ UNCHANGED <<up, gone>>

Retire(m) ==
  /\ up /\ m \in visible
  /\ visible' = visible \ {m} /\ promised' = promised \ {m}
  /\ UNCHANGED <<up, gone>>

Forget(S) ==
  /\ up /\ S \cap visible = {} /\ gone' = gone \cup S
  /\ UNCHANGED <<up, visible, promised>>

Next ==
  \/ Open \/ Close \/ Lose
  \/ \E m \in Manifest : Attempt(m) \/ Publish(m) \/ Retire(m)
  \/ \E S \in SUBSET Manifest : Forget(S)

Spec == Init /\ [][Next]_svars
=============================================================================
