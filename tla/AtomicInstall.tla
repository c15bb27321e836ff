--------------------------- MODULE AtomicInstall ---------------------------
(***************************************************************************)
(* What an install promises the operator, with no steps in it: a run       *)
(* either returns nil with all of its work on the machine, or returns an   *)
(* error having added none of the work it can undo, or dies.  None of them *)
(* takes away work that was there before.                                  *)
(***************************************************************************)
CONSTANTS
  Kept,       \* the pieces of work Verify can see
  Undoable    \* those of them a failing run takes back

VARIABLES
  phase,      \* "idle", "running", "ok" or "failed"
  holds,      \* the work on the machine when the last run ended
  spoiled     \* the work the last run failed at, or failed to undo

avars == <<phase, holds, spoiled>>

Init == phase = "idle" /\ holds \in SUBSET Kept /\ spoiled = {}

Begin ==
  /\ phase # "running"
  /\ phase' = "running" /\ spoiled' = {} /\ UNCHANGED holds

Commit ==
  /\ phase = "running"
  /\ phase' = "ok" /\ holds' = Kept /\ UNCHANGED spoiled

Abort ==
  /\ phase = "running"
  /\ phase' = "failed"
  /\ spoiled' \in SUBSET Kept
  /\ holds' \in SUBSET Kept /\ holds \subseteq holds'
  /\ (holds' \ holds) \cap Undoable \subseteq spoiled'

Die ==
  /\ phase = "running"
  /\ phase' = "idle"
  /\ holds' \in SUBSET Kept /\ holds \subseteq holds'
  /\ UNCHANGED spoiled

Next == Begin \/ Commit \/ Abort \/ Die

Spec == Init /\ [][Next]_avars
=============================================================================
