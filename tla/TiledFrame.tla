----------------------------- MODULE TiledFrame -----------------------------
(***************************************************************************)
(* What a codec that gives the tiles of a frame to threads promises: every *)
(* tile of the frame is worked on once, none once the frame is over, and a *)
(* frame is good only when all its tiles were done and none failed.        *)
(***************************************************************************)
EXTENDS Naturals

CONSTANT Tile

VARIABLES
  done,     \* how often each tile was worked on
  failed,   \* a tile of the frame failed
  running,  \* the frame is being worked on
  good      \* the last frame was returned as good

vars == <<done, failed, running, good>>

Init ==
  /\ done = [t \in Tile |-> 1]
  /\ failed = FALSE
  /\ running = FALSE
  /\ good = FALSE

\* A frame of these tiles; the tiles it lacks count as done.
Begin(tiles) ==
  /\ ~running
  /\ running' = TRUE
  /\ done' = [t \in Tile |-> IF t \in tiles THEN 0 ELSE 1]
  /\ failed' = FALSE
  /\ UNCHANGED good

Work(t) ==
  /\ running
  /\ done[t] = 0
  /\ done' = [done EXCEPT ![t] = 1]
  /\ failed' \in {failed, TRUE}
  /\ UNCHANGED <<running, good>>

Return ==
  /\ running
  /\ running' = FALSE
  /\ good' = (~failed /\ \A t \in Tile : done[t] = 1)
  /\ UNCHANGED <<done, failed>>

\* A frame may also be given up for another reason than a tile.
GiveUp ==
  /\ running
  /\ running' = FALSE
  /\ good' = FALSE
  /\ UNCHANGED <<done, failed>>

Next ==
  \/ \E tiles \in SUBSET Tile : Begin(tiles)
  \/ \E t \in Tile : Work(t)
  \/ Return
  \/ GiveUp

Spec == Init /\ [][Next]_vars
=============================================================================
