----------------------------- MODULE Wavefront -----------------------------
(***************************************************************************)
(* What row-parallel work on a picture promises: blocks are done row by    *)
(* row from left to right, a block only after its upper and upper-right    *)
(* neighbours, and the work ends when every block is done.  It says        *)
(* nothing of threads.                                                     *)
(***************************************************************************)
EXTENDS Naturals

CONSTANTS Rows, Cols  \* at most so many rows, and so many columns of blocks

VARIABLES
  done,    \* the number of blocks done in every row
  running  \* the picture is being worked on

vars == <<done, running>>

Row == 0 .. Rows - 1

TypeOK == done \in [Row -> 0 .. Cols] /\ running \in BOOLEAN

Init == done = [r \in Row |-> Cols] /\ running = FALSE

\* A picture of n rows; the rows it lacks count as done.
Begin(n) ==
  /\ ~running
  /\ running' = TRUE
  /\ done' = [r \in Row |-> IF r < n THEN 0 ELSE Cols]

\* The block needs what is above it and, unless it is the last, what is above
\* its right neighbour.
Process(r) ==
  /\ running
  /\ done[r] < Cols
  /\ r > 0 => \/ done[r - 1] = Cols
              \/ done[r - 1] >= done[r] + 2
  /\ done' = [done EXCEPT ![r] = @ + 1]
  /\ UNCHANGED running

End ==
  /\ running
  /\ \A r \in Row : done[r] = Cols
  /\ running' = FALSE
  /\ UNCHANGED done

Next == (\E n \in 1 .. Rows : Begin(n)) \/ (\E r \in Row : Process(r)) \/ End

Spec == Init /\ [][Next]_vars

FairSpec == Spec /\ WF_vars(End) /\ \A r \in Row : WF_vars(Process(r))
=============================================================================
