----------------------------- MODULE FrameQueue -----------------------------
(***************************************************************************)
(* What an encoder's lookahead promises: a queue of at most Capacity       *)
(* frames that gives back the oldest when it is full or when it is being   *)
(* drained, and that keeps the last frame it gave back readable until the  *)
(* next one is taken.  It loses no frame while it can be taken from.       *)
(***************************************************************************)
EXTENDS Naturals, Sequences

CONSTANTS
  Capacity,  \* frames the queue holds
  Entries,   \* what a frame can be
  Nothing    \* no frame was taken yet, which no entry is

VARIABLES
  sent,      \* frames that were added, from the first on
  queue,     \* the frames that wait, the oldest first
  previous,  \* the frame taken last
  draining,  \* the queue need not be full to be taken from
  jammed     \* nothing can be taken any more

vars == <<sent, queue, previous, draining, jammed>>

Init ==
  /\ sent = 0
  /\ queue = <<>>
  /\ previous = Nothing
  /\ draining \in BOOLEAN
  /\ jammed = FALSE

\* Frames are numbered as they come.
Add(e) ==
  /\ e.image = sent + 1
  /\ sent' = sent + 1
  /\ Len(queue) < Capacity
  /\ queue' = Append(queue, e)
  /\ UNCHANGED <<previous, draining, jammed>>

\* A full queue loses frames only once nothing can be taken.
Refuse ==
  /\ jammed /\ Len(queue) = Capacity
  /\ sent' = sent + 1
  /\ UNCHANGED <<queue, previous, draining, jammed>>

Take ==
  /\ ~jammed
  /\ queue # <<>>
  /\ draining \/ Len(queue) = Capacity
  /\ queue' = Tail(queue)
  /\ previous' = Head(queue)
  /\ UNCHANGED <<sent, draining, jammed>>

StartOrStopDraining ==
  /\ draining' \in BOOLEAN
  /\ UNCHANGED <<sent, queue, previous, jammed>>

Jam ==
  /\ jammed' = TRUE
  /\ UNCHANGED <<sent, queue, previous, draining>>

Next ==
  \/ \E e \in Entries : Add(e)
  \/ Refuse
  \/ Take
  \/ StartOrStopDraining
  \/ Jam

Spec == Init /\ [][Next]_vars
=============================================================================
