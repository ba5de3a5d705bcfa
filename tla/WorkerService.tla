---------------------------- MODULE WorkerService ---------------------------
(***************************************************************************)
(* What VP9WorkerInterface (vp9/common/vp9_thread.h) promises its caller,  *)
(* with no thread, mutex or condition in sight: a worker is given one job  *)
(* at a time and only when it is idle, an answer of sync() or reset() is   *)
(* given only when the worker is idle, and a failure stays visible until   *)
(* the caller clears it.                                                   *)
(***************************************************************************)
VARIABLES
  alive,   \* reset() succeeded and end() was not called since
  busy,    \* a job was launched and is not finished
  failed,  \* what had_error shows
  answer   \* what sync() or reset() returned last

vars == <<alive, busy, failed, answer>>

Init == ~alive /\ ~busy /\ ~failed /\ answer = TRUE

Start ==
  /\ ~alive
  /\ alive' = TRUE
  /\ answer' = TRUE
  /\ UNCHANGED <<busy, failed>>

StartFails ==
  /\ ~alive
  /\ answer' = FALSE
  /\ UNCHANGED <<alive, busy, failed>>

Submit ==
  /\ alive /\ ~busy
  /\ busy' = TRUE
  /\ UNCHANGED <<alive, failed, answer>>

\* The job fails, or the clearing of an earlier failure is undone by it.
JobFails ==
  /\ busy
  /\ failed' = TRUE
  /\ UNCHANGED <<alive, busy, answer>>

Finish ==
  /\ busy
  /\ busy' = FALSE
  /\ UNCHANGED <<alive, failed, answer>>

\* execute(): the caller runs the hook itself, on an idle or dead worker.
RunInline ==
  /\ ~busy
  /\ failed' \in {failed, TRUE}
  /\ UNCHANGED <<alive, busy, answer>>

Clear ==
  /\ failed' = FALSE
  /\ UNCHANGED <<alive, busy, answer>>

Answer ==
  /\ ~busy
  /\ answer' = ~failed
  /\ UNCHANGED <<alive, busy, failed>>

\* reset() finds the worker idle.
AlreadyStarted ==
  /\ alive /\ ~busy
  /\ answer' = TRUE
  /\ UNCHANGED <<alive, busy, failed>>

Stop ==
  /\ alive /\ ~busy
  /\ alive' = FALSE
  /\ UNCHANGED <<busy, failed, answer>>

Next == \/ Start \/ StartFails \/ Submit \/ JobFails \/ Finish \/ RunInline
        \/ Clear \/ Answer \/ AlreadyStarted \/ Stop

Safe == Init /\ [][Next]_vars

Spec == Safe /\ WF_vars(Finish)
=============================================================================
