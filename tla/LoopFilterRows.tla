-------------------------- MODULE LoopFilterRows ---------------------------
(***************************************************************************)
(* The multi-threaded VP9 loop filter (vp9/common/vp9_thread_common.c):    *)
(* workers take every num_workers-th row of superblocks and follow the row *)
(* above, whose progress they read in cur_sb_col.                          *)
(*                                                                         *)
(* Rows and columns count superblocks.  A worker is a process between the  *)
(* launch and the sync of the VP9Worker interface (see WorkerThread).  The *)
(* critical sections of sync_read() and sync_write() are single steps: a   *)
(* thread in one holds the row's mutex throughout, and so does             *)
(* pthread_cond_wait() between the test and the wait.                      *)
(***************************************************************************)
EXTENDS Integers, FiniteSets

CONSTANTS
  SbRows, SbCols,  \* superblock rows and columns of the pictures
  SyncRange,       \* get_sync_range() of their width
  NWorkers,        \* nworkers: tile workers of the decoder or encoder
  TileCols         \* numbers of tile columns that the frames may have

ASSUME LoopFilterSizes ==
  /\ SbRows \in Nat \ {0}
  /\ SbCols \in Nat \ {0}
  /\ SyncRange \in {1, 2, 4, 8}
  /\ NWorkers \in Nat \ {0}
  /\ TileCols \subseteq Nat \ {0}

VARIABLES
  lf_num_workers, \* lf_sync->num_workers; 0 before vp9_loop_filter_alloc()
  num_workers,    \* num_workers of loop_filter_rows_mt()
  launched,       \* its loop counter
  filtering,      \* loop_filter_rows_mt() is running
  cur_sb_col,     \* lf_sync->cur_sb_col
  worker,         \* what every worker does, and where
  filtered        \* the number of superblocks filtered in every row

vars == <<lf_num_workers, num_workers, launched, filtering, cur_sb_col,
          worker, filtered>>

Rows == 0 .. SbRows - 1
Workers == 0 .. NWorkers - 1

WorkerState == [at : {"ready", "read", "wait", "filter", "write"},
                row : Nat, col : 0 .. SbCols]

TypeOK ==
  /\ lf_num_workers \in 0 .. NWorkers
  /\ num_workers \in 0 .. NWorkers
  /\ launched \in 0 .. num_workers
  /\ filtering \in BOOLEAN
  /\ cur_sb_col \in [Rows -> {-1} \cup 0 .. SbCols + SyncRange]
  /\ worker \in [Workers -> WorkerState]
  /\ filtered \in [Rows -> 0 .. SbCols]

Init ==
  /\ lf_num_workers = 0
  /\ num_workers = 0
  /\ launched = 0
  /\ filtering = FALSE
  /\ cur_sb_col = [r \in Rows |-> -1]
  /\ worker = [w \in Workers |-> [at |-> "ready", row |-> 0, col |-> 0]]
  /\ filtered = [r \in Rows |-> SbCols]

-----------------------------------------------------------------------------
(* loop_filter_rows_mt() *)

\* A frame of so many tile columns: the rows' state is reset, and allocated
\* anew when there are more workers than before.
LoopFilterRowsMt(tileCols) ==
  /\ ~filtering
  /\ filtering' = TRUE
  /\ num_workers' = IF NWorkers < tileCols THEN NWorkers ELSE tileCols
  /\ lf_num_workers' = IF lf_num_workers < num_workers' THEN num_workers'
                       ELSE lf_num_workers
  /\ cur_sb_col' = [r \in Rows |-> -1]
  /\ launched' = 0
  /\ filtered' = [r \in Rows |-> 0]
  /\ UNCHANGED worker

\* Mutant of NextBlock: one row fewer for every worker.
NextBlockStop(row, col) ==
  LET wraps == col = SbCols
      next == IF wraps THEN row + lf_num_workers ELSE row
  IN [at |-> IF next < SbRows - 1 THEN "read" ELSE "ready",
      row |-> next, col |-> IF wraps THEN 0 ELSE col]

\* The place where a worker goes on, after the superblock at (row, col).
NextBlock(row, col) ==
  LET wraps == col = SbCols
      next == IF wraps THEN row + lf_num_workers ELSE row
  IN [at |-> IF next < SbRows THEN "read" ELSE "ready",
      row |-> next, col |-> IF wraps THEN 0 ELSE col]

\* Mutant of LaunchRows: one worker more than there are.
LaunchRowsOneMore ==
  /\ filtering
  /\ launched <= num_workers
  /\ worker' = [worker EXCEPT ![launched] =
                  [at |-> IF launched < SbRows THEN "read" ELSE "ready",
                   row |-> launched, col |-> 0]]
  /\ launched' = launched + 1
  /\ UNCHANGED <<lf_num_workers, num_workers, filtering, cur_sb_col, filtered>>

\* launch() of worker i with lf_data->start = i, and execute() of the last.
LaunchRows ==
  /\ filtering
  /\ launched < num_workers
  /\ worker' = [worker EXCEPT ![launched] =
                  [at |-> IF launched < SbRows THEN "read" ELSE "ready",
                   row |-> launched, col |-> 0]]
  /\ launched' = launched + 1
  /\ UNCHANGED <<lf_num_workers, num_workers, filtering, cur_sb_col, filtered>>

\* "Wait till all rows are finished": sync() of every worker.
SyncRows ==
  /\ filtering
  /\ launched = num_workers
  /\ \A w \in Workers : worker[w].at = "ready"
  /\ filtering' = FALSE
  /\ UNCHANGED <<lf_num_workers, num_workers, launched, cur_sb_col, worker,
                 filtered>>

-----------------------------------------------------------------------------
(* thread_loop_filter_rows() *)

\* Mutant of MustWait: one superblock too early.
MustWaitLess(r, c) == /\ r > 0
                      /\ c % SyncRange = 0
                      /\ c > cur_sb_col[r - 1]

\* The row above is not far enough for this superblock.
MustWait(r, c) == /\ r > 0
                  /\ c % SyncRange = 0
                  /\ c > cur_sb_col[r - 1] - SyncRange

SyncRead(w) ==
  /\ worker[w].at = "read"
  /\ worker' = [worker EXCEPT ![w].at =
                  IF MustWait(worker[w].row, worker[w].col)
                    THEN "wait" ELSE "filter"]
  /\ UNCHANGED <<lf_num_workers, num_workers, launched, filtering, cur_sb_col,
                 filtered>>

FilterBlock(w) ==
  /\ worker[w].at = "filter"
  /\ filtered' = [filtered EXCEPT ![worker[w].row] = @ + 1]
  /\ worker' = [worker EXCEPT ![w].at = "write"]
  /\ UNCHANGED <<lf_num_workers, num_workers, launched, filtering, cur_sb_col>>

\* Mutant of WaitingFor: the signal goes to the wrong row.
WaitingForOther(r) == {w \in Workers : worker[w].at = "wait" /\ worker[w].row = r}

\* The workers that pthread_cond_signal(&cond_[r]) may wake.
WaitingFor(r) == {w \in Workers : worker[w].at = "wait" /\ worker[w].row = r + 1}

\* Mutant of SyncWrite: the waiting worker is not signalled.
SyncWriteSilently(w) ==
  LET r == worker[w].row
      c == worker[w].col
      last == c >= SbCols - 1
  IN /\ worker[w].at = "write"
     /\ worker' = [worker EXCEPT ![w] = NextBlock(r, c + 1)]
     /\ IF ~last /\ c % SyncRange # 0
          THEN UNCHANGED cur_sb_col
          ELSE cur_sb_col' = [cur_sb_col EXCEPT ![r] =
                                IF last THEN SbCols + SyncRange ELSE c]
     /\ UNCHANGED <<lf_num_workers, num_workers, launched, filtering, filtered>>

\* Progress is told every SyncRange superblocks, and at the end of the row.
SyncWrite(w) ==
  LET r == worker[w].row
      c == worker[w].col
      last == c >= SbCols - 1
      went == [worker EXCEPT ![w] = NextBlock(r, c + 1)]
  IN /\ worker[w].at = "write"
     /\ IF ~last /\ c % SyncRange # 0
          THEN worker' = went /\ UNCHANGED cur_sb_col
          ELSE /\ cur_sb_col' = [cur_sb_col EXCEPT ![r] =
                                   IF last THEN SbCols + SyncRange ELSE c]
               /\ \/ WaitingFor(r) = {} /\ worker' = went
                  \/ \E v \in WaitingFor(r) :
                       worker' = [went EXCEPT ![v].at = "read"]
     /\ UNCHANGED <<lf_num_workers, num_workers, launched, filtering, filtered>>

WorkerStep(w) == SyncRead(w) \/ FilterBlock(w) \/ SyncWrite(w)

Next ==
  \/ \E n \in TileCols : LoopFilterRowsMt(n)
  \/ LaunchRows
  \/ SyncRows
  \/ \E w \in Workers : WorkerStep(w)

Spec == Init /\ [][Next]_vars

\* The threads run; frames need not keep coming.
FairSpec ==
  /\ Spec
  /\ WF_vars(LaunchRows)
  /\ WF_vars(SyncRows)
  /\ \A w \in Workers : WF_vars(WorkerStep(w))

-----------------------------------------------------------------------------
(* Properties *)

\* Progress is never told before it is made: what cur_sb_col says is filtered.
ProgressIsTrue ==
  filtering =>
    \A r \in Rows : \/ cur_sb_col[r] < filtered[r]
                    \/ filtered[r] = SbCols

\* pthread_cond_signal() is enough, and none is lost: a row has one follower,
\* which waits only while the row is not far enough.
NoSignalLost ==
  \A w \in Workers : worker[w].at = "wait" =>
    /\ MustWait(worker[w].row, worker[w].col)
    /\ WaitingFor(worker[w].row - 1) = {w}

\* When the threads are synced every superblock of the picture is filtered.
AllRowsFiltered == ~filtering => \A r \in Rows : filtered[r] = SbCols

\* loop_filter_rows_mt() returns: "Wait till all rows are finished".
RowsFinish == filtering ~> ~filtering

\* The filter is a wavefront: no superblock is filtered before the ones above
\* it and above its right neighbour, whatever the number of threads.
WavefrontOrder == INSTANCE Wavefront
  WITH Rows <- SbRows, Cols <- SbCols, done <- filtered, running <- filtering
ImplementsWavefront == WavefrontOrder!Spec
=============================================================================
