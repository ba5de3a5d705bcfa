------------------------- MODULE Vp8DecoderThreads -------------------------
(***************************************************************************)
(* The row threads of the VP8 decoder (vp8/decoder/threading.c).  The main *)
(* thread, 0, and the decoding threads take every so many-th row of        *)
(* macroblocks.  A thread follows the row above by spinning on that row's  *)
(* entry of mt_current_mb_col; semaphores start a frame and end it.        *)
(*                                                                         *)
(* The counters are volatile ints without barriers: the model has their    *)
(* stores seen in program order, as they are on x86.  Everything that a    *)
(* macroblock is put through, the delayed loop filter included, is one     *)
(* step, taken when the thread leaves the spin loop.                       *)
(***************************************************************************)
EXTENDS Integers

CONSTANTS
  Helpers,  \* allocated_decoding_thread_count
  MaxRows,  \* macroblock rows of the highest picture
  Cols,     \* pc->mb_cols
  NSync,    \* pbi->sync_range
  Frames,   \* what a frame may be: its rows and its token partitions
  Hurried,  \* a frame of another shape may come before every thread has
            \* left the last one
  MaxStarts \* bound of the model: the starts a thread may be behind

ASSUME DecoderSizes ==
  /\ Helpers \in Nat \ {0}
  /\ MaxRows \in Nat \ {0}
  /\ Cols \in Nat \ {0}
  /\ NSync \in {1, 8, 16, 32}
  /\ Frames \subseteq [rows : 1 .. MaxRows, parts : {1, 2, 4, 8}]
  /\ Hurried \in BOOLEAN
  /\ MaxStarts \in Nat \ {0}
VARIABLES
  mb_rows,               \* pc->mb_rows
  decoding_thread_count, \* it only ever shrinks
  current_mb_col,        \* pbi->mt_current_mb_col
  at, row, col, last,    \* where every thread is; its mb_row, mb_col and
                         \* last_mb_row
  start, end,            \* the counts of h_event_start_decoding[] and of
                         \* h_event_end_decoding
  running,               \* b_multithreaded_rd
  joining,               \* the thread that vp8_decoder_remove_threads() joins
  decoded                \* the macroblocks decoded in every row of the frame

vars == <<mb_rows, decoding_thread_count, current_mb_col, at, row, col, last,
          start, end, running, joining, decoded>>

Thread == 0 .. Helpers
Helper == 1 .. Helpers
Row == 0 .. MaxRows - 1

Place == {"app", "top", "idle", "test", "mb", "spin", "flag", "next", "end",
          "wait", "join", "exit"}

TypeOK ==
  /\ mb_rows \in 0 .. MaxRows
  /\ decoding_thread_count \in 0 .. Helpers
  /\ current_mb_col \in [Row -> -1 .. Cols + NSync]
  /\ at \in [Thread -> Place]
  /\ row \in [Thread -> Nat]
  /\ col \in [Thread -> 0 .. Cols]
  /\ last \in [Thread -> Nat]
  /\ start \in [Helper -> Nat]
  /\ end \in Nat
  /\ running \in BOOLEAN
  /\ joining \in 0 .. Helpers
  /\ decoded \in [Row -> 0 .. Cols]

\* The threads were created; no frame has come.
Init ==
  /\ mb_rows = 0
  /\ decoding_thread_count = Helpers
  /\ current_mb_col = [r \in Row |-> -1]
  /\ at = [t \in Thread |-> IF t = 0 THEN "app" ELSE "top"]
  /\ row = [t \in Thread |-> t]
  /\ col = [t \in Thread |-> 0]
  /\ last = [t \in Thread |-> t]
  /\ start = [t \in Helper |-> 0]
  /\ end = 0
  /\ running = TRUE
  /\ joining = 0
  /\ decoded = [r \in Row |-> Cols]

-----------------------------------------------------------------------------
(* The main thread *)

\* setup_token_decoder(): "Clamp number of decoder threads".
ClampThreads(parts) ==
  IF decoding_thread_count > parts - 1 THEN parts - 1
  ELSE decoding_thread_count

\* The application calls when it likes if the frame has the shape of the last
\* one; unless it is hurried, a frame of another shape finds the threads back.
MayCome(f) ==
  \/ Hurried
  \/ f.rows = mb_rows /\ ClampThreads(f.parts) = decoding_thread_count
  \/ \A t \in Helper : at[t] \in {"top", "idle"} /\ start[t] = 0
\* A frame with one token partition: decode_mb_rows() decodes it alone.
DecodeSerially(f) ==
  /\ at[0] = "app" /\ running
  /\ f.parts = 1
  /\ mb_rows' = f.rows
  /\ decoding_thread_count' = ClampThreads(f.parts)
  /\ UNCHANGED <<current_mb_col, at, row, col, last, start, end, running,
                 joining, decoded>>

\* Mutant of DecodeInThreads: the columns of the last frame are not cleared.
DecodeInThreadsStale(f) ==
  /\ at[0] = "app" /\ running
  /\ f.parts > 1
  /\ \A t \in Helper : start[t] < MaxStarts
  /\ mb_rows' = f.rows
  /\ decoding_thread_count' = ClampThreads(f.parts)
  /\ start' = [t \in Helper |->
                 IF t <= decoding_thread_count' THEN start[t] + 1 ELSE start[t]]
  /\ at' = [at EXCEPT ![0] = "test"]
  /\ row' = [row EXCEPT ![0] = 0]
  /\ last' = [last EXCEPT ![0] = 0]
  /\ decoded' = [r \in Row |-> IF r < f.rows THEN 0 ELSE Cols]
  /\ UNCHANGED <<current_mb_col, col, end, running, joining>>

\* vp8mt_decode_mb_rows(): the columns are cleared, the threads are started
\* and the main thread begins with row 0.
DecodeInThreads(f) ==
  /\ at[0] = "app" /\ running
  /\ f.parts > 1
  /\ \A t \in Helper : start[t] < MaxStarts
  /\ mb_rows' = f.rows
  /\ decoding_thread_count' = ClampThreads(f.parts)
  /\ current_mb_col' = [r \in Row |-> IF r < f.rows THEN -1
                                      ELSE current_mb_col[r]]
  /\ start' = [t \in Helper |->
                 IF t <= decoding_thread_count' THEN start[t] + 1 ELSE start[t]]
  /\ at' = [at EXCEPT ![0] = "test"]
  /\ row' = [row EXCEPT ![0] = 0]
  /\ last' = [last EXCEPT ![0] = 0]
  /\ decoded' = [r \in Row |-> IF r < f.rows THEN 0 ELSE Cols]
  /\ UNCHANGED <<col, end, running, joining>>

\* sem_wait(&pbi->h_event_end_decoding)
EndFrame ==
  /\ at[0] = "wait"
  /\ end > 0
  /\ end' = end - 1
  /\ at' = [at EXCEPT ![0] = "app"]
  /\ UNCHANGED <<mb_rows, decoding_thread_count, current_mb_col, row, col, last,
                 start, running, joining, decoded>>

\* vp8_decoder_remove_threads() posts and joins one thread after the other.
RemoveThreads ==
  /\ at[0] = "app" /\ running
  /\ running' = FALSE
  /\ joining' = 1
  /\ start' = [start EXCEPT ![1] = @ + 1]
  /\ at' = [at EXCEPT ![0] = "join"]
  /\ UNCHANGED <<mb_rows, decoding_thread_count, current_mb_col, row, col, last,
                 end, decoded>>

JoinThread ==
  /\ at[0] = "join"
  /\ at[joining] = "exit"
  /\ IF joining = Helpers
       THEN /\ at' = [at EXCEPT ![0] = "exit"]
            /\ UNCHANGED <<start, joining>>
       ELSE /\ joining' = joining + 1
            /\ start' = [start EXCEPT ![joining + 1] = @ + 1]
            /\ UNCHANGED at
  /\ UNCHANGED <<mb_rows, decoding_thread_count, current_mb_col, row, col, last,
                 end, running, decoded>>

-----------------------------------------------------------------------------
(* thread_decoding_proc() *)

\* The test at the top of the loop.
ThreadTop(t) ==
  /\ at[t] = "top"
  /\ at' = [at EXCEPT ![t] = IF running THEN "idle" ELSE "exit"]
  /\ UNCHANGED <<mb_rows, decoding_thread_count, current_mb_col, row, col, last,
                 start, end, running, joining, decoded>>

\* sem_wait() of its semaphore returns: the end, or the thread's first row.
ThreadStart(t) ==
  /\ at[t] = "idle"
  /\ start[t] > 0
  /\ start' = [start EXCEPT ![t] = @ - 1]
  /\ at' = [at EXCEPT ![t] = IF running THEN "test" ELSE "exit"]
  /\ row' = [row EXCEPT ![t] = t]
  /\ last' = [last EXCEPT ![t] = t]
  /\ UNCHANGED <<mb_rows, decoding_thread_count, current_mb_col, col, end,
                 running, joining, decoded>>

-----------------------------------------------------------------------------
(* mt_decode_mb_rows(), in every thread *)

\* The condition of the loop over the rows, which reads pc->mb_rows.
TestRow(t) ==
  /\ at[t] = "test"
  /\ IF row[t] < mb_rows
       THEN /\ at' = [at EXCEPT ![t] = "mb"]
            /\ last' = [last EXCEPT ![t] = row[t]]
            /\ col' = [col EXCEPT ![t] = 0]
       ELSE /\ at' = [at EXCEPT ![t] = "end"]
            /\ UNCHANGED <<last, col>>
  /\ UNCHANGED <<mb_rows, decoding_thread_count, current_mb_col, row, start, end,
                 running, joining, decoded>>

\* *current_mb_col = mb_col - 1
StartMb(t) ==
  /\ at[t] = "mb"
  /\ current_mb_col' = [current_mb_col EXCEPT ![row[t]] = col[t] - 1]
  /\ at' = [at EXCEPT ![t] = "spin"]
  /\ UNCHANGED <<mb_rows, decoding_thread_count, row, col, last, start, end,
                 running, joining, decoded>>

\* The condition of the spin loop; the first row has none above.
MustSpin(t) ==
  /\ row[t] > 0
  /\ col[t] % NSync = 0
  /\ col[t] > current_mb_col[row[t] - 1] - NSync

DecodeMb(t) ==
  /\ at[t] = "spin"
  /\ ~MustSpin(t)
  /\ decoded' = [decoded EXCEPT ![row[t]] = col[t] + 1]
  /\ col' = [col EXCEPT ![t] = @ + 1]
  /\ at' = [at EXCEPT ![t] = IF col[t] + 1 < Cols THEN "mb" ELSE "flag"]
  /\ UNCHANGED <<mb_rows, decoding_thread_count, current_mb_col, row, last,
                 start, end, running, joining>>

\* "last MB of row is ready just after extension is done"
FlagRow(t) ==
  /\ at[t] = "flag"
  /\ current_mb_col' = [current_mb_col EXCEPT ![row[t]] = Cols + NSync]
  /\ at' = [at EXCEPT ![t] = "next"]
  /\ UNCHANGED <<mb_rows, decoding_thread_count, row, col, last, start, end,
                 running, joining, decoded>>

\* Mutant of NextRow: the threads that were created are counted, not those
\* that decode this frame.
NextRowCreated(t) ==
  /\ at[t] = "next"
  /\ row' = [row EXCEPT ![t] = @ + Helpers + 1]
  /\ at' = [at EXCEPT ![t] = "test"]
  /\ UNCHANGED <<mb_rows, decoding_thread_count, current_mb_col, col, last,
                 start, end, running, joining, decoded>>

\* The step of the loop, which reads pbi->decoding_thread_count.
NextRow(t) ==
  /\ at[t] = "next"
  /\ row' = [row EXCEPT ![t] = @ + decoding_thread_count + 1]
  /\ at' = [at EXCEPT ![t] = "test"]
  /\ UNCHANGED <<mb_rows, decoding_thread_count, current_mb_col, col, last,
                 start, end, running, joining, decoded>>

\* Mutant of SignalEnd: every thread signals.
SignalEndAlways(t) ==
  /\ at[t] = "end"
  /\ end' = end + 1
  /\ at' = [at EXCEPT ![t] = IF t = 0 THEN "wait" ELSE "top"]
  /\ UNCHANGED <<mb_rows, decoding_thread_count, current_mb_col, row, col, last,
                 start, running, joining, decoded>>

\* "signal end of frame decoding if this thread processed the last mb_row"
SignalEnd(t) ==
  /\ at[t] = "end"
  /\ end' = IF last[t] = mb_rows - 1 THEN end + 1 ELSE end
  /\ at' = [at EXCEPT ![t] = IF t = 0 THEN "wait" ELSE "top"]
  /\ UNCHANGED <<mb_rows, decoding_thread_count, current_mb_col, row, col, last,
                 start, running, joining, decoded>>

RowStep(t) ==
  \/ TestRow(t) \/ StartMb(t) \/ DecodeMb(t) \/ FlagRow(t) \/ NextRow(t)
  \/ SignalEnd(t)

HelperStep(t) == ThreadTop(t) \/ ThreadStart(t) \/ RowStep(t)

MainStep == RowStep(0) \/ EndFrame \/ JoinThread

Next ==
  \/ \E f \in Frames : MayCome(f) /\ (DecodeSerially(f) \/ DecodeInThreads(f))
  \/ RemoveThreads
  \/ MainStep
  \/ \E t \in Helper : HelperStep(t)

Spec == Init /\ [][Next]_vars

\* The threads run (the spin loops yield); frames need not keep coming.
FairSpec == Spec /\ WF_vars(MainStep) /\ \A t \in Helper : WF_vars(HelperStep(t))

-----------------------------------------------------------------------------
(* Properties *)

\* The semaphores are posted once for every wait: neither an end nor the start
\* of a thread that has rows is left over for a later frame, which it would end
\* too early or decode twice.  (A thread without rows may be behind.)
NothingLeftOver ==
  /\ end <= 1
  /\ \A t \in Helper : t < mb_rows => start[t] <= 1
  /\ at[0] = "app" => /\ end = 0
                      /\ \A t \in Helper : t < mb_rows => start[t] = 0

\* vp8mt_decode_mb_rows() returns, and so does vp8_decoder_remove_threads():
\* no thread spins for ever on the row above.
FramesFinish == at[0] \notin {"app", "exit"} ~> at[0] \in {"app", "exit"}

\* When the end is signalled the frame is decoded.  (The comment at
\* threading.c:622: "signal end of frame decoding if this thread processed
\* the last mb_row".)
EndIsTrue ==
  [][end' > end => \A r \in Row : r < mb_rows => decoded[r] = Cols]_vars

\* Macroblocks are decoded in order of a wavefront, above and above-right
\* neighbours first, and the frame ends when all are, whatever the threads.
WavefrontOrder == INSTANCE Wavefront
  WITH Rows <- MaxRows, Cols <- Cols, done <- decoded,
       running <- at[0] \notin {"app", "join", "exit"}
ImplementsWavefront == WavefrontOrder!Spec
=============================================================================
