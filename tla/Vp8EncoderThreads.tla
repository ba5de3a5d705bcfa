------------------------- MODULE Vp8EncoderThreads -------------------------
(***************************************************************************)
(* The threads of the VP8 encoder: the row threads, which encode every so  *)
(* many-th row of macroblocks behind the row above, and the loop filter    *)
(* thread, which filters a picture while its frame is packed, returned and *)
(* followed by other calls (vp8/encoder/ethreading.c, encodeframe.c and    *)
(* onyx_if.c).                                                             *)
(*                                                                         *)
(* The filter thread posts one semaphore twice for a frame: when the level *)
(* is set, which the frame's header waits for, and when the picture is     *)
(* filtered, which whatever reads the picture waits for.  As in the        *)
(* decoder, a macroblock is one step and plain stores are seen in order.   *)
(***************************************************************************)
EXTENDS Integers

CONSTANTS
  Helpers,       \* encoding_thread_count
  Rows, Cols,    \* cm->mb_rows, cm->mb_cols
  NSync,         \* cpi->mt_sync_range
  Recodes        \* how often a frame may be encoded again for its size

\* "no point to have more threads than the sync range allows"
ASSUME EncoderSizes ==
  /\ Helpers \in Nat \ {0} /\ Rows \in Nat \ {0} /\ Cols \in Nat \ {0}
  /\ NSync \in {1, 4, 8, 16}
  /\ Helpers <= (Cols \div NSync) - 1
  /\ Recodes \in Nat

VARIABLES
  multi,           \* b_multi_threaded
  lpf_running,     \* b_lpf_running
  at, row, col,    \* where every thread is; its mb_row and mb_col
  current_mb_col,  \* cpi->mt_current_mb_col
  start, end,      \* h_event_start_encoding[], h_event_end_encoding
  start_lpf, end_lpf,  \* h_event_start_lpf, h_event_end_lpf
  created,         \* the row threads that exist
  joining,         \* the thread that is joined
  recodes,         \* how often this frame may still be encoded again
  encoded,         \* the macroblocks encoded in every row
  level_set,       \* cm->filter_level is this frame's
  filtered         \* the picture of the last frame is filtered

rows == <<row, col, current_mb_col, end, encoded>>
life == <<multi, created, joining>>
filter == <<lpf_running, start_lpf, end_lpf, level_set, filtered>>
vars == <<rows, life, filter, at, start, recodes>>

Helper == 1 .. Helpers
Filter == Helpers + 1
Encoder == 0 .. Helpers  \* the threads that encode: 0 is the caller's
Row == 0 .. Rows - 1

Goes(t, place) == at' = [at EXCEPT ![t] = place]

\* What the caller is doing when it reads the picture of the last frame.
Reading == {"config", "preview", "psnr"}
RowPlaces == {"test", "mb", "spin", "flag", "next"}

Place ==
  {"app", "top", "idle", "copy", "begun", "wait", "ended", "level", "pack", "set",
   "filter", "done", "create", "undo", "undolpf", "join", "joinlpf", "exit"}
    \cup Reading \cup RowPlaces

TypeOK ==
  /\ multi \in BOOLEAN /\ lpf_running \in BOOLEAN
  /\ at \in [0 .. Filter -> Place]
  /\ row \in [Encoder -> Nat]
  /\ col \in [Encoder -> 0 .. Cols]
  /\ current_mb_col \in [Row -> -1 .. Cols + NSync]
  /\ start \in [Helper -> Nat] /\ end \in Nat
  /\ start_lpf \in Nat /\ end_lpf \in Nat
  /\ created \in 0 .. Helpers /\ joining \in 0 .. Helpers
  /\ recodes \in 0 .. Recodes
  /\ encoded \in [Row -> 0 .. Cols]
  /\ level_set \in BOOLEAN /\ filtered \in BOOLEAN

\* vp8cx_create_encoder_threads() has been called with b_multi_threaded set.
Init ==
  /\ multi = TRUE /\ lpf_running = FALSE
  /\ at = [t \in 0 .. Filter |-> IF t = 0 THEN "create" ELSE "exit"]
  /\ row = [t \in Encoder |-> t]
  /\ col = [t \in Encoder |-> 0]
  /\ current_mb_col = [r \in Row |-> -1]
  /\ start = [t \in Helper |-> 0] /\ end = 0
  /\ start_lpf = 0 /\ end_lpf = 0
  /\ created = 0 /\ joining = 0
  /\ recodes = 0
  /\ encoded = [r \in Row |-> Cols]
  /\ level_set = FALSE /\ filtered = TRUE

-----------------------------------------------------------------------------
(* Creation and removal *)

CreateThread ==
  /\ at[0] = "create"
  /\ created < Helpers
  /\ created' = created + 1
  /\ Goes(created + 1, "top")
  /\ UNCHANGED <<rows, filter, multi, joining, start, recodes>>

CreateFilterThread ==
  /\ at[0] = "create"
  /\ created = Helpers
  /\ at' = [at EXCEPT ![0] = "app", ![Filter] = "top"]
  /\ UNCHANGED <<rows, filter, life, start, recodes>>

\* "shutdown other threads": the threads before the one that failed are joined.
CreationOfThreadFails ==
  /\ at[0] = "create"
  /\ created < Helpers
  /\ multi' = FALSE
  /\ joining' = created
  /\ Goes(0, IF created = 0 THEN "exit" ELSE "undo")
  /\ UNCHANGED <<rows, filter, created, start, recodes>>

UndoJoin ==
  /\ at[0] = "undo"
  /\ at[joining] = "exit"
  /\ joining' = joining - 1
  /\ IF joining = 1 THEN Goes(0, "exit") ELSE UNCHANGED at
  /\ UNCHANGED <<rows, filter, multi, created, start, recodes>>

\* If it is the filter thread that fails, the row threads are posted as well.
CreationOfFilterFails ==
  /\ at[0] = "create"
  /\ created = Helpers
  /\ multi' = FALSE
  /\ joining' = Helpers
  /\ start' = [start EXCEPT ![Helpers] = @ + 1]
  /\ Goes(0, "undolpf")
  /\ UNCHANGED <<rows, filter, created, recodes>>

UndoFilterJoin ==
  /\ at[0] = "undolpf"
  /\ at[joining] = "exit"
  /\ joining' = joining - 1
  /\ IF joining = 1
       THEN Goes(0, "exit") /\ UNCHANGED start
       ELSE start' = [start EXCEPT ![joining - 1] = @ + 1] /\ UNCHANGED at
  /\ UNCHANGED <<rows, filter, multi, created, recodes>>

\* vp8cx_remove_encoder_threads(): one thread after the other, the filter last.
RemoveThreads ==
  /\ at[0] = "app"
  /\ multi' = FALSE
  /\ joining' = 1
  /\ start' = [start EXCEPT ![1] = @ + 1]
  /\ Goes(0, "join")
  /\ UNCHANGED <<rows, filter, created, recodes>>

JoinThread ==
  /\ at[0] = "join"
  /\ at[joining] = "exit"
  /\ IF joining = Helpers
       THEN /\ start_lpf' = start_lpf + 1
            /\ Goes(0, "joinlpf")
            /\ UNCHANGED <<joining, start>>
       ELSE /\ joining' = joining + 1
            /\ start' = [start EXCEPT ![joining + 1] = @ + 1]
            /\ UNCHANGED <<start_lpf, at>>
  /\ UNCHANGED <<rows, lpf_running, end_lpf, level_set, filtered, multi, created,
                 recodes>>

JoinFilter ==
  /\ at[0] = "joinlpf"
  /\ at[Filter] = "exit"
  /\ Goes(0, "exit")
  /\ UNCHANGED <<rows, filter, life, start, recodes>>

-----------------------------------------------------------------------------
(* The calls of the application *)

\* "wait for the last picture loopfilter thread done", then the rest of a call.
WaitForFilter(then) ==
  /\ IF lpf_running
       THEN end_lpf > 0 /\ end_lpf' = end_lpf - 1 /\ lpf_running' = FALSE
       ELSE UNCHANGED <<end_lpf, lpf_running>>
  /\ Goes(0, then)
  /\ UNCHANGED <<rows, life, start_lpf, level_set, filtered, start, recodes>>

\* vp8_change_config() and vp8_get_preview_raw_frame() wait; the preview of a
\* hidden frame returns at once.
Call ==
  /\ at[0] = "app"
  /\ \E call \in {"config", "preview"} : WaitForFilter(call)

ReadPicture ==
  /\ at[0] \in Reading \cup {"copy"}
  /\ Goes(0, "app")
  /\ UNCHANGED <<rows, life, filter, start, recodes>>

\* vp8_get_reference() copies a picture without waiting.
CopyReference ==
  /\ at[0] = "app"
  /\ Goes(0, "copy")
  /\ UNCHANGED <<rows, life, filter, start, recodes>>

\* encode_frame_to_data_rate() waits, and then it may drop the frame.
BeginFrame ==
  /\ at[0] = "app"
  /\ \E then \in {"begun", "app"} : WaitForFilter(then)

\* vp8_encode_frame(): the columns are cleared and every thread is started.
StartRows(again) ==
  /\ current_mb_col' = [r \in Row |-> -1]
  /\ start' = [t \in Helper |-> start[t] + 1]
  /\ row' = [row EXCEPT ![0] = 0]
  /\ encoded' = [r \in Row |-> 0]
  /\ recodes' = again
  /\ Goes(0, "test")
  /\ UNCHANGED <<life, filter, col, end>>

EncodeFrame == at[0] = "begun" /\ StartRows(Recodes)

\* sem_wait(&cpi->h_event_end_encoding)
EndRows ==
  /\ at[0] = "wait"
  /\ end > 0
  /\ end' = end - 1
  /\ Goes(0, "ended")
  /\ UNCHANGED <<life, filter, row, col, current_mb_col, encoded, start, recodes>>

\* The loop "while (Loop == 1)": once more with another quantizer.
EncodeAgain ==
  /\ at[0] = "ended"
  /\ recodes > 0
  /\ StartRows(recodes - 1)

\* "start loopfilter in separate thread"
StartFilter ==
  /\ at[0] = "ended"
  /\ start_lpf' = start_lpf + 1
  /\ lpf_running' = TRUE
  /\ level_set' = FALSE
  /\ filtered' = FALSE
  /\ Goes(0, "level")
  /\ UNCHANGED <<rows, life, end_lpf, start, recodes>>

\* "wait that filter_level is picked so that we can continue with stream packing"
WaitForLevel ==
  /\ at[0] = "level"
  /\ end_lpf > 0
  /\ end_lpf' = end_lpf - 1
  /\ Goes(0, "pack")
  /\ UNCHANGED <<rows, life, lpf_running, start_lpf, level_set, filtered, start,
                 recodes>>

\* vp8_pack_bitstream(); the call returns, unless PSNR packets are generated:
\* then "we have to wait for the lpf".
Pack ==
  /\ at[0] = "pack"
  /\ \/ Goes(0, "app") /\ UNCHANGED <<rows, life, filter, start, recodes>>
     \/ WaitForFilter("psnr")

-----------------------------------------------------------------------------
(* thread_loopfilter() and vp8_loopfilter_frame() *)

FilterTop ==
  /\ at[Filter] = "top"
  /\ Goes(Filter, IF multi THEN "idle" ELSE "exit")
  /\ UNCHANGED <<rows, life, filter, start, recodes>>

FilterStart ==
  /\ at[Filter] = "idle"
  /\ start_lpf > 0
  /\ start_lpf' = start_lpf - 1
  /\ Goes(Filter, IF multi THEN "set" ELSE "exit")
  /\ UNCHANGED <<rows, life, lpf_running, end_lpf, level_set, filtered, start,
                 recodes>>

\* Mutant of SetLevel: the level is announced before it is picked.
SetLevelLate ==
  /\ at[Filter] = "set"
  /\ end_lpf' = end_lpf + 1
  /\ Goes(Filter, "filter")
  /\ UNCHANGED <<rows, life, lpf_running, start_lpf, level_set, filtered, start,
                 recodes>>

\* "signal that we have set filter_level"
SetLevel ==
  /\ at[Filter] = "set"
  /\ level_set' = TRUE
  /\ end_lpf' = end_lpf + 1
  /\ Goes(Filter, "filter")
  /\ UNCHANGED <<rows, life, lpf_running, start_lpf, filtered, start, recodes>>

\* vp8_loop_filter_frame() and the borders
FilterPicture ==
  /\ at[Filter] = "filter"
  /\ filtered' = TRUE
  /\ Goes(Filter, "done")
  /\ UNCHANGED <<rows, life, lpf_running, start_lpf, end_lpf, level_set, start,
                 recodes>>

EndFilter ==
  /\ at[Filter] = "done"
  /\ end_lpf' = end_lpf + 1
  /\ Goes(Filter, "top")
  /\ UNCHANGED <<rows, life, lpf_running, start_lpf, level_set, filtered, start,
                 recodes>>

FilterStep == FilterTop \/ FilterStart \/ SetLevel \/ FilterPicture \/ EndFilter

-----------------------------------------------------------------------------
(* thread_encoding_proc(); encode_mb_row() in the caller's thread *)

ThreadTop(t) ==
  /\ at[t] = "top"
  /\ Goes(t, IF multi THEN "idle" ELSE "exit")
  /\ UNCHANGED <<rows, life, filter, start, recodes>>

ThreadStart(t) ==
  /\ at[t] = "idle"
  /\ start[t] > 0
  /\ start' = [start EXCEPT ![t] = @ - 1]
  /\ row' = [row EXCEPT ![t] = t]
  /\ Goes(t, IF multi THEN "test" ELSE "exit")
  /\ UNCHANGED <<life, filter, col, current_mb_col, end, encoded, recodes>>

\* The condition of the loop over the rows
TestRow(t) ==
  /\ at[t] = "test"
  /\ IF row[t] < Rows
       THEN Goes(t, "mb") /\ col' = [col EXCEPT ![t] = 0]
       ELSE Goes(t, IF t = 0 THEN "wait" ELSE "top") /\ UNCHANGED col
  /\ UNCHANGED <<life, filter, row, current_mb_col, end, encoded, start, recodes>>

\* "set previous MB done"
StartMb(t) ==
  /\ at[t] = "mb"
  /\ current_mb_col' = [current_mb_col EXCEPT ![row[t]] = col[t] - 1]
  /\ Goes(t, "spin")
  /\ UNCHANGED <<life, filter, row, col, end, encoded, start, recodes>>

\* Mutant of MustSpin: the macroblock above is enough.
MustSpinLess(t) ==
  /\ row[t] > 0
  /\ col[t] % NSync = 0
  /\ col[t] > current_mb_col[row[t] - 1]

MustSpin(t) ==
  /\ row[t] > 0
  /\ col[t] % NSync = 0
  /\ col[t] > current_mb_col[row[t] - 1] - NSync

EncodeMb(t) ==
  /\ at[t] = "spin"
  /\ ~MustSpin(t)
  /\ encoded' = [encoded EXCEPT ![row[t]] = col[t] + 1]
  /\ col' = [col EXCEPT ![t] = @ + 1]
  /\ Goes(t, IF col[t] + 1 < Cols THEN "mb" ELSE "flag")
  /\ UNCHANGED <<life, filter, row, current_mb_col, end, start, recodes>>

\* Mutant of FlagRow: a complete row's column is its last one.
FlagRowShort(t) ==
  /\ at[t] = "flag"
  /\ current_mb_col' = [current_mb_col EXCEPT ![row[t]] = Cols - 1]
  /\ Goes(t, "next")
  /\ UNCHANGED <<life, filter, row, col, end, encoded, start, recodes>>

\* The row is complete: the one below need not stay behind any more.
FlagRow(t) ==
  /\ at[t] = "flag"
  /\ current_mb_col' = [current_mb_col EXCEPT ![row[t]] = Cols + NSync]
  /\ Goes(t, "next")
  /\ UNCHANGED <<life, filter, row, col, end, encoded, start, recodes>>

\* The thread of the last row signals "frame encoding end".
NextRow(t) ==
  /\ at[t] = "next"
  /\ end' = IF row[t] = Rows - 1 THEN end + 1 ELSE end
  /\ row' = [row EXCEPT ![t] = @ + Helpers + 1]
  /\ Goes(t, "test")
  /\ UNCHANGED <<life, filter, col, current_mb_col, encoded, start, recodes>>

RowStep(t) == TestRow(t) \/ StartMb(t) \/ EncodeMb(t) \/ FlagRow(t) \/ NextRow(t)

HelperStep(t) == ThreadTop(t) \/ ThreadStart(t) \/ RowStep(t)

-----------------------------------------------------------------------------
\* What the caller's thread does inside a call
InCall ==
  \/ CreateThread \/ CreateFilterThread
  \/ CreationOfFilterFails \/ UndoFilterJoin
  \/ JoinThread \/ JoinFilter
  \/ ReadPicture
  \/ EncodeFrame \/ RowStep(0) \/ EndRows \/ EncodeAgain
  \/ StartFilter \/ WaitForLevel \/ Pack

\* The application's next call
NextCall == Call \/ CopyReference \/ BeginFrame \/ RemoveThreads

Next ==
  \/ InCall
  \/ NextCall
  \/ FilterStep
  \/ \E t \in Helper : HelperStep(t)

Spec == Init /\ [][Next]_vars

\* The threads run (the spin loops yield); further calls need not come.
FairSpec ==
  /\ Spec
  /\ WF_vars(InCall) /\ WF_vars(FilterStep)
  /\ \A t \in Helper : WF_vars(HelperStep(t))

\* The same with row threads that cannot be created.
CreationFailsSpec ==
  /\ Init
  /\ [][Next \/ CreationOfThreadFails \/ UndoJoin]_vars
  /\ WF_vars(InCall \/ UndoJoin) /\ WF_vars(FilterStep)
  /\ \A t \in Helper : WF_vars(HelperStep(t))

-----------------------------------------------------------------------------
(* Properties *)

\* The caller packs a frame's header when the frame's own level is set, and a
\* picture is read - by the threads that predict from it, for a preview, for
\* PSNR - when it is filtered.  Both are announced by posts of one semaphore:
\* none may be taken for the other, and none be left over from a frame before.
PostsMeanWhatTheySay ==
  /\ at[0] = "pack" => level_set
  /\ \A t \in Encoder : at[t] \in {"mb", "spin"} => filtered
  /\ at[0] \in Reading => filtered

\* A semaphore is posted once for every wait: no end of a frame, no start of a
\* filter or of a thread that has rows, no announcement of the filter is left
\* over for a later frame.  (A thread without rows may be behind.)
NothingLeftOver ==
  /\ end <= 1 /\ (at[0] \in {"app", "begun", "ended", "level"} => end = 0)
  /\ start_lpf <= 1 /\ (start_lpf = 1 => lpf_running \/ ~multi)
  /\ end_lpf <= 2 /\ (end_lpf > 0 => lpf_running)
  /\ \A t \in Helper : t < Rows => start[t] <= 1

\* Every call returns: creation, encoding, the calls that wait, removal.
CallsReturn == at[0] \notin {"app", "exit"} ~> at[0] \in {"app", "exit"}

\* "Get the internal reference frame" (vpxenc.c:1758), to be compared with the
\* decoder's: the encoder copies the filtered picture.
CopyIsFiltered == at[0] = "copy" => filtered

\* The rows are encoded in the order of a wavefront, every time.
WavefrontOrder == INSTANCE Wavefront
  WITH done <- encoded,
       running <- at[0] \in RowPlaces \cup {"wait"}
ImplementsWavefront == WavefrontOrder!Spec
=============================================================================
