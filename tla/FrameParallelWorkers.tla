------------------------ MODULE FrameParallelWorkers ------------------------
(***************************************************************************)
(* The frame workers of the VP9 decoder in frame-parallel mode: each runs  *)
(* frame_worker_hook() in its own thread on a frame of its own, all share  *)
(* one BufferPool, and a frame follows the frames it is predicted from row *)
(* by row (vp9/decoder/vp9_dthread.c, vp9_decoder.c, vp9_decodeframe.c).   *)
(*                                                                         *)
(* The control thread launches frames around the ring and takes them from  *)
(* it in the same order, at any time a worker is done: FrameParallelControl*)
(* says when it really does.  Its cache is left out, and so is the memory  *)
(* behind the slots (SerialDecoder has it).  A frame reads from one        *)
(* reference, once per row of superblocks; rows are counted in pixels as   *)
(* in the code, because the margin of seven pixels is what they are about. *)
(***************************************************************************)
EXTENDS FrameBufferPool

CONSTANTS
  NumWorkers,
  SbRows,      \* rows of superblocks in a picture
  SbSize,      \* pixels in one, 64 in the code
  PredRows,    \* y1: a prediction reads the rows of pixels before this one;
               \* it may lie below the picture, but never near INT_MAX
  Filters,     \* whether frames are loop filtered
  Shows,       \* whether frames are shown
  Failures     \* where a frame may be damaged

ASSUME WorkersAssumption ==
  /\ NumWorkers \in Nat \ {0}
  /\ SbRows \in Nat \ {0}
  /\ SbSize \in Nat \ {0}
  /\ PredRows \subseteq 0 .. 2 * SbRows * SbSize - 7
  /\ Filters \subseteq BOOLEAN
  /\ Shows \subseteq BOOLEAN
  /\ Failures \subseteq {"header", "rows"}

VARIABLES
  pool,             \* BufferPool: the reference counts
  row,              \* RefCntBuffer.row: how far the frame in a slot is ready
  corrupted,        \* RefCntBuffer.buf.corrupted
  owner,            \* RefCntBuffer.frame_worker_owner
  workers,          \* frame_workers with their VP9Decoder
  next_submit, next_output, last_show_frame,  \* vpx_codec_alg_priv
  current           \* observes the reference map after the newest header

bufVars == <<pool, row, corrupted, owner>>
ctlVars == <<next_submit, next_output, last_show_frame>>
frameVars == <<bufVars, workers, ctlVars, current>>

Ids == 0 .. NumWorkers - 1
NextId(w) == (w + 1) % NumWorkers
PrevId(w) == (w + NumWorkers - 1) % NumWorkers

\* A row no wait can ask for: the frame is complete.
INT_MAX == 2 * SbRows * SbSize
NotReady == -1
PixelRows == {NotReady, INT_MAX} \cup {r * SbSize : r \in 0 .. SbRows}

Busy == {"start", "header", "rows", "woken", "asleep", "predict",
         "decoded", "swapped", "failed"}

Worker == [status : Busy \cup {"idle"},
           ref_frame_map : [Slots -> BufIdx],
           next_ref_frame_map : [Slots -> BufIdx],
           new_fb_idx : BufIdx,
           cur_buf : BufIdx,
           ref : BufIdx,                 \* the buffer it is predicted from
           refresh_frame_flags : SUBSET Slots,
           show_frame : BOOLEAN,
           filter_level : BOOLEAN,
           sbRow : 0 .. SbRows,          \* rows of superblocks decoded
           y1 : PredRows \cup {0},
           hold_ref_buf : BOOLEAN,
           frame_context_ready : BOOLEAN,
           need_resync : BOOLEAN,
           received_frame : BOOLEAN,
           had_error : BOOLEAN]

FramesTypeOK ==
  /\ pool \in Pools
  /\ row \in [Bufs -> PixelRows]
  /\ corrupted \in [Bufs -> BOOLEAN]
  /\ owner \in [Bufs -> Ids]
  /\ workers \in [Ids -> Worker]
  /\ next_submit \in Ids /\ next_output \in Ids
  /\ last_show_frame \in BufIdx
  /\ current \in [Slots -> BufIdx]

\* init_decoder().  No buffer has an owner yet: nobody asks for one.
FramesInit ==
  /\ pool = EmptyPool
  /\ row = [b \in Bufs |-> NotReady]
  /\ corrupted = [b \in Bufs |-> FALSE]
  /\ owner = [b \in Bufs |-> 0]
  /\ workers = [w \in Ids |->
       [status |-> "idle", ref_frame_map |-> NoReferences,
        next_ref_frame_map |-> NoReferences, new_fb_idx |-> INVALID_IDX,
        cur_buf |-> INVALID_IDX, ref |-> INVALID_IDX,
        refresh_frame_flags |-> {}, show_frame |-> FALSE,
        filter_level |-> FALSE, sbRow |-> 0, y1 |-> 0, hold_ref_buf |-> FALSE,
        frame_context_ready |-> FALSE, need_resync |-> TRUE,
        received_frame |-> FALSE, had_error |-> FALSE]]
  /\ next_submit = 0 /\ next_output = 0
  /\ last_show_frame = INVALID_IDX
  /\ current = NoReferences

\* The pool after an action that drops references.  The progress, the mark and
\* the owner of a free slot are cleared here; the code leaves them until the
\* next frame in that slot overwrites them, and nobody reads them before.
PoolBecomes(p) ==
  /\ pool' = p
  /\ row' = [b \in Bufs |-> IF p.ref_count[b] = 0 THEN NotReady ELSE row[b]]
  /\ corrupted' = [b \in Bufs |-> p.ref_count[b] # 0 /\ corrupted[b]]
  /\ owner' = [b \in Bufs |-> IF p.ref_count[b] = 0 THEN 0 ELSE owner[b]]

-----------------------------------------------------------------------------
(* The control thread *)

\* decode_one() with vp9_frameworker_copy_context() from the worker before.
\* The first frame of all has nothing to copy.
Launch ==
  LET w == next_submit
      prev == workers[PrevId(w)]
      first == \A v \in Ids : /\ workers[v].status = "idle"
                              /\ workers[v].cur_buf = INVALID_IDX
  IN /\ workers[w].status = "idle"
     /\ ~workers[w].received_frame
     /\ first \/ prev.frame_context_ready
     /\ workers' = [workers EXCEPT
          ![w] = [workers[w] EXCEPT
             !.status = "start",
             !.frame_context_ready = FALSE,
             !.received_frame = TRUE,
             !.had_error = FALSE,
             !.ref_frame_map = IF NumWorkers = 1 THEN @
                               ELSE prev.next_ref_frame_map,
             !.need_resync = IF NumWorkers = 1 THEN @ ELSE prev.need_resync]]
     /\ next_submit' = NextId(w)
     /\ UNCHANGED <<bufVars, next_output, last_show_frame, current>>

\* Mutant of Output: the frame shown before is kept.
OutputKept ==
  LET worker == workers[next_output]
  IN /\ worker.status = "idle"
     /\ worker.received_frame
     /\ workers' = [workers EXCEPT ![next_output].received_frame = FALSE,
                                   ![next_output].show_frame = FALSE,
                                   ![next_output].new_fb_idx = INVALID_IDX]
     /\ next_output' = NextId(next_output)
     /\ last_show_frame' = IF worker.show_frame /\ ~worker.had_error
                             THEN worker.new_fb_idx ELSE last_show_frame
     /\ UNCHANGED <<bufVars, next_submit, current>>

\* decoder_get_frame(): the frame shown before is released.  The flag show_frame
\* stands for !ready_for_new_data as well: a frame is taken once.
Output ==
  LET worker == workers[next_output]
      p == IF last_show_frame = INVALID_IDX THEN pool
           ELSE DecreaseRefCount(pool, last_show_frame, 1)
  IN /\ worker.status = "idle"
     /\ worker.received_frame
     /\ workers' = [workers EXCEPT ![next_output].received_frame = FALSE,
                                   ![next_output].show_frame = FALSE,
                                   ![next_output].new_fb_idx = INVALID_IDX]
     /\ next_output' = NextId(next_output)
     /\ IF worker.show_frame /\ ~worker.had_error
          THEN PoolBecomes(p) /\ last_show_frame' = worker.new_fb_idx
          ELSE UNCHANGED <<bufVars, last_show_frame>>
     /\ UNCHANGED <<next_submit, current>>

-----------------------------------------------------------------------------
(* Following a reference (vp9_dthread.c) *)

\* A broadcast on a worker's stats_cond wakes all that wait for its frame.
Woken(ws, w) ==
  [v \in Ids |->
     IF ws[v].status = "asleep" /\ owner[ws[v].ref] = w
       THEN [ws[v] EXCEPT !.status = "woken"] ELSE ws[v]]

\* Mutant of ReadyRow: the rows that the next loop filter may change count.
ReadyRowEarly(y1) == y1

\* The row a prediction waits for: "Pad 7 more pixels as last 7 pixels of each
\* superblock row can be changed by next superblock row."
ReadyRow(y1) == y1 + 7

\* vp9_frameworker_wait(): the reference is far enough, or its worker has gone
\* on to another frame; else the worker sleeps until that one broadcasts.
FrameworkerWait(w, y1) ==
  LET b == workers[w].ref
      far == row[b] >= ReadyRow(y1)
      left == workers[owner[b]].cur_buf # b
  IN /\ ~corrupted[b]
     /\ workers' = [workers EXCEPT
          ![w].status = IF far \/ left THEN "predict" ELSE "asleep",
          ![w].y1 = y1]
     /\ UNCHANGED <<bufVars, ctlVars, current>>

-----------------------------------------------------------------------------
(* vp9_receive_compressed_data(), in a worker thread *)

\* get_free_fb() and "Reset decoding progress."
Start(w) ==
  LET b == FreeFb(pool)
  IN /\ workers[w].status = "start"
     /\ FreeBufs(pool) # {}
     /\ pool' = GetFreeFb(pool)
     /\ owner' = [owner EXCEPT ![b] = w]
     /\ row' = [row EXCEPT ![b] = NotReady]
     /\ workers' = [workers EXCEPT ![w].status = "header",
                                   ![w].new_fb_idx = b,
                                   ![w].cur_buf = b,
                                   ![w].hold_ref_buf = FALSE]
     /\ UNCHANGED <<corrupted, ctlVars, current>>

\* The headers of an intra frame, or of an inter frame that is predicted from
\* buffer ref: read_uncompressed_header() maps its references, and with early
\* (a stream coded in frame parallel mode) the next worker may take the context
\* once the compressed header is read.  In between nobody else is concerned.
HeaderRead(w, ref, refresh, show, filter, early) ==
  LET worker == workers[w]
      b == worker.new_fb_idx
      intra == ref = INVALID_IDX
      map == IF intra /\ worker.need_resync THEN NoReferences
             ELSE worker.ref_frame_map
      next == NextRefFrameMap(map, refresh, b)
      read == [worker EXCEPT !.status = "rows",
                             !.ref_frame_map = map,
                             !.next_ref_frame_map = next,
                             !.ref = ref,
                             !.refresh_frame_flags = refresh,
                             !.show_frame = show,
                             !.filter_level = filter,
                             !.frame_context_ready = early,
                             !.need_resync = @ /\ ~intra,
                             !.hold_ref_buf = TRUE]
  IN /\ worker.status = "header"
     /\ pool' = TakeHolds(pool, map, refresh, b)
     /\ corrupted' = [corrupted EXCEPT ![b] = FALSE]
     /\ workers' = Woken([workers EXCEPT ![w] = read], w)
     /\ current' = next
     /\ UNCHANGED <<row, owner, ctlVars>>

\* A key frame, the only intra frame that may be shown, refreshes every slot.
IntraFrame(w, refresh, show, filter, early) ==
  /\ show => refresh = Slots
  /\ HeaderRead(w, INVALID_IDX, refresh, show, filter, early)

\* In a damaged stream the frame may name a slot that holds none.  The code does
\* not look, and reads what lies before frame_bufs[]: the frame may fail in its
\* header or in its rows, or go on without following any other frame.
InterFrame(w, s, refresh, show, filter, early) ==
  /\ ~workers[w].need_resync
  /\ workers[w].ref_frame_map[s] = INVALID_IDX => Failures = {"header", "rows"}
  /\ HeaderRead(w, workers[w].ref_frame_map[s], refresh, show, filter, early)

\* show_existing_frame.  cur_buf stays the slot that was given up.
ShowExisting(w, s) ==
  LET b == workers[w].ref_frame_map[s]
  IN /\ workers[w].status = "header"
     /\ b # INVALID_IDX
     /\ pool.ref_count[b] > 0
     /\ PoolBecomes(RefCntFb(pool, workers[w].new_fb_idx, b))
     /\ workers' = [workers EXCEPT
          ![w] = [workers[w] EXCEPT !.status = "swapped",
                           !.new_fb_idx = b,
                           !.ref = INVALID_IDX,
                           !.refresh_frame_flags = {},
                           !.show_frame = TRUE,
                           !.next_ref_frame_map = workers[w].ref_frame_map]]
     /\ UNCHANGED <<ctlVars, current>>

\* decode_tiles(), a row of superblocks of an inter frame: the prediction
\* first waits for its reference.
Predict(w, y1) ==
  /\ workers[w].status = "rows"
  /\ workers[w].sbRow < SbRows
  /\ workers[w].ref # INVALID_IDX
  /\ FrameworkerWait(w, y1)

\* It was woken and looks again.
WaitAgain(w) ==
  /\ workers[w].status = "woken"
  /\ FrameworkerWait(w, workers[w].y1)

\* What decode_tiles() tells after row r: nothing after the first and the last
\* row of a frame that is filtered one row behind.
Tells(filter, r) == ~filter \/ (r > 0 /\ r < SbRows - 1)

\* The row is decoded and the row above is filtered.
DecodeRow(w) ==
  LET worker == workers[w]
      r == worker.sbRow
      tell == Tells(worker.filter_level, r)
      done == [workers EXCEPT ![w].status = "rows", ![w].sbRow = r + 1,
                              ![w].y1 = 0]
  IN /\ \/ worker.status = "predict"
        \/ /\ worker.status = "rows"
           /\ worker.ref = INVALID_IDX
           /\ r < SbRows
     /\ row' = IF tell THEN [row EXCEPT ![worker.cur_buf] = r * SbSize] ELSE row
     /\ workers' = IF tell THEN Woken(done, w) ELSE done
     /\ UNCHANGED <<pool, corrupted, owner, ctlVars, current>>

\* Mutant of LastRows: nobody is told that the frame is complete.
LastRowsUntold(w) ==
  /\ workers[w].status = "rows"
  /\ workers[w].sbRow = SbRows
  /\ workers' = [workers EXCEPT ![w].status = "decoded"]
  /\ UNCHANGED <<bufVars, ctlVars, current>>

\* "Loopfilter remaining rows in the frame."
LastRows(w) ==
  /\ workers[w].status = "rows"
  /\ workers[w].sbRow = SbRows
  /\ row' = [row EXCEPT ![workers[w].cur_buf] = INT_MAX]
  /\ workers' = Woken([workers EXCEPT ![w].status = "decoded"], w)
  /\ UNCHANGED <<pool, corrupted, owner, ctlVars, current>>

\* swap_frame_buffers(), under the lock of the pool.
SwapFrameBuffers(w) ==
  /\ workers[w].status = "decoded"
  /\ PoolBecomes(DropHolds(pool, workers[w].ref_frame_map,
                           workers[w].refresh_frame_flags))
  /\ workers' = [workers EXCEPT ![w].status = "swapped",
                                ![w].ref_frame_map =
                                  workers[w].next_ref_frame_map,
                                ![w].ref = INVALID_IDX,
                                ![w].hold_ref_buf = FALSE]
  /\ UNCHANGED <<ctlVars, current>>

\* A worker without a frame.  What the next frame writes before it reads it is
\* cleared, which the code has no need to do.
Ended(worker) ==
  [worker EXCEPT !.status = "idle",
                 !.ref_frame_map = IF NumWorkers = 1 THEN @ ELSE NoReferences,
                 !.new_fb_idx = IF worker.show_frame THEN @ ELSE INVALID_IDX,
                 !.ref = INVALID_IDX,
                 !.refresh_frame_flags = {},
                 !.filter_level = FALSE,
                 !.sbRow = 0,
                 !.y1 = 0,
                 !.hold_ref_buf = FALSE,
                 !.frame_context_ready = TRUE]

\* Mutant of Finish: the worker drops its reference to a shown frame as well.
FinishShownToo(w) ==
  /\ workers[w].status = "swapped"
  /\ PoolBecomes([pool EXCEPT !.ref_count[workers[w].new_fb_idx] = @ - 1])
  /\ workers' = Woken([workers EXCEPT ![w] = Ended(workers[w])], w)
  /\ UNCHANGED <<ctlVars, current>>

\* The rest of it and "Update progress in frame parallel decode."  A frame that
\* is shown keeps the worker's reference, for the application.
Finish(w) ==
  LET b == workers[w].new_fb_idx
  IN /\ workers[w].status = "swapped"
     /\ PoolBecomes(IF workers[w].show_frame THEN pool
                    ELSE [pool EXCEPT !.ref_count[b] = @ - 1])
     /\ workers' = Woken([workers EXCEPT ![w] = Ended(workers[w])], w)
     /\ UNCHANGED <<ctlVars, current>>

\* The longjmp handler.  The frame is damaged, or refused while the worker
\* waits for an intra frame, or its reference is corrupted.
Fail(w) ==
  LET worker == workers[w]
      freed == IF worker.hold_ref_buf
                 THEN DropHolds(pool, worker.ref_frame_map,
                                worker.refresh_frame_flags) ELSE pool
  IN /\ \/ worker.status = "header" /\ "header" \in Failures
        \/ worker.status = "header" /\ worker.need_resync
        \/ worker.status = "rows" /\ "rows" \in Failures
        \/ /\ worker.status = "woken" \/ (worker.status = "rows" /\ worker.ref # INVALID_IDX)
           /\ corrupted[worker.ref]
     /\ PoolBecomes(DecreaseRefCount(freed, worker.new_fb_idx, 1))
     /\ workers' = [workers EXCEPT ![w].status = "failed",
                                   ![w].ref = INVALID_IDX,
                                   ![w].hold_ref_buf = FALSE]
     /\ UNCHANGED <<ctlVars, current>>

FailedWorker(worker) ==
  [Ended([worker EXCEPT !.show_frame = FALSE]) EXCEPT
                        !.need_resync = TRUE,
                        !.had_error = TRUE]

\* Mutant of HookFails: those that wait for the frame are not woken.
HookFailsUntold(w) ==
  /\ workers[w].status = "failed"
  /\ corrupted' = [corrupted EXCEPT ![workers[w].cur_buf] = TRUE]
  /\ workers' = [workers EXCEPT ![w] = FailedWorker(workers[w])]
  /\ UNCHANGED <<pool, row, owner, ctlVars, current>>

\* frame_worker_hook(): "Signal all the other threads that are waiting for
\* this frame."
HookFails(w) ==
  /\ workers[w].status = "failed"
  /\ corrupted' = [corrupted EXCEPT ![workers[w].cur_buf] = TRUE]
  /\ workers' = Woken([workers EXCEPT ![w] = FailedWorker(workers[w])], w)
  /\ UNCHANGED <<pool, row, owner, ctlVars, current>>

Header(w) ==
  \/ \E refresh \in SUBSET Slots, show \in Shows, early \in BOOLEAN,
        filter \in Filters :
       \/ IntraFrame(w, refresh, show, filter, early)
       \/ \E s \in Slots : InterFrame(w, s, refresh, show, filter, early)
  \/ TRUE \in Shows /\ \E s \in Slots : ShowExisting(w, s)

WorkerStep(w) ==
  \/ Start(w)
  \/ Header(w)
  \/ \E y1 \in PredRows : Predict(w, y1)
  \/ WaitAgain(w)
  \/ DecodeRow(w)
  \/ LastRows(w)
  \/ SwapFrameBuffers(w)
  \/ Finish(w)
  \/ Fail(w)
  \/ HookFails(w)

FramesNext == Launch \/ Output \/ \E w \in Ids : WorkerStep(w)

FramesSpec == FramesInit /\ [][FramesNext]_frameVars

\* A worker thread runs while it is not asleep; whether the application goes
\* on is up to it.
FairFramesSpec == FramesSpec /\ \A w \in Ids : WF_frameVars(WorkerStep(w))

-----------------------------------------------------------------------------
(* Properties *)

\* Workers that took a slot and did not give it up.
Takers == {w \in Ids : workers[w].status \in Busy \ {"start", "failed"}}

\* Workers whose frame waits for decoder_get_frame().
Shown == {w \in Ids : /\ workers[w].status = "idle"
                      /\ workers[w].received_frame
                      /\ workers[w].show_frame
                      /\ ~workers[w].had_error}

\* What a frame in flight holds of a buffer: its map, and what the map names
\* in the slots that the frame replaces.
Held(w, b) ==
  IF ~workers[w].hold_ref_buf THEN 0
  ELSE References(workers[w].ref_frame_map, b)
       + Cardinality({s \in workers[w].refresh_frame_flags :
                        workers[w].ref_frame_map[s] = b})

HeldByAll[b \in Bufs, w \in 0 .. NumWorkers] ==
  IF w = 0 THEN 0 ELSE HeldByAll[b, w - 1] + Held(w - 1, b)

\* In an undamaged stream every count is exactly the references of the newest
\* map, of the frames in flight, of the frames that wait to be taken and of the
\* one the application has, in whatever order the workers take and drop them
\* (vp9_decodeframe.c 1460-1482, swap_frame_buffers()).
RefCountsExact ==
  \A b \in Bufs :
    pool.ref_count[b] =
      References(current, b) + HeldByAll[b, NumWorkers]
      + Cardinality({w \in Takers \cup Shown : workers[w].new_fb_idx = b})
      + IF last_show_frame = b THEN 1 ELSE 0

\* "assert(i < FRAME_BUFFERS);" in get_free_fb(): a worker that begins a frame
\* finds a slot, whatever the other workers and the application hold.
FrameBufferAvailable ==
  (\E w \in Ids : workers[w].status = "start") => FreeBufs(pool) # {}

\* How many rows of pixels of its frame a worker will not touch again.  The
\* filter of a row of superblocks changes the last seven rows above it.
FinalRows(w) ==
  LET r == workers[w].sbRow
      filtered == IF r - 1 < SbRows - 2 THEN r - 1 ELSE SbRows - 2
  IN CASE workers[w].status = "header" -> 0
       [] ~workers[w].filter_level -> r * SbSize
       [] OTHER -> filtered * SbSize - 7

\* A prediction reads a picture that is still referenced, and only rows that
\* the worker which decodes it has finished, filtering included, although it
\* relies on nothing but the row number it was told (vp9_decodeframe.c 1926).
\* Of a frame whose slot holds no picture nothing is said.
PredictedFromFinal ==
  \A w \in Ids :
    workers[w].status = "predict" =>
      /\ pool.ref_count[workers[w].ref] > 0
      /\ \A v \in Ids :
           /\ workers[v].cur_buf = workers[w].ref
           /\ v \in Takers
           /\ workers[v].status \notin {"decoded", "swapped"}
           => FinalRows(v) >= workers[w].y1

\* "frame_worker_owner indicates which FrameWorker owns this buffer": a worker
\* whose frame failed marks no buffer corrupted in which another worker decodes
\* a frame whose own mark was already cleared (vp9_dx_iface.c 343).
CorruptedByOwner ==
  [][\A v, w \in Ids :
       /\ workers[w].status = "failed" /\ workers'[w].status = "idle"
       /\ v \in Takers /\ workers[v].status # "header"
       => workers[v].cur_buf # workers[w].cur_buf]_frameVars

\* A worker sleeps only while the worker that decodes its reference is still to
\* tell it of the rows, or is to fail and say so: no wake-up is missed when a
\* reference is finished, left for another frame or damaged (vp9_dthread.c 91-95,
\* vp9_dx_iface.c 343).
SleepersAreServed ==
  \A w \in Ids :
    workers[w].status = "asleep" =>
      LET b == workers[w].ref
          v == owner[b]
      IN /\ row[b] < ReadyRow(workers[w].y1)
         /\ v # w /\ workers[v].cur_buf = b
         /\ workers[v].status \in {"rows", "woken", "asleep", "predict", "failed"}

\* Every frame that got a slot ends, although workers sleep until others tell
\* them of their rows (vp9_frameworker_wait(), vp9_frameworker_broadcast()).
FramesFinish ==
  \A w \in Ids : workers[w].status = "header" ~> workers[w].status = "idle"
=============================================================================
