---------------------------- MODULE TileThreads ----------------------------
(***************************************************************************)
(* The threads inside a VP9 frame: the decoder (decode_tiles_mt() in       *)
(* vp9/decoder/vp9_decodeframe.c and the error handler of                  *)
(* vp9/decoder/vp9_decoder.c) or the encoder (vp9/encoder/vp9_ethread.c)   *)
(* gives the tiles of a frame to its workers, and then the rows of the     *)
(* loop filter to the same workers, as LoopFilterRows says.                *)
(*                                                                         *)
(* A worker is a process between its launch() and its sync() (see          *)
(* WorkerThread); the last worker's job is run by execute(), on the        *)
(* codec's own thread, which waits for it as for the others.  A tile is    *)
(* one step.  NWorkers is max_threads.  What the code does with a worker   *)
(* that it has not created is left out.                                    *)
(***************************************************************************)
EXTENDS LoopFilterRows, FiniteSets, Functions

CONSTANTS
  TileRows,        \* numbers of tile rows of the encoder's frames
  UnfilteredCols,  \* numbers of tile columns of a decoder's frames without
                   \* loop filter; TileCols are the others'
  MaxTiles,        \* as many tiles as any of the frames has
  Filterings       \* how often the encoder may filter a frame

ASSUME TileAssumptions ==
  /\ TileRows \subseteq Nat \ {0} /\ TileRows # {}
  /\ UnfilteredCols \subseteq Nat \ {0}
  /\ TileCols # {}
  /\ MaxTiles \in Nat
  /\ \A cols \in TileCols \cup UnfilteredCols : cols <= MaxTiles
  /\ \A cols \in TileCols, rows \in TileRows : cols * rows <= MaxTiles
  /\ Filterings \in Nat

VARIABLES
  codec,     \* "decoder" or "encoder"
  at,        \* where the codec's thread is; "app" between frames
  frame,     \* the frame and the variables of the function that has it
  created,   \* pbi->num_tile_workers, cpi->num_workers
  alive,     \* workers that have a thread
  job,       \* the tile workers with their data
  counted,   \* cm->counts: how often each tile's symbols are counted in
  done,      \* how often each tile of the frame was decoded or encoded
  good       \* the last frame was returned as good

tileVars == <<codec, at, frame, created, alive, job, counted, done, good>>
codecVars == <<vars, tileVars>>

Tile == 0 .. MaxTiles - 1
NoTile == -1
NoCounts == [t \in Tile |-> 0]

LeastOf(a, b) == IF a < b THEN a ELSE b

\* The number of threads that the codec creates for a first frame of so many
\* tile columns, and that it uses for a frame: the decoder an even number.
ThreadsCreated(cols) ==
  IF codec = "decoder" THEN NWorkers - (NWorkers % 2) ELSE LeastOf(NWorkers, cols)
num_tile_workers ==
  LeastOf(IF codec = "decoder" THEN NWorkers - (NWorkers % 2) ELSE NWorkers,
          frame.cols)

\* The worker whose data are the encoder's own, so that what it counts is
\* counted in.
OwnData(w) == codec = "encoder" /\ w = created - 1

NoFrame == [cols |-> 0, rows |-> 0, filter |-> 0, buffers |-> <<>>, n |-> 0,
            i |-> 0, corrupted |-> FALSE, final_worker |-> -1, end |-> NoTile]

CodecInit ==
  /\ Init
  /\ codec \in {"decoder", "encoder"}
  /\ at = "app"
  /\ frame = NoFrame
  /\ created = 0
  /\ alive = {}
  /\ job = [w \in Workers |-> [at |-> "ready", tile |-> NoTile,
                               had_error |-> FALSE, counts |-> NoCounts]]
  /\ counted = NoCounts
  /\ done = [t \in Tile |-> 1]
  /\ good = FALSE

\* A frame that is given to threads begins, with the workers that there are.
BeginFrame(cols, rows, filter, place) ==
  /\ at = "app"
  /\ NWorkers > 1 /\ cols > 1
  /\ at' = place
  /\ frame' = [NoFrame EXCEPT !.cols = cols, !.rows = rows, !.filter = filter]
  /\ done' = [t \in Tile |-> IF t < cols * rows THEN 0 ELSE 1]
  /\ counted' = NoCounts
  /\ job' = [w \in Workers |-> [job[w] EXCEPT !.counts = NoCounts]]
  /\ UNCHANGED <<vars, codec, good>>

CreateWorkers(cols) ==
  IF created = 0
    THEN created' = ThreadsCreated(cols) /\ alive' = 0 .. created' - 2
    ELSE UNCHANGED <<created, alive>>

Idle(w) == job[w].at = "ready"

\* launch() of a worker that has no thread does nothing; execute() needs none.
Starts(w, last) == last \/ w \in alive

-----------------------------------------------------------------------------
(* The decoder *)

DecodeTilesMt ==
  /\ codec = "decoder"
  /\ \E cols \in TileCols \cup UnfilteredCols :
       /\ created = 0 \/ LeastOf(ThreadsCreated(cols), cols) <= created
       /\ BeginFrame(cols, 1, IF cols \in UnfilteredCols THEN 0 ELSE 1, "sizes")
       /\ CreateWorkers(cols)

\* "Tile decoder thread creation failed", for worker w: it counts as created.
DecoderCreationFails(w) ==
  /\ codec = "decoder"
  /\ created = 0
  /\ w < ThreadsCreated(0) - 1
  /\ \E cols \in TileCols : BeginFrame(cols, 1, 0, "handler")
  /\ created' = w + 1
  /\ alive' = 0 .. w - 1

\* "Rearrange the tile buffers such that per-tile group the largest ... tile
\* will be decoded in the main thread", which has a group's last tile.
Regrouped(sorted, k) ==
  [p \in DOMAIN sorted |->
     LET start == ((p - 1) \div k) * k + 1
         last == LeastOf(start + k - 1, frame.cols)
     IN IF p = last THEN sorted[start] ELSE sorted[p + 1]]

\* get_tile_buffers(), qsort() by sizes, which may bring any order, and the
\* rearrangement.
GetTileBuffers ==
  /\ at = "sizes"
  /\ \E sorted \in Bijection(1 .. frame.cols, 0 .. frame.cols - 1) :
       frame' = [frame EXCEPT !.buffers = Regrouped(sorted, num_tile_workers)]
  /\ at' = "round"
  /\ UNCHANGED <<vars, codec, created, alive, job, counted, done, good>>

\* "Truncated packet or corrupt tile length", of the packet or of tile n, when
\* the tiles before it may be at work.
Truncated ==
  /\ at = "sizes" \/ at = "round"
  /\ at' = "handler"
  /\ UNCHANGED <<vars, codec, frame, created, alive, job, counted, done, good>>

\* Mutant of FinalWorker: the last tile of the round, not of the picture.
FinalWorkerOfRound(col) ==
  IF frame.n = frame.cols - 1 THEN frame.i ELSE frame.final_worker

\* The worker that has the last tile column.
FinalWorker(col) ==
  IF col = frame.cols - 1 THEN frame.i ELSE frame.final_worker

\* The next tile of a round goes to the next worker, the last by execute().
LaunchTile ==
  /\ at = "round"
  /\ LET w == frame.i
         col == frame.buffers[frame.n + 1]
         last == w = num_tile_workers - 1 \/ frame.n = frame.cols - 1
     IN /\ job' = [job EXCEPT ![w] =
                     [@ EXCEPT !.at = IF Starts(w, last) THEN "tile" ELSE "ready",
                               !.tile = col, !.had_error = FALSE]]
        /\ frame' = [frame EXCEPT !.i = w + 1, !.n = @ + 1,
                                  !.final_worker = FinalWorker(col)]
        /\ at' = IF last THEN "sync" ELSE "round"
  /\ UNCHANGED <<vars, codec, created, alive, counted, done, good>>

\* tile_worker_hook().  A failure, also one that leaves it by longjmp(), is
\* a hook that returns 0.
DecodeTile(w) ==
  /\ codec = "decoder"
  /\ job[w].at = "tile"
  /\ LET t == job[w].tile
     IN /\ done' = [done EXCEPT ![t] = @ + 1]
        /\ \E fails \in BOOLEAN :
             job' = [job EXCEPT ![w].at = "ready",
                                ![w].had_error = @ \/ fails,
                                ![w].counts[t] = @ + 1]
  /\ UNCHANGED <<vars, codec, at, frame, created, alive, counted, good>>

\* What sync() of the round's workers says of the frame.
Corrupted ==
  frame.corrupted \/ \E w \in 0 .. frame.i - 1 : job[w].had_error

\* vp9_accumulate_frame_counts() of the workers ws into cm->counts.
Accumulated(ws) ==
  [t \in Tile |-> counted[t] +
     Cardinality(UNION {{w} \X (1 .. job[w].counts[t]) : w \in ws})]

\* Mutant of Counts: the counts of all rounds so far, after every round.
CountsOfRound(over) == Accumulated(0 .. num_tile_workers - 1)

\* "Accumulate thread frame counts" when the tiles are decoded.
Counts(over) ==
  IF over THEN Accumulated(0 .. num_tile_workers - 1) ELSE counted

\* The round's workers are synced; a failure does not keep the next round from
\* being decoded.
SyncRound ==
  /\ codec = "decoder"
  /\ at = "sync"
  /\ \A w \in 0 .. frame.i - 1 : Idle(w)
  /\ LET over == frame.n = frame.cols
     IN /\ frame' = [frame EXCEPT
                       !.corrupted = Corrupted,
                       !.end = IF frame.final_worker = -1 THEN @
                               ELSE job[frame.final_worker].tile,
                       !.final_worker = -1,
                       !.buffers = IF over THEN <<>> ELSE @,
                       !.i = 0]
        /\ counted' = Counts(over)
        /\ at' = IF ~over THEN "round"
                 ELSE IF Corrupted THEN "handler" ELSE "filter"
  /\ UNCHANGED <<vars, codec, created, alive, job, done, good>>

\* Mutant of MayLeave: the handler does not wait.
MayLeaveAtOnce == TRUE

\* "Synchronize all threads immediately"
MayLeave == \A w \in 0 .. created - 1 : Idle(w)

\* The longjmp handler of vp9_receive_compressed_data().
Handler ==
  /\ at = "handler"
  /\ MayLeave
  /\ at' = "app"
  /\ good' = FALSE
  /\ frame' = [frame EXCEPT !.buffers = <<>>]
  /\ UNCHANGED <<vars, codec, created, alive, job, counted, done>>

-----------------------------------------------------------------------------
(* The encoder *)

\* Threads are created for the first frame only.
EncodeTilesMt ==
  /\ codec = "encoder"
  /\ \E cols \in TileCols, rows \in TileRows, filter \in 0 .. Filterings :
       /\ created = 0 \/ LeastOf(NWorkers, cols) <= created
       /\ BeginFrame(cols, rows, filter, "launch")
       /\ CreateWorkers(cols)

\* "Tile encoder thread creation failed": nobody has set a jump, so the encoder
\* goes on with a worker that has no thread.
EncoderCreationFails(w) ==
  /\ codec = "encoder"
  /\ created = 0
  /\ \E cols \in TileCols, rows \in TileRows, filter \in 0 .. Filterings :
       /\ BeginFrame(cols, rows, filter, "launch")
       /\ created' = ThreadsCreated(cols)
       /\ w < created' - 1
       /\ alive' = (0 .. created' - 2) \ {w}

LaunchTiles ==
  /\ at = "launch"
  /\ LET w == frame.i
         last == w = num_tile_workers - 1
     IN /\ job' = [job EXCEPT ![w] =
                     [@ EXCEPT !.at = IF Starts(w, last) THEN "tile" ELSE "ready",
                               !.tile = w]]
        /\ frame' = [frame EXCEPT !.i = w + 1]
        /\ at' = IF last THEN "sync" ELSE "launch"
  /\ UNCHANGED <<vars, codec, created, alive, counted, done, good>>

\* enc_worker_hook(), one tile of it.  The hook returns 0 when it is over.
EncodeTile(w) ==
  /\ codec = "encoder"
  /\ job[w].at = "tile"
  /\ LET t == job[w].tile
         over == t + created >= frame.cols * frame.rows
     IN /\ done' = [done EXCEPT ![t] = @ + 1]
        /\ counted' = IF OwnData(w) THEN [counted EXCEPT ![t] = @ + 1]
                      ELSE counted
        /\ job' = [job EXCEPT
                     ![w].at = IF over THEN "ready" ELSE "tile",
                     ![w].tile = IF over THEN NoTile ELSE t + created,
                     ![w].had_error = @ \/ over,
                     ![w].counts[t] = IF OwnData(w) THEN @ ELSE @ + 1]
  /\ UNCHANGED <<vars, codec, at, frame, created, alive, good>>

\* "Encoding ends", and "Accumulate counters", of all workers but the last.
SyncTiles ==
  /\ codec = "encoder"
  /\ at = "sync"
  /\ \A w \in 0 .. num_tile_workers - 1 : Idle(w)
  /\ counted' = Accumulated(0 .. num_tile_workers - 2)
  /\ at' = "filter"
  /\ UNCHANGED <<vars, codec, frame, created, alive, job, done, good>>

-----------------------------------------------------------------------------
(* The loop filter *)

\* vp9_loop_filter_frame_mt(); the encoder looks for a level and then filters.
FilterFrame ==
  /\ at = "filter"
  /\ frame.filter > 0
  /\ LoopFilterRowsMt(LeastOf(created, frame.cols))
  /\ at' = "filtering"
  /\ frame' = [frame EXCEPT !.filter = @ - 1]
  /\ UNCHANGED <<codec, created, alive, job, counted, done, good>>

FilterStep ==
  /\ LaunchRows \/ \E w \in Workers : WorkerStep(w)
  /\ UNCHANGED tileVars

FrameIsFiltered ==
  /\ SyncRows
  /\ at' = "filter"
  /\ UNCHANGED <<codec, frame, created, alive, job, counted, done, good>>

EndFrame ==
  /\ at = "filter"
  /\ frame.filter = 0
  /\ at' = "app"
  /\ good' = TRUE
  /\ UNCHANGED <<vars, codec, frame, created, alive, job, counted, done>>

-----------------------------------------------------------------------------
\* The codec's thread inside a frame
InFrame ==
  \/ GetTileBuffers \/ Truncated \/ LaunchTile \/ SyncRound \/ Handler
  \/ LaunchTiles \/ SyncTiles
  \/ FilterFrame \/ FrameIsFiltered \/ EndFrame

TileStep(w) == DecodeTile(w) \/ EncodeTile(w)

CodecNext ==
  \/ DecodeTilesMt \/ EncodeTilesMt
  \/ InFrame
  \/ \E w \in Workers : TileStep(w)
  \/ FilterStep

CodecSpec == CodecInit /\ [][CodecNext]_codecVars

\* The threads run; frames need not keep coming.
FairCodecSpec ==
  /\ CodecSpec
  /\ WF_codecVars(InFrame)
  /\ \A w \in Workers : WF_codecVars(TileStep(w))
  /\ WF_codecVars(LaunchRows /\ UNCHANGED tileVars)
  /\ \A w \in Workers : WF_codecVars(WorkerStep(w) /\ UNCHANGED tileVars)

\* The same when a thread of the tile workers cannot be created.
CreationFailsSpec ==
  /\ CodecInit
  /\ [][\/ CodecNext
        \/ \E w \in Workers : DecoderCreationFails(w) \/ EncoderCreationFails(w)
       ]_codecVars

-----------------------------------------------------------------------------
(* Properties *)

\* The frame's tiles are each worked on once, all of them when the frame is
\* returned as good, none after it is over - not either when the decoder leaves
\* by longjmp() with workers at work -, and no failure of a tile, which its
\* worker leaves in had_error, is lost.
TiledFrameService == INSTANCE TiledFrame
  WITH running <- at # "app",
       failed <- /\ codec = "decoder"
                 /\ frame.corrupted \/ \E w \in 0 .. frame.i - 1 : job[w].had_error
ImplementsTiledFrame == TiledFrameService!Spec

\* The symbols of every tile are counted once when the probabilities are
\* adapted, or packed, from the counts of the frame.
CountsComplete ==
  at = "filter" => \A t \in Tile : counted[t] = 1 \/ t >= frame.cols * frame.rows

\* The data of the next frame in a packet are looked for at the end of the last
\* tile column, whichever worker had it and in whichever round.
EndIsOfLastTile ==
  codec = "decoder" /\ at = "filter" => frame.end = frame.cols - 1

\* decode_tiles_mt(), vp9_encode_tiles_mt() and the loop filter return.
FramesEnd == at # "app" ~> at = "app"
=============================================================================
