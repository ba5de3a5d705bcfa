# A verification project for libvpx

TLA+ models of the concurrent and stateful parts of libvpx, the VP8 and VP9
codec library, with TLC configurations that check them on small instances and
proofs that TLAPS checks for every instance. Paths below are relative to `src/`.

Contents: [inventory](#1-inventory) · [plan](#2-plan) · [modules](#3-modules) ·
[runs](#4-runs-and-bounds) · [fairness](#5-fairness) · [proofs](#6-proofs) ·
[disagreements found](#7-disagreements-between-the-code-and-what-is-said-of-it) ·
[not modelled](#8-what-is-not-modelled)

## 1. Inventory

libvpx is four codecs behind one interface: a decoder and an encoder for VP8 and
for VP9. Most of its lines are arithmetic on pixels. What can go wrong in ways
that its test vectors hardly reach is elsewhere: in reference-counted frame
buffers that outlive the frame that filled them, in worker threads that follow
one another row by row, and in an error handling by `longjmp` that leaves a
frame at any point of it.

### The decoders

| Component | State | Operations | Interacts with | Hard behaviour | What makes it correct |
|---|---|---|---|---|---|
| VP9 worker threads, `vp9/common/vp9_thread.c` | `status_`, `had_error`, a mutex, one condition variable, the thread | `init`, `reset`, `sync`, `launch`, `execute`, `end`, `thread_loop` | Every user of threads in VP9 calls it | two threads on one condition variable; `had_error` written outside the mutex; creation may fail | one job at a time, each run once, failures kept, every call returns |
| VP9 frame buffer pool, `vp9/common/vp9_onyxc_int.h`, `vp9_frame_buffers.c` | `frame_bufs[]` with `ref_count` and `priv`; the list of internal buffers or the application's | `get_free_fb`, `ref_cnt_fb`, `decrease_ref_count`, get and release callbacks | shared by the decoder(s), the application reads from it | counts taken in one function and given back in another, across frames and threads | counts exact, memory given back exactly once when its last user is gone, a free slot for every frame |
| VP9 decoder, serial, `vp9/vp9_dx_iface.c`, `vp9/decoder/vp9_decoder.c`, `vp9_decodeframe.c` | reference map and the next one, new buffer, `hold_ref_buf`, `need_resync`, `ready_for_new_data` | `decoder_decode`, `decoder_get_frame`, `vp9_receive_compressed_data`, the headers, the error handler | the pool; a `VP9Worker` that it executes | a frame may fail at any phase | pictures a frame is decoded from, or the application looks at, are still there |
| VP9 decoder, frame-parallel control, `vp9/vp9_dx_iface.c` | the ring indices, `available_threads`, the cache, `flushed`, `need_resync` | `decode_one`, `wait_worker_and_cache_frame`, `release_last_output_frame`, `check_resync` | launches and syncs the frame workers, copies contexts between them | frames end in any order and leave in one; two ways out; errors found late | order, no frame lost or shown twice, no thread lost, every call returns |
| VP9 decoder, frame workers, `vp9/decoder/vp9_dthread.c`, `vp9_decodeframe.c` | `RefCntBuffer.row`, `.corrupted`, `.frame_worker_owner`, `cur_buf`, `stats_mutex`, `stats_cond` | `vp9_frameworker_wait`, `..._broadcast`, `..._copy_context`, `frame_worker_hook` | one another, through the pool | prediction from a picture in progress; failure of a frame others wait for | only final rows are read; nobody sleeps for ever |
| VP9 multi-threaded loop filter, `vp9/common/vp9_thread_common.c` | `cur_sb_col[]`, `num_workers` | `sync_read`, `sync_write`, `loop_filter_rows_mt` | the worker threads of decoder or encoder | a wavefront told by condition variables, kept over frames of other sizes | order of the wavefront; every row filtered; it ends |
| VP9 tile workers, `vp9/decoder/vp9_decodeframe.c` | tile buffers sorted by size, `tile_workers[]` with their data and counts | `decode_tiles_mt`, `tile_worker_hook`, the error handler | the worker threads, then the loop filter on the same threads | a damaged size leaves by `longjmp` while tiles are being decoded; more tiles than threads go in rounds, in the order of their sizes | all tiles decoded once, none after its frame; every failure marks the frame; counts complete; the end of the data is that of the last column |
| VP9 superframe index, `vp9/decoder/vp9_decoder.c:430` | none | parse and write | `decoder_decode`, `encoder_encode` | widths; a frame that ends like an index | what is written is parsed back |
| Boolean coders, `vp9/decoder/vp9_reader.c`, `vp8/decoder/dboolhuff.c` and the writers | a window of bits, range, count | read and write a bit, fill | tokens and headers | carry, end of data | what is written is read back |
| VP8 decoder, `vp8/decoder/onyxd_if.c` | four buffers with counts; last, golden, alt-ref and new index | `swap_frame_buffers`, `ref_cnt_fb`, `check_fragments_for_errors` | its threads | flags copy references in an order; missing and damaged frames | counts exact; no reference written to |
| VP8 decoder threads, `vp8/decoder/threading.c` | `mt_current_mb_col[]`, semaphores, `b_multithreaded_rd` | `mt_decode_mb_rows`, `vp8mt_decode_mb_rows`, create and remove threads | the decoder | rows follow by spinning; the end of a frame is told by the last row only | the wavefront; no thread of the last frame runs into the next |
| VP8 error concealment, `vp8/decoder/error_concealment.c` | motion vectors of the last frame | extrapolate | the decoder | none that is concurrent | – |

### The encoders

| Component | State | Operations | Interacts with | Hard behaviour | What makes it correct |
|---|---|---|---|---|---|
| VP9 lookahead, `vp9/encoder/vp9_lookahead.c` (and VP8's) | a ring with `sz`, `read_idx`, `write_idx` | push, pop, peek, depth | encoder, two-pass | one entry kept for a look back; a push that fails half-way | first in, first out; a peek never reads what is being written |
| VP9 tile threads, `vp9/encoder/vp9_ethread.c` | `workers[]`, created for the first frame; counts of their own but for the last | `vp9_encode_tiles_mt`, `enc_worker_hook` | the worker threads, then the loop filter on the same threads, several times a frame | threads take every `num_workers`-th tile; creation may fail | every tile once, counts complete |
| VP9 reference management, `vp9/encoder/vp9_encoder.c` | last, golden, alt-ref indices, the pool | `vp9_update_reference_frames`, alt-ref insertion | pool, lookahead, bitstream flags | hidden frames, overlays, layers | encoder and decoder keep the same references |
| VP9 rate control and two-pass, `vp9_ratectrl.c`, `vp9_firstpass.c` | buffer levels, group structure | – | encoder | floating-point heuristics | buffer model within bounds |
| VP9 layers, cyclic refresh, `vp9_svc_layercontext.c`, `vp9_aq_cyclicrefresh.c` | per-layer contexts, refresh map | save and restore of contexts | encoder | what a layer's context forgets | pattern of references; a block is refreshed once a cycle |
| VP9 denoiser, quantisation, resizing | running averages | – | encoder | – | – |
| VP8 encoder threads, `vp8/encoder/ethreading.c` | `mt_current_mb_col[]`, three kinds of semaphores | encode rows, filter the last frame | encoder | the filter thread is waited for in three places with one semaphore | the wavefront; every post meets its wait |
| VP8 encoder, `vp8/encoder/onyx_if.c` | references, lookahead, rate control | – | – | heuristics | – |
| Mode decision, transforms, reconstruction, assembly kernels | none that outlives a block | – | – | – | equal to the C reference, which the unit tests compare |

### Around them

| Component | State | What it does |
|---|---|---|
| Codec interface, `vpx/src/vpx_codec.c`, `vpx_decoder.c`, `vpx_encoder.c` | `ctx->iface`, `ctx->priv`, `ctx->err` | the life of a context, argument checks, dispatch |
| Set-reference and option controls, postprocessing | options; the reference that is replaced | `vp9_set_reference_dec` takes a slot of the pool |
| Spatial layer wrapper, `vpx/src/svc_encodeframe.c` | options, lists | above the public interface |
| One-time initialisation, `vpx_ports/vpx_once.h` | function pointers | a wrapper over `pthread_once` |
| Memory wrapper, scaling and borders | – | aligned allocation; pixel copies |
| Applications, examples, build, tests, third-party code | – | not part of the codecs |

How they interact: the application calls the codec interface from one thread. In
serial mode `decoder_decode` executes the frame's hook on that thread. Within a
frame, tiles and loop filter rows run on `VP9Worker`s. In frame-parallel mode the
frame's hook itself runs on a `VP9Worker`, several at once, with one
`BufferPool` between them and progress told through the buffers. The hazards of
each part, each at its line, are in `PROJECT.json`.

## 2. Plan

Order: what all the rest stands on first (threads, pool), then the decoder that
most users run, then the mode in which threads and pool meet, then the encoder
and VP8.

| Step | Modules | Composes | Abstract specification | State |
|---|---|---|---|---|
| 1 | `WorkerThread` | – | `WorkerService`: one sequential object | done, proved |
| 2 | `FrameBufferPool`, `SerialDecoder` | the pool in the decoder | – (counts are compared with what the state owes) | done but for the set-reference control, proved |
| 3 | `LoopFilterRows` | – | `Wavefront`: the order of blocks, without threads | done, proved |
| 4 | `FrameParallelControl` | – | – (output order as an action property) | done, proved |
| 5 | `FrameParallelWorkers` | the pool in the workers | – | done without memory, proved |
| 6 | `TileThreads` | the worker's service, `LoopFilterRows` | `TiledFrame`: one frame's tiles, and `Wavefront` | done, proved |
| 7 | `Vp8DecoderThreads`, `Vp8EncoderThreads` | – | `Wavefront` again | done, proved |
| 8 | `Vp8References` | encoder and decoder, and what is between them | `Vp8ReferenceValues`: references that are values | done, proved |
| 9 | `Vp9Lookahead`, `Vp9Encoder` | lookahead, pool, a decoder's reference map | `FrameQueue`: a bounded queue | done for one pass without layers, proved |
| 10 | two-pass and layers in `Vp9Encoder`; set-reference control in `SerialDecoder`; superframe index and boolean coders at small widths | – | a round trip | next |
| 11 | control and workers of the frame-parallel mode together | steps 4 and 5 | – | last: the product is large |

Theorems, in the order they are worth proving: the worker, the loop filter,
the tile threads, the VP9 encoder, the VP8 threads, the VP8 references, the serial
decoder's frame buffers, the frame-parallel control and its workers (done, section
6). No module uses `RECURSIVE`, so that all can be proved about.

## 3. Modules

Every module names functions, fields and constants as the C code does;
`PROJECT.json` gives the lines of each definition. An operator whose comment
begins "Mutant of" is a faulty variant of the operator after it, used to show
that a property would notice the fault.

### WorkerThread, WorkerService (theorems in WorkersProofs)

`vp9/common/vp9_thread.c`: a client that calls any function of
`VP9WorkerInterface` in any order, and the thread that `reset()` creates. The two
program counters `mainPc` and `threadPc` name the places where another thread may
come in between: each `pthread_mutex_lock`, each wait on the condition, the hook,
and the unlocked accesses in `reset()`. What happens inside a critical section
and is invisible outside is one action. `had_error |= !hook()` is two steps, a
load (`loaded`) and a later store, because the compiler may load before the call
and `reset()` clears the flag without the mutex. Allocation and thread creation
may fail. `pending`, `unsynced` and `failures` are history variables for the
properties. The client is assumed to be one thread, as every caller is.

`WorkerService` is the promise of the header: alive or not, busy or not, failed
or not, with an answer given only when idle. `Service` in `WorkerThread` is the
refinement mapping (`alive <- status_ # NOT_OK`, `busy <- status_ = WORK`,
`failed <- had_error`).

### FrameBufferPool

Operators that take a pool and return the pool a function leaves, so that a
handler that makes several calls is one action: `GetFreeFb`, `RefCntFb`,
`DecreaseRefCount`, `ReleaseFbCb`, `GetFrameBuffer`, `TakeHolds` and `DropHolds`
(the loops over `refresh_frame_flags` in `read_uncompressed_header()` and in
`swap_frame_buffers()` or the error handler). A slot keeps the `priv` pointer
of memory it gave back, as in the code. The size of a buffer and the growth of
the internal list are left out.

### SerialDecoder, SerialDecoderProofs

One action per phase of `vp9_receive_compressed_data()`: `DecodeOne` (release of
the last frame's memory, `get_free_fb`), the header (`IntraFrame`, `InterFrame`,
`ShowExisting`, their refusals), `GenerateRefMap`, `DecodeTiles`,
`SwapFrameBuffers`, and `GetFrame` for `decoder_get_frame()`. `Damaged` is the
`longjmp` at the end of a phase in `FailPhases`, followed by the whole handler
and the end of `frame_worker_hook()`. A frame is what its header says of references; sizes,
contexts and pixels are left out. An inter frame may name a slot
that holds no picture (`INVALID_IDX`), which `read_uncompressed_header()` does not look at:
after an error an intra-only frame fills only some slots. What the code then reads lies before
`frame_bufs[]`; in the model the decoder notices in the header, while it decodes, or not at all
(`NamesMissing`). In undamaged streams (`FailPhases` empty) no frame does this. A frame without size
changes gets memory at `setup_frame_size()` whether the callback reuses or
reallocates.

### LoopFilterRows, Wavefront (theorems in TileThreadsProofs)

Each worker is at `read` (`sync_read`), `wait`, `filter` or `write`
(`sync_write`). `LoopFilterRowsMt` begins a frame with some number of tile
columns and keeps `lf_sync->num_workers` as the code does; `LaunchRows` and
`SyncRows` use the worker's service: a launch gives a job, a sync waits for its
end. `Wavefront` is the order alone. `filtered` counts the blocks done in a row,
`WavefrontOrder` maps it to `done`.

### FrameParallelControl, FrameParallelControlProofs

The application's thread: `at` is `ready` between calls, `decode` in the loop
over the frames of a superframe, `get` in the loop of `decoder_get_frame()`. A
worker is a record of its `VP9Worker`, its `FrameWorkerData` and the few fields
of its `VP9Decoder` that the control thread reads. The worker's steps are only as
many as the control thread can tell apart: header read, decoded, failed.
Decisions:

- the module starts after `init_decoder()`, which the first call makes;
- the wait for the worker in `launch()` and the writes of `decode_one()` before it are one
  step. While the count of free workers is right the worker is idle by then and nobody else
  reads what is written. When `available_threads` has drifted (item 3 of section 7) the worker
  may still run
  and read its data as they are overwritten: that race has no model;
- `outRefs` counts, per frame, the references kept for the application, instead
  of counts per slot;
- `data` is the frame found next in the superframe, or an index whose sizes do
  not fit.

`Failures` names what may go wrong: a damaged header or body, data left over
after the frame, no memory for the frame's data, a bad superframe index.

### FrameParallelWorkers (theorems in WorkersProofs)

The other side: `vp9_receive_compressed_data()` in each worker thread, with
`Launch` and `Output` standing for the control thread. Rows are pixels as in the
code, because the seven-pixel margin of `vp9_frameworker_wait()` is what
`PredictedFromFinal` is about; `FinalRows` says which rows of a picture in
progress are final, from the loop filter's side. Decisions:

- a broadcast wakes exactly those that sleep for the owner's frame; a woken
  worker tests again (`WaitAgain`);
- the header phases are one step: between them nobody else is concerned;
- one reference per frame and one prediction per row of superblocks;
- in a damaged stream an inter frame may name a slot that holds no picture, as in
  `SerialDecoder`. It may fail in its header or in its rows, or go on and wait for nobody, since
  what the code takes for the owner of such a reference is none of the workers';
- `Output` may come at any time the worker is done, which includes every time
  `FrameParallelControl` allows; the cache and the memory behind the slots are left
  out;
- `max_threads` is zero inside a frame worker, so the loop filter runs in the
  worker, one row of superblocks behind;
- fields that the next frame overwrites before anyone reads them (of a free slot,
  of an idle worker) are cleared, which only merges states;
- `show_frame` stands for `!ready_for_new_data` too, since a frame is taken
  once.

### TileThreads, TiledFrame, TileThreadsProofs

The threads inside a VP9 frame, of the decoder or of the encoder (`codec`, chosen
once), extending `LoopFilterRows`: a frame's tiles are given to the workers, then the
rows of the loop filter to the same workers. `at` is where the codec's thread is,
`frame` holds the variables of the function that has the frame, `job` the
workers with their data. `Regrouped` is the rearrangement of the sorted tile buffers;
sorting by size may bring any order, so `GetTileBuffers` takes any. A tile that fails,
by its data or by the worker's own `longjmp`, is a hook that returns 0;
`Truncated` is the `longjmp` of the codec's thread, at any tile of any round, with
workers at work, and `Handler` the handler of `vp9_receive_compressed_data()`.
Decisions:

- a worker is launched and synced as `WorkerService` says; the last worker's job, run
  by `execute()` on the codec's thread, is a process like the others, for which the codec's
  thread waits as for them; `launch()` of a worker that has no thread does nothing
  (`Starts`);
- a tile is one step; the encoder's worker goes on by itself to its next tile;
- the encoder filters a picture up to `Filterings` times, since the search for a filter
  level does (`vp9/encoder/vp9_picklpf.c`), with all rows each time: no speed
  feature selects `LPF_PICK_FROM_SUBIMAGE`, whose rows would begin in the
  middle of the picture;
- an encoder whose frame has more tile columns than its first multi-threaded one uses
  workers that it never created (`vp9/encoder/vp9_ethread.c:66` and `:112`); what
  memory it then reads has no model, and a guard of `EncodeTilesMt` (and of
  `DecodeTilesMt` after a failed creation) leaves it out;
- tiles are numbered up to `MaxTiles`, as many as any frame has; the numbers that a
  frame does not use count as done when it begins;
- `enc_worker_hook()` returns 0, an error by `vp9_thread.h`, which nobody looks at.

`TiledFrame` is the promise: every tile once, none after the frame, good only if
none failed. `failed` is mapped to what the decoder's workers still hold in
`had_error` and what it has collected in `corrupted`, so that a failure overwritten
before it is collected is a step the promise does not have.

### Vp8DecoderThreads, MCVp8DecoderThreads, Vp8DecoderThreadsProofs

`vp8/decoder/threading.c`: the main thread and `Helpers` threads take every so
many-th row and spin on `mt_current_mb_col` of the row above, told of every `NSync`
columns. `start` and `end` are counts of semaphores. A macroblock with all that is
done for it, the delayed loop filter included, is one step. The counters are
volatile without barriers; the stores are seen in program order, as on x86.
`Frames` gives the numbers of rows and of token partitions a frame may have. A frame of
the same shape may come at any time; `Hurried` says whether one of another shape may come
before every thread has taken its start and left its loop, which the code allows. That
it may not is the one assumption of the passing run and of the theorems; two configurations
show what happens when it does. `MaxStarts` bounds the starts that a thread without
rows may be behind; a thread with rows is never behind. Threads are removed at the end (`RemoveThreads`).

### Vp8References, Vp8ReferenceValues, Vp8ReferencesProofs

The references of encoder and decoder with a packet between them. The encoder has
flags on its buffers (`Mark`), the decoder counts (`RefCntFb`); both are translated
operation by operation. A packet may be lost, cut short (no picture, but perhaps a
`show_frame` from its header) or damaged (any flags, also invalid copy flags, after
which `vp8_decode()` returns no error). A frame decodes to the encoder's picture if its
references hold what the encoder's held, else to garbage. `astray` says in which
references a fault may show. `Vp8ReferenceValues` knows three pictures on each side
and no buffer; `ImplementsValues` maps indexes to pictures. The encoder never
sets `copy_buffer_to_gf`; its `assert(!cm->copy_buffer_to_arf)`
(`vp8/encoder/onyx_if.c:3224`) fails in a debug build when golden and alternate are
both refreshed by an inter frame that is not resilient, and does nothing otherwise.

### Vp8EncoderThreads, Vp8EncoderThreadsProofs

`vp8/encoder/ethreading.c` with its callers: creation of the row threads and of the
filter thread, encoding of a frame (up to `Recodes` times again), the filter thread that
works on after the call returned, and every place that waits for it: the next
frame, a change of the configuration, a preview, a scaled source. The one semaphore
`h_event_end_lpf` is posted twice a frame, for the level and for the picture, and what
a wait took it for is what `PostsMeanWhatTheySay` is about. `CreationFailsSpec` has the
failed creation of a row thread; `FairSpec` has that of the filter thread.

### FrameQueue, Vp9Lookahead, Vp9Encoder, Vp9EncoderProofs

`Vp9Lookahead` is the ring with its indices, `FrameQueue` the queue it promises to
be: of bounded length, taken from when full or when flushed, with the last
picture still readable by a peek at -1. `Vp9Encoder` extends it with
`encoder_encode()`, the choice of the next source, the placing of key frames, golden
frames and alternate references by the one-pass VBR rate control, the exchange of golden
and alternate after an overlay (`PreserveExistingGf`, `RefreshMask`), the pool's
counts, the hidden frames that wait for a shown one (`pendingFrames`), and a decoder that
reads only the packets. Image n is picture n, and -n when encoded ahead of its turn.
The application may force key frames and updates of references
(`ForcedUpdates`) with any image.

A call of `encoder_encode()` is several steps: `Begin`, which fails if the hidden frames
that wait leave less than half of the output buffer (`Jammed`); then one step per frame,
which takes some of what the call has left of the buffer (`Write`); and the end, when there
is nothing to encode (`Return`) or when less than half of the buffer is left
(`ReturnFull`). So a call may end with images in the lookahead and with a hidden frame
that waits, and the application has to call again, as `vpx/vpx_encoder.h:900` tells it. Decisions:

- a frame takes any size in `FrameSizes` that fits what is left. The code says of its own
  test of the buffer "this is a minimal check, the underlying codec doesn't respect the
  buffer size anyway" (`vp9/vp9_cx_iface.c:1008`); a frame that does not fit has no model. The
  index of a superframe counts as part of the shown frame;
- the buffer keeps its size, as the pictures do;
- packets are fetched with `vpx_codec_get_cx_data()`, and not given to a callback
  (`output_cx_pkt_cb`), which never lets a hidden frame wait.
 `SendLargeImage`, only in `LargeImagesSpec`, is a push
whose allocation fails half-way.

## 4. Runs and bounds

State counts are of TLC's complete search.

| Run | States | Shows |
|---|---|---|
| `worker` | 1 452 | All of `WorkerThread`, spurious wake-ups included. No constant bounds it: the state space is finite as it stands. |
| `serial_damaged` | 1 079 703 | Damage at every phase, slots that hold no picture, and memory that runs out because of it: counts and memory exact until the first damage, the shown image intact, and no frame decoded from a slot whose memory is gone, or over it. |
| `tile_threads` | 54 089 | Decoder and encoder, 3 threads, 4 tile columns and up to 2 tile rows, tiles and sizes that fail anywhere, then 5 rows of 7 superblocks told of every 4th, filtered up to twice: implements `TiledFrame` and `Wavefront`, counts complete, the right end of the data, every frame ends. |
| `frame_parallel_clean` | 499 816 | 3 workers, cache of 2, superframes up to 3, 5 frames: order, exact references, a flush leaves nothing. |
| `frame_parallel_damaged` | 245 940 | 2 workers, all five failures: no call hangs, and no thread is lost to later frames unless a frame is launched over another. |
| `frame_workers_rows` | 396 580 | 2 workers, frames of 4 superblock rows, filtered one row behind or not filtered, each predicted from the frame in progress: only final rows are read and every frame ends. |
| `frame_workers_damaged` | 5 813 334 | Frames that fail anywhere, name a slot without a picture, are shown or show an earlier one: those that wait are woken, and no slot is predicted from that was given to another frame. |
| `loop_filter_fewer_tiles` | violated | see section 7 |
| `vp8_decoder_threads` | 79 623 | 4 threads, frames of 2 and of 5 rows and of every number of partitions: implements `Wavefront`, every frame and the removal of the threads end, no semaphore is left over. |
| `vp8_references` | 236 359 | 4 buffers, 3 pictures, lost, cut and damaged frames: a buffer is always free, encoder and decoder agree but for what a fault may show, the shown picture is intact, implements `Vp8ReferenceValues`. |
| `vp8_encoder_threads` | 86 667 | 3 row threads, the filter thread and the caller, one recode, calls between frames, a filter thread that cannot be created: each post meets its wait, calls return, implements `Wavefront`. |
| `vp9_encoder` | 178 901 | Lag 4, 7 images, key frames every 5th and forced, forced updates, an output buffer that stops calls: the decoder agrees, a hidden frame that waits has an image to go with, alternates come before key frames, repeated flushes empty the lookahead and the first without a packet is the last one needed, the lookahead is a queue. The last three except after a hidden frame of more than half of the buffer. |

Why the bounds are enough:

- `REF_FRAMES` 3 or 2 (8 in the code): a frame refreshes none, one, some or all
  slots and several slots may name one buffer; all such cases exist with 2, and with
  3 a map may name three pictures. In `SerialClean.cfg` `FRAME_BUFFERS` is one more than
  references, the least that undamaged streams need: a leak of a single slot shows
  at once. With damage there is one slot to spare, so that several errors fit
  in a behaviour.
- Memory: as many buffers as the application must offer by
  `vpx/vpx_frame_buffer.h`, so that reuse of the wrong one happens.
- `tile_threads`: of 3 threads the decoder uses 2, for 4 tile columns: two rounds,
  in which the last column may be in either and with either worker, and the
  buffers regroup in pairs. The encoder has 4 or 8 tiles on 3 threads: a thread gets
  one tile, two or three. `UnfilteredCols` {2} is the single round. 3 workers
  on 5 rows: each worker gets a second row and the last row's follower wraps; 7
  columns told every 4th: a row ends off the range. `SyncRange` 1 is the
  trivial case, 8 needs pictures of more than 4096 pixels. All filtered frames have the same
  number of tile columns, because the code hangs otherwise (section 7).
- `NumWorkers` 3, cache 2, 5 frames: the ring wraps, the cache fills and empties
  once over, and a superframe is longer than the cache. With failures 2, 1 and 3,
  because each frame has more ways to end.
- `MaxFrames` bounds the frames submitted; `MaxDrift` bounds how far a count that
  is wrong after failures may go before calls stop, 1 being enough to reach every
  decision that depends on it.
- `SbRows` 4: the first row, which is not told of when filtered, the last, which is not
  either, and two in between. `PredRows` with superblocks of 16 pixels: 9 is the last
  row final when row 16 is told of, 26 the first one that is not final when row 32
  is told of.
- `frame_workers_rows` and `frame_workers_damaged` have one map slot, so that each
  frame either replaces the reference that others still read or leaves it.
- VP8 decoder: 4 threads on 5 rows, so that one thread has two rows and the others one,
  and on 2, so that two have none; `MaxStarts` 2, so that those miss a whole frame. The
  sync range is 1; the theorems have the others. VP8
  encoder: 6 rows on 4 threads, the caller's included, and a frame encoded again between two
  posts for the filter.
- VP8 references: `NUM_YV12_BUFFERS` is 4 as in the code. 3 pictures are a key frame
  and two frames that move its copies; damaged frames, which may do anything to the decoder's
  references, do not count against `MaxPictures`.
- VP9 encoder: `Lag` 4 with a key frame every 5 images, so that an alternate reference
  is due both before and across a key frame; 7 images pass one and wrap the ring. An output
  buffer of 4 with frames of 1, 2 and 3: a frame leaves more than half of it, just half, or
  less, so a call may encode one frame, two or as many as there are, and a hidden frame may
  wait over calls or take too much.

Deadlock is checked where the system may not stop. It is switched off where it
may: in the `Serial*` configurations with damage and in `FrameWorkersDamaged.cfg`, where
slots that errors leak run out and `get_free_fb()` asserts; in the `Vp8*Threads`
configurations, where the application removes the codec; in `Vp8References.cfg` and
`Vp9Encoder.cfg`, whose pictures are bounded; and where a configuration shows that
threads hang.

Further configurations in this directory, each for one question aside from the
main runs:

| Configuration | Outcome |
|---|---|
| `SerialClean.cfg` | holds: undamaged streams, 3 map slots, 4 frame buffers, 4 memory buffers: counts and memory exact at every step, and references plus one is enough of both (55 525 states) |
| `FrameWorkersShown.cfg` | holds: shown and shown-again frames while counts change in every order (594 040 states) |
| all others not named by a run | violated, see section 7 |

## 5. Fairness

- `WorkerThread`: weak fairness of the client inside a call and of the thread, hooks
  that return, spurious wake-ups that come to an end. The client need not call
  anything. A mutex that is free is got eventually, which weak fairness gives
  since each side holds it only for a bounded number of steps between waits.
- `LoopFilterRows`: the caller goes on launching and syncing inside
  `loop_filter_rows_mt()`, and each thread runs. No frame need come.
- `TileThreads`: the codec's thread goes on inside a frame, and each worker with a
  job runs. Frames need not keep coming.
- `Vp8DecoderThreads`, `Vp8EncoderThreads`: each thread runs, the main thread
  inside a call. A spinning thread is one whose step is not enabled until the
  row above has gone on.
- `Vp9Encoder`: a call of `encoder_encode()` goes on, and the application goes on making calls:
  while it is always possible to flush, it flushes at some time. That is what
  `vpx/vpx_encoder.h:900` asks of it ("this function should continue to be called"). It
  need not send an image, and may send some between two flushes.
- `FrameParallelControl`: weak fairness of the control thread inside a call, and
  of each worker's thread. The application need not make another call.
- `FrameParallelWorkers`: each worker's thread runs. Neither launch nor output is
  fair. A frame that never got a slot may wait for ever, which is why
  `FramesFinish` starts at the header.

These are what a preemptive scheduler and hooks that terminate (a frame has
finitely many rows) give.

## 6. Proofs

`WorkersProofs` proves of `WorkerThread`, for both values of `SpuriousWakeups`, and so for
every behaviour of `Spec`:

| Theorem | Says |
|---|---|
| `TypeCorrect` | `[]TypeOK` |
| `SignalsReachTheirWaiter` | `[]NoStolenSignal` |
| `HooksExclude` | `[]OneHookAtATime` |
| `EveryJobOnce` | `[]JobsRunOnce` |
| `FailuresAreKept` | `[]FailureIsKept` |
| `Assertions` | `[]AssertionsHold` |
| `StatusProtocol` | `StatusChanges`, an action property |
| `WorkerImplementsService` | `Spec` implies `Service!Safe` |

The only assumption is that `SpuriousWakeups` is a Boolean. `pending` is a natural
number in the type invariant and `StatusChanges` needs that it is at most one,
so the safety properties are not inductive as they stand. The strengthening `IInv`
adds to them who holds the mutex at which place (`MutexInv`), what each blocked
thread waits for (`WaitInv`), where the job is between launch and hook
(`JobInv`), when there is a thread (`LifeInv`), which call the client is in
(`CallInv`), and that the value the thread loaded before the hook is no older
than a failure that shows (`LoadInv`), without which the late store of
`had_error` could be seen to lose a failure. `InitInv` and `NextInv` show it
inductive, one step per action; the theorems follow. For the refinement,
`ServiceNext` maps each action to a step of the service or to a stutter
(`HiddenStep`).

`TileThreadsProofs` proves of the loop filter alone (`Spec`), for pictures of any number of
superblock rows and
columns, any number of workers and each sync range that `get_sync_range()`
returns:

| Theorem | Says | Assumes |
|---|---|---|
| `TypeCorrect` | `[]TypeOK` | – |
| `ToldIsFiltered` | `[]ProgressIsTrue` | – |
| `SignalsAreEnough` | `[]NoSignalLost` | – |
| `EveryRowFiltered` | `[]AllRowsFiltered` | `SameTileCols` |
| `FilterIsWavefront` | `Spec` implies `ImplementsWavefront`, which is `Wavefront!Spec` | `SameTileCols` |

The constants are as `LoopFilterSizes` says. `SameTileCols` says that all frames
have the same number of tile columns; it is not a convenience of the proof: with
fewer tile columns than before, rows have no thread and the last two theorems'
argument fails where `LoopFilterFewerTiles.cfg` shows the code to hang. None of the
three invariants is inductive. `IInv` adds that the rows of a worker are those
congruent to its number (`RowsInv`), from which no two workers are in one row; that
a row is filtered exactly up to its worker's column (`ColumnInv`); that the rows a
worker has passed are complete and those below it untouched (`PassedInv`), which
with `RowsInv` gives every row when all workers are below the picture; and what a
worker that does not test at every column still knows of the row above since the
last column where it did (`AboveInv`), without which the columns between two tests
could not be shown to be in order. `TypeOK` bounds the columns, for which it needs
`ColumnInv`. The lemmas before the invariant are the facts about division and
remainder that the rows rest on: `ModStep`, a worker's next row is its own, and
`ModBetween`, there is none of its rows in between. `InRowsIsWavefront` maps
`FilterBlock` to `Wavefront!Process` and each other step of a worker to a stutter.

The same module proves of `CodecSpec`, decoder and encoder, for any number of
workers, of tile columns and rows, of superblocks, and of times that the encoder filters
a frame, and for all failures of tiles and of their sizes:

| Theorem | Says | Assumes |
|---|---|---|
| `CodecSignalsAreEnough` | `[]NoSignalLost` | – |
| `EndIsFound` | `[]EndIsOfLastTile` | – |
| `CountsAreComplete` | `[]CountsComplete` | `SameTileCols` |
| `TilesAreDoneOnce` | `CodecSpec` implies `ImplementsTiledFrame`, which is `TiledFrame!Spec` | `SameTileCols` |
| `CodecFilterIsWavefront` | `CodecSpec` implies `ImplementsWavefront` | `SameTileCols` |

The constants are as `LoopFilterSizes` and `TileAssumptions` say. `SameTileCols` is again
what the code needs: without it the encoder steps by workers that it does not launch
(`TileThreadsFewerTiles.cfg`), the filter hangs, and what the last worker that is launched
has counted is not accumulated, since it is not the one with the encoder's own data. The
decoder's unfiltered
frames may have any number of tile columns. `CodecInv` is the inductive invariant, whose
first part is `IInv` of the loop filter, so that the lemmas about the filter's steps serve
here as they are. The tiles need to know more than what is done: each tile in work is one
worker's and not done (`WorkInv`); in the decoder the first `n` buffers were
launched, all but those of this round are done, and buffer `n - i + w + 1` is worker `w`'s
(`RoundInv`), which says something about tiles only because the rearranged buffers still
hold each tile once (`RegroupedIsBijection`); in the encoder worker `w` has done its
tiles below its present one (`StrideInv`). `FinalInv` knows the worker of the last
column from its launch until its end is taken. `FrameInv` keeps the number of
workers within those created, `ThreadsInv` says which those are, and `PaddingInv` that
the numbers beyond the frame's tiles play no part. For the refinement `DecodedInv` adds that
filtering begins when all
tiles are done and none failed: in the decoder from `RoundInv` at the end of the
last round (`SyncedDone`), in the encoder from the strides, for which
`SameTileCols` gives that all workers were launched. `TileStepIsWork` maps a worker's
step to the work of one tile. For the counts `CountedInv` says where the count of a tile is:
with one worker whose counts will be accumulated or, counted by the worker with the encoder's
own data, in the frame's (`CountedOnce`), so that of the sum over the workers at most one
term is not zero (`AccumulatedIs`). A failed creation of threads
(`CreationFailsSpec`) is outside these theorems, as `TileThreadsCreation.cfg`
shows the promise broken there.

`Vp9EncoderProofs` proves, for every lag, ring size, golden frame interval, key frame
interval, number of images and set of updates the application may force:

| Theorem | Says | Assumes |
|---|---|---|
| `NoImageIsRefused` | `[]NeverRefused`: unless `Jammed`, there is room for an image | – |
| `RingIsAQueue` | `Spec` implies `ImplementsQueue`, which is `FrameQueue!Spec` | – |
| `TypeCorrect` | `[]TypeOK` | `KeyFreq # 0` |
| `ArfIsBeforeKeyFrame` | `[]ArfBeforeKeyFrame` | `KeyFreq # 0` |
| `HiddenFramesHaveImages` | `[]HiddenHasImage` | `KeyFreq # 0` |
| `FlushWithoutPacketIsComplete` | `FlushIsComplete`, an action property | `KeyFreq # 0` |
| `CountsAreExact` | `[]RefCountsExact` | `KeyFreq # 0` |
| `DecoderFollows` | `[]DecoderAgrees` | `KeyFreq # 0` |

The constants are as `EncoderAssumptions` and `OutputAssumptions` say: any size of the buffer
and any sizes of frames of which one is at most half of it. The first two theorems rest on
`LookaheadInv`, that `write_idx` is `sz` entries after `read_idx` in the ring, and on
`OutputInv`: a call that the buffer stops has encoded a frame, so either it took an image or
only a hidden frame was encoded, and then that frame took more than half of the buffer. Hence
between two calls there is room for one more image unless `Jammed`. The refinement reads the
queue out of the ring by `Peek`, so a push or pop that disturbed an entry in
between, or the one kept for the look back, would show. The others need a key
interval: with `kf_max_dist` 0 `frames_to_key` counts down from 0 and the assertion at
`vp9/encoder/vp9_encoder.c:3856` does fail (`Vp9EncoderNoKeys.cfg`). `RateControlInv`
says that a pending alternate reference lies within the interval to the next key
frame, which no forced update may break; `HiddenInv`, that while a hidden frame waits
no other is due and an image is left that can take it along, which is what makes
`HiddenHasImage` inductive, also over calls that the buffer stops; `RefsInv`, that counts are
those of the map and that a decoder of the
packets sent *and of those that still wait* would hold the encoder's pictures,
without which agreement could not be carried over a hidden frame. `IInv` is their
conjunction.

`Vp8DecoderThreadsProofs` proves, for any number of helpers, rows and columns, every sync
range of the code and every set of frames:

| Theorem | Says |
|---|---|
| `AlwaysTypeOK` | `[]TypeOK` |
| `NothingIsLeftOver` | `[]NothingLeftOver` |
| `EndIsSignalledAtTheEnd` | `[]EndIsTrue` |
| `DecodingIsWavefront` | `Spec` implies `ImplementsWavefront` |

and `Vp8EncoderThreadsProofs`, for any number of threads, rows, columns and recodes:

| Theorem | Says |
|---|---|
| `AlwaysTypeOK` | `[]TypeOK` |
| `PostsAlwaysMeanIt` | `[]PostsMeanWhatTheySay` |
| `NothingIsLeftOver` | `[]NothingLeftOver` |
| `EncodingIsWavefront` | `Spec` implies `ImplementsWavefront` |

The decoder's theorems assume `~Hurried`, of which section 3 says what it is: without it
`Vp8DecoderLateThread.cfg` shows the end told too early. The encoder's need no assumption,
as its frames all have one shape and no thread can be of an earlier one when a frame begins;
`CreationFailsSpec` is outside them, since creation then hangs (section 7). The two
invariants are alike. What differs from the loop filter is that nobody waits for all
threads: the frame is over when the thread of the last row says so, while others may
still be on their way out of it, or not have begun it. So a thread is *on* the frame (`On`)
from taking its start, and the invariant says of such a thread that it is in a row of its
own or below the picture (`OnInv`), and of another that it is at most on its way out and
tells nobody of the end again (`OffInv`); how far each row is then follows from its owner's
place (`RowsInv`). That all rows are done when the last one is needs the order of the rows
themselves: a row is done after those above it (`AllAboveInv`), because its thread waits
at the last column too. `HelperInv` says when a start may be pending, from which no
semaphore is left over (`EndInv` has the end). `AboveInv` is what a thread knows between two
tests, as in the loop filter. The encoder adds `FilterInv` for the filter thread: while the
caller waits for the level there are four stages of the two posts (`LevelInv`), and from
then on the picture's post is pending or still to come (`PictureInv`), so that the next
wait, wherever it is, takes that one.

`Vp8ReferencesProofs` proves, for any number of buffers from four on, of pictures, and any
sizes:

| Theorem | Says |
|---|---|
| `AccountedWithSetReference` | `SetReferencesSpec` implies `[]BuffersAccounted` |
| `AlwaysAccounted` | `[]BuffersAccounted` |
| `AlwaysTypeOK` | `[]TypeOK` |
| `AlwaysAgree` | `[]Agreement` |
| `ImageAlwaysIntact` | `[]ImageIntact` |
| `EncoderAndDecoderImplementValues` | `Spec` implies `ImplementsValues`, which is `Values!Spec` |

The only assumption is `ReferenceAssumptions`. `UpdateMoves` and its counterpart for the
decoder's `swap_frame_buffers()` show that moving references one after the other, each
with its mark or count, is moving them all at once as the flags say (`Moved`), of which
everything else makes use. `EncoderInv` and `DecoderInv` say that marks and counts are
those of the references, `PacketInv` that a frame on its way was made from the
references it names, and that the encoder's have moved as it says. These are also kept by
`VP8_SET_REFERENCE` and are enough for the first theorem. Agreement and the intact image are
inductive together with them, and not kept by that call (section 7).

`SerialDecoderProofs` proves, for any numbers of slots, references and buffers of memory,
and frames that fail at any phase:

| Theorem | Says | Assumes |
|---|---|---|
| `AlwaysTypeOK` | `[]TypeOK`: no count becomes negative | – |
| `CountsAreExact` | `[]RefCountsExact` | – |
| `MemoryIsExact` | `[]MemoryExact` | – |
| `ImageStaysIntact` | `[]ImageIntact` | – |
| `ReferencesStayIntact` | `[]ReferencesIntact`, of the slots named that hold pictures | – |
| `SlotForEveryFrame` | `[](damage = {} => FrameBufferAvailable)` | `FRAME_BUFFERS > REF_FRAMES` |
| `MemoryForEveryFrame` | `[](damage = {} => MemoryAvailable)` | finite `Memory`, larger than `REF_FRAMES` |
| `NothingReleasedTwice` | `[](damage = {} => ReleasedOnce)` | – |

The code has `FRAME_BUFFERS` larger than `REF_FRAMES` by 7, and asks an application for
`VP9_MAXIMUM_REF_BUFFERS + VPX_MAXIMUM_WORK_BUFFERS` buffers. The conditions on `damage`, in
the table and in the properties,
say how far each promise survives frames that fail; section 7 shows what happens beyond. The
difficulty is that after a frame fails the counts are *not* exact: the
handler drops the holds of refreshed slots as if the new map had been taken, although
the old one stays, so a count may be too low while a slot still names the buffer; and the
reset of the map leaks what it named. `IInv` therefore says less of the counts the more
has failed (`CountInv`): they are exactly what the state owes (`Owed`) until the
first damage; none is too low as long as no frame failed with its holds taken, *or* as
soon as an intra frame has reset the map, since the leak that follows is one-sided. Before
that reset no inter frame is decoded (`need_resync`), which is what `ReferencesIntact`
needs. It says nothing of a slot that the reset has left without a picture, which a frame may
name: that one is `ReferencesPresent`, which the code does not keep (section 7). For memory
there are likewise two parts: `KeptInv`, while the map is to be decoded
from the pictures it names and the new one have memory, each its own; and `MemoryInv`,
`MemoryExact` with what the handler left of the failed frame's memory. `PhaseInv`
ties the decoder's flags to the phase of the frame. The lemmas before it say
what each operation of the pool returns (`DropHoldsIs`, `DecreaseIs`, ...), the counting
lemmas how references move from one map to the next (`NextReferences`), and
`NoMoreThanSlots` is the pigeonhole of the two theorems on room.

`FrameParallelControlProofs` proves, for any number of workers, any size of the cache and
of superframes:

| Theorem | Says | Assumes |
|---|---|---|
| `AlwaysTypeOK` | `[]TypeOK` | – |
| `ThreadsAreNotLost` | `ThreadsNotLost`, an action property | – |
| `AlwaysAccounted` | `[]OutputAccounted` | `Sound` |
| `FramesComeInOrder` | `OutputInOrder`, an action property | `Sound` |
| `FlushLeavesNothing` | `FlushDrains`, an action property | `Sound` |
| `FramesAreNotOverwritten` | `FramesNotOverwritten`, an action property | `Sound` |

`Sound` says that no frame fails; the index of a superframe may still be bad. It is not a
convenience of the proof: with all failures TLC finds each of the last four violated, by the
steps of items 3 and 7 of section 7 and their kind. The first two hold whatever fails.
`ThreadsNotLost` speaks of steps because the plain invariant, that
`available_threads` is never below the number of workers that hold no frame, is false: after a
frame was launched over one not yet taken (item 3 of section 7) one worker holds one
frame where two were counted, and the count falls below the truth. A run with the bounds of section 4
does not get that far.

`CleanInv` is the inductive invariant without failures. `RingInv` puts the workers in
order: the `Held` workers that hold a frame are those last launched (`Age`), each with the frame of
its place, and `next_output` is the oldest, from which a launch meets a free
worker. `WorkerInv` and `FirstInv` carry what makes the next header acceptable along the ring, since each
worker copies its state from the one launched before (`LaunchInv`): once an intra frame was
decoded no worker waits for one, and until it was taken the control thread
does. `CacheInv` and `ShownInv` say where the pictures are: those shown, then the cache in
order, then the workers, none missing; `OutputInOrder` and `FlushDrains` follow,
because the cache is empty when `decoder_get_frame()` goes to the workers. Counting
needs each of `outRefs` to be split in its three holders (`HoldersIs`), with the cache as a
sequence without repetition. Of the bounds of the model, `MaxFrames` ends a behaviour and
`MaxDrift` never binds
here, since the counts are exact.

`WorkersProofs` proves of `FramesSpec`, for any numbers of workers, slots, references and
rows, and all failures:

| Theorem | Says |
|---|---|
| `FramesAreTyped` | `[]FramesTypeOK` |
| `HoldersAreCounted` | no count is below what the newest map, the frames in flight and the application hold |
| `NoSleeperIsForgotten` | `[]SleepersAreServed` |
| `PredictionsAreFromFinalRows` | `[]PredictedFromFinal` |

The constants are as `PoolSizes` and `WorkersAssumption` say; the latter bounds the row a
prediction reads well below `INT_MAX`, which the code uses for a complete frame.
`FramesInv` is the inductive invariant. What `SleepersAreServed` needs is `OwnerInv`: a
buffer that anything may be predicted from is complete, known to be damaged, or still
being decoded by the worker that owns it, so that a test that finds the row missing finds
someone who will tell. It holds only of buffers that are *named*, by the newest map or by the
map of a frame in flight, and a named buffer is not handed out because it is counted
(`CountInv`). Frames that fail leave counts behind, so that `CountInv` is one-sided; that is
enough, and no hypothesis on failures is needed. `EarlyInv` and `NewestAt` say why the map that
a worker copies from the one before it is the newest one, also past workers that failed, so that it
names nothing that was given up. `RowInv` bounds the row told of by the rows that the loop filter
has left, which with `Predicting`, that a row once told stays told while its frame
is in the buffer, gives `PredictedFromFinal`. The lemmas on counting split what is owed by workers
(`OwedToIs`), so that each step is about one worker's holds; those before `FramesInv`'s
steps say what each action changes (`DecodeRowIs`, `FailIs`, ...) and `QuietStep` what
an action need not look at.

`SleepersAreServed` once said also that the buffer slept on is not marked damaged. With two
workers that holds, as TLC finds; with three it does not: the misplaced mark of a failed
worker (item 10 of section 7) may fall on a buffer another one is decoding, on which the third sleeps.
The mark wakes nobody then, and need not, as the frame in the buffer is sound.

Several properties that are proved here for all values of the constants are not, or
not all, checked again by a run (`TypeOK` of most modules, `NeverRefused`, `ProgressIsTrue`,
`AllRowsFiltered`, the encoder's `RefCountsExact`, `OneHookAtATime`, `AssertionsHold`,
`StatusChanges`, `EndIsTrue`, the
VP8 encoder's `NothingLeftOver`); TLC agreed on small instances before each proof.

Only model-checked: all liveness (`CallsReturn`, `FramesEnd`, `FramesFinish`,
`FlushEmpties`) and the fairness part of the refinements, since liveness under
fairness is out of reach of the proof system; and the
two-sided counts of `FrameWorkersShown.cfg`.

## 7. Disagreements between the code and what is said of it

Each is the counterexample of a configuration. The second is a run.
`SerialErrors.cfg` and `FrameParallelErrors.cfg` name several properties that are violated: TLC stops
at the first, or with `-continue` goes on to the others.

1. **A damaged header leaks slots** (`SerialErrors.cfg`, `FrameBufferAvailable`).
   After an error the next intra frame sets `ref_frame_map` to -1
   (`vp9/decoder/vp9_decodeframe.c:1370`) without releasing what it names.
   `vp9/common/vp9_onyxc_int.h:300` asserts that there is a free slot.
2. **Fewer tile columns than before hang the loop filter**
   (`LoopFilterFewerTiles.cfg`, `RowsFinish`). The stride between a worker's rows
   is `lf_sync->num_workers`, the largest number so far, not the number launched for this
   frame (`vp9/common/vp9_thread_common.c:109`).
3. **A frame is launched over one not yet output**
   (`FrameParallelOverwrite.cfg`, `FramesNotOverwritten`). `decoder_get_frame()`
   counts a worker with `had_error` as free whether or not it holds a frame
   (`vp9/vp9_dx_iface.c:783`); on a flushed decoder each call counts it again.
4. `WorkerHadError.cfg`: `had_error` is documented as the result of the last hook
   (`vp9/common/vp9_thread.h`), but it accumulates until `reset()` clears it.
5. `SerialErrors.cfg` (`ReleasedUnreferenced`): the error handler gives back memory
   through a `priv` pointer that the slot kept from an earlier frame, which may be in use
   by a live picture (`vp9/decoder/vp9_decoder.c:348`).
6. `SerialErrors.cfg` (`ReleasedOnce`): the memory of a damaged frame is given back by
   the handler and again at the start of the next frame
   (`vp9/decoder/vp9_decoder.c:286`).
7. `FrameParallelErrors.cfg` (`ReleasedOnce`): while the decoder waits for an intra frame, each
   `decoder_get_frame()` releases the cached frame again
   (`vp9/vp9_dx_iface.c:735`).
8. `FrameParallelErrors.cfg` (`ResyncAfterError`): a show-existing frame carries the frame type copied
   from a key frame that failed, and ends the wait for an intra frame
   (`vp9/vp9_dx_iface.c:457`).
9. `FrameWorkersTooMany.cfg`: with one slot fewer than references and workers, which
   is what `FRAME_BUFFERS` has for eight workers
   (`vp9/common/vp9_onyxc_int.h:44`), a worker finds no slot in an undamaged
   stream.
10. `FrameWorkersMark.cfg`: the slot of a failed frame is free between the error handler
    and the mark that it is corrupted, so the mark may fall on another worker's sound
    frame (`vp9/vp9_dx_iface.c:343`).
11. `TileThreadsFewerTiles.cfg` (`ImplementsTiledFrame`): a worker of the encoder steps
    by `cpi->num_workers` (`vp9/encoder/vp9_ethread.c:47`), the number of the first
    multi-threaded frame; a frame with fewer tile columns launches fewer and leaves
    tiles out, if it has more than one tile row.
12. `TileThreadsCreation.cfg` (`ImplementsTiledFrame`): `vpx_internal_error()` returns
    when a tile thread of the encoder cannot be created
    (`vp9/encoder/vp9_ethread.c:100`), since no jump is set while encoding;
    `launch()`, which "Triggers the thread to call hook()" (`vp9/common/vp9_thread.h`),
    then does nothing, and the frame is returned without those tiles.
13. `Vp8DecoderLateThread.cfg` (`EndIsTrue`): the thread of the last row tells the
    application that the frame is decoded (`vp8/decoder/threading.c:615`) by
    `last_mb_row` as read before; a thread of the frame before that has not left its
    loop decodes in the next one, by its old step.
14. `Vp8DecoderFewerPartitions.cfg` (`FramesFinish`): the same with fewer token
    partitions; the rows of the new frame are then not all taken and the decoder hangs.
15. `Vp8ReferencesSet.cfg` (`Agreement`): `vp8_set_reference()` writes into the
    buffer of the reference, which golden or last may share, and the decoder gives
    it a buffer of its own; `examples/vp8cx_set_ref.c:19` says "the decoder would also
    have to set the reference frame to the same value", which is not enough then.
16. `Vp8ReferencesSet.cfg` (`ImageIntact`, found first; `-continue` shows both): the decoder's
    call takes a free
    buffer, which may be that of a picture decoded but not fetched, since a frame that
    refreshes nothing holds no reference; `vpx/vpx_decoder.h:233` says that a frame
    "remains valid until the next call to vpx_codec_decode".
17. `Vp8ReferencesHidden.cfg` (`HiddenNotShown`): `show_frame` of a frame that fails after
    its header goes with `frame_to_show` of the one before, which was hidden
    (`vp8/decoder/onyxd_if.c:403`); `vpx/vpx_encoder.h:130` says "frame should be decoded but
    will not be shown".
18. `Vp8EncoderCreation.cfg` (`CallsReturn`): when a row thread cannot be created the
    others are joined without being woken (`vp8/encoder/ethreading.c:586`, "shutdown other
    threads"), as they are when the filter thread cannot (`:619`); creation hangs.
19. `Vp8EncoderCopy.cfg` (`CopyIsFiltered`): `vp8_get_reference()` copies a buffer on
    which the filter thread may be at work (`vp8/encoder/onyx_if.c:2694`);
    `vpxenc.c:1758` compares the copy with the decoder's.
20. `Vp9EncoderOverlay.cfg` (`OverlayHasItsArf`): a key frame that the application forces
    between an alternate reference and its image replaces the alternate, but
    `alt_ref_source` still names the image, which is coded as an overlay
    (`vp9/encoder/vp9_encoder.c:3794`, `vp9_rdopt.c:3018`).
21. `Vp9EncoderNoKeys.cfg` (`ArfBeforeKeyFrame`): `vpx/vpx_encoder.h:666` says of a key
    frame interval "A value of 0 implies all frames will be keyframes"; in one pass only
    the first is, `frames_to_key` counts down below zero, and the assertion at
    `vp9/encoder/vp9_encoder.c:3856` fails.
22. `Vp9EncoderLargeImages.cfg` (`ImplementsQueue`): a push that finds no memory for a
    larger picture has counted the entry already (`vp9/encoder/vp9_lookahead.c:114`); the old
    picture in it is encoded in the place of the refused one.
23. `SerialErrors.cfg` (`ReferencesPresent`): after an error, an intra-only frame empties
    `ref_frame_map` and fills only the slots that it refreshes; an inter frame that names one of
    the others takes `frame_bufs[-1]` for its reference (`vp9/decoder/vp9_decodeframe.c:1411`).
    Of a frame to be shown again the same function checks it and says "Buffer %d does not contain
    a decoded frame" (`:1333`).
24. **A flush without a packet is not the last one needed** (`Vp9EncoderNoData.cfg`,
    `NoDataMeansComplete`). The loop of `encoder_encode()` ends when less than half of
    the output buffer is left (`vp9/vp9_cx_iface.c:1017`), also after a hidden frame alone.
    `vpx/vpx_encoder.h:903` says "Encoding is complete when vpx_codec_encode() is called and
    vpx_codec_get_cx_data() returns no data", but images wait then, and all further calls
    fail (`:1012`). It takes a hidden frame of more bytes than a raw picture, and a call
    before it that the buffer has stopped.

## 8. What is not modelled

Planned components are in the table of section 2: the set-reference control of the VP9
decoder (`vp9_set_reference_dec()` moves a reference that the decoder does not count,
`vp9/decoder/vp9_decoder.c:204`), the widths of the superframe index, the boolean
coders, two passes and layers. Left out for good:

- pixel arithmetic (transforms, prediction, filters, motion search, assembly
  kernels): no state beyond a block, compared with C references by unit tests. It
  is also most of the lines: the models map a few thousand of some 200 000, which
  are those with control that outlives a block;
- syntax parsing other than what decides about references and control: sequential,
  covered by the test vectors;
- rate control other than the placing of frames: floating-point heuristics;
- error concealment, postprocessing, scaling: pictures to pictures;
- the codec interface, the spatial layer wrapper, the memory wrapper and one-time
  initialisation: argument checks, dispatch and lists, in one thread;
- applications, build system, third-party code.

Inside the modelled components: changes of the picture's size (a reallocation
takes the same callbacks), the internal frame buffer list's growth, decryption,
and `CONFIG_MULTITHREAD=0`, under which `launch` runs the hook at
once. In `TileThreads` the loop filter
worker of a decoder without tile threads (`lf_worker`); in `Vp8References` fragments and
the arm of `check_fragments_for_errors()` for a missing frame, which `vp8_decode()` does not
reach; in `Vp9Encoder` dropped frames, multiple alternate references, and what section 3
says of its output buffer: frames that run over it, its growth, packets given to a
callback. In `FrameParallelControl` the copy of a frame into a scratch buffer that an
earlier failed allocation left at `NULL` with its old size (`vp9/vp9_dx_iface.c:523`), and the
race of `decode_one()` with a worker that the drifted count takes for idle. In `SerialDecoder` and
`FrameParallelWorkers` what a decoder does with the memory before `frame_bufs[]` other
than fail or go on.
