------------------------ MODULE FrameParallelControl ------------------------
(***************************************************************************)
(* The VP9 decoder in frame-parallel mode, as the application's thread     *)
(* drives it (vp9/vp9_dx_iface.c): frames are launched on a ring of frame  *)
(* workers and come out again in the order they went in, some of them      *)
(* through a cache.  A worker is its VP9Worker, its FrameWorkerData and    *)
(* what the control thread reads of its VP9Decoder; how the workers follow *)
(* one another row by row is left out: a reference that failed makes a     *)
(* frame fail in its body.                                                 *)
(*                                                                         *)
(* Frames are numbered as they are submitted.  A frame that is shown keeps *)
(* one reference to its buffer for the application (swap_frame_buffers()   *)
(* leaves it in this mode): outRefs counts it, under the frame's number.   *)
(* The control thread is at "ready" between calls, at "decode" in the loop *)
(* over a superframe and at "get" in the loop of decoder_get_frame().      *)
(***************************************************************************)
EXTENDS Integers, Sequences, FiniteSets

CONSTANTS
  NumWorkers,        \* num_frame_workers
  FRAME_CACHE_SIZE,
  MaxSuperframe,     \* frames in one call of decoder_decode()
  MaxFrames,         \* bound: frames submitted in a behaviour
  MaxDrift,          \* bound: how far a count may go wrong after failures
  Failures           \* what may go wrong

ASSUME ControlAssumption ==
  /\ NumWorkers \in Nat \ {0}
  /\ FRAME_CACHE_SIZE \in Nat \ {0}
  /\ MaxSuperframe \in Nat \ {0}
  /\ MaxFrames \in Nat
  /\ MaxDrift \in Nat
  /\ Failures \subseteq {"header", "body", "trailing", "scratch", "index"}

VARIABLES
  ctl,      \* vpx_codec_alg_priv
  workers,  \* frame_workers
  outRefs,  \* references held for the application, by frame
  at,       \* where the control thread is
  todo,     \* frames of the superframe left to submit
  data,     \* the first of them
  image,    \* the last frame the application was given
  shown,    \* frames decoded to be shown
  failed,   \* frames whose worker reported an error
  intras    \* intra frames among the submitted

vars == <<ctl, workers, outRefs, at, todo, data, image, shown, failed,
          intras>>

Ids == 0 .. NumWorkers - 1
Frames == 1 .. MaxFrames
NoFrame == 0

\* What a frame's header says, as far as this module tells frames apart.
Kinds == [type : {"key", "inter"}, show : BOOLEAN]
           \cup [type : {"intra_only"}, show : {FALSE}]
           \cup [type : {"existing"}, show : {TRUE}]

IsIntra(kind) == kind.type \in {"key", "intra_only"}

\* What is found where the next frame of a superframe should be: a frame, or a
\* size in the index that does not fit the data.
NoData == [type |-> "none", show |-> FALSE]
BadIndex == [type |-> "bad_index", show |-> FALSE]
Data == Kinds \cup (IF "index" \in Failures THEN {BadIndex} ELSE {})

Workers == [status : {"idle", "header", "body"},
            frame : Frames \cup {NoFrame},
            kind : Kinds,
            keyFrame : BOOLEAN,             \* cm->frame_type = KEY_FRAME
            intra_only : BOOLEAN,
            show_frame : BOOLEAN,
            has_refs : BOOLEAN,             \* next_ref_frame_map names a frame
            need_resync : BOOLEAN,
            ready_for_new_data : BOOLEAN,
            frame_context_ready : BOOLEAN,
            received_frame : BOOLEAN,
            had_error : BOOLEAN]

Controls == [si_h : BOOLEAN,               \* si.h # 0: a first frame was seen
             next_submit : Ids, last_submit : Ids, next_output : Ids,
             available_threads : Int,
             flushed : BOOLEAN,
             need_resync : BOOLEAN,
             last_show_frame : Frames \cup {NoFrame},
             cache : UNION {[1 .. n -> Frames] : n \in 0 .. FRAME_CACHE_SIZE},
             submitted : 0 .. MaxFrames]   \* observes decode_one()

TypeOK ==
  /\ ctl \in Controls
  /\ workers \in [Ids -> Workers]
  /\ outRefs \in [Frames -> Int]
  /\ at \in {"ready", "decode", "get"}
  /\ todo \in 0 .. MaxSuperframe
  /\ data \in Data \cup {NoData}
  /\ image \in Frames \cup {NoFrame}
  /\ {shown, failed, intras} \subseteq SUBSET Frames

\* init_decoder(), which the first call of decoder_decode() makes.
Init ==
  /\ ctl = [si_h |-> FALSE, next_submit |-> 0, last_submit |-> 0,
            next_output |-> 0, available_threads |-> NumWorkers,
            flushed |-> FALSE, need_resync |-> TRUE, last_show_frame |-> NoFrame,
            cache |-> <<>>, submitted |-> 0]
  /\ workers = [w \in Ids |->
       [status |-> "idle", frame |-> NoFrame,
        kind |-> [type |-> "key", show |-> FALSE],
        keyFrame |-> TRUE, intra_only |-> FALSE, show_frame |-> FALSE,
        has_refs |-> FALSE, need_resync |-> TRUE,
        ready_for_new_data |-> TRUE, frame_context_ready |-> FALSE,
        received_frame |-> FALSE, had_error |-> FALSE]]
  /\ outRefs = [f \in Frames |-> 0]
  /\ at = "ready"
  /\ todo = 0
  /\ data = NoData
  /\ image = NoFrame
  /\ shown = {} /\ failed = {} /\ intras = {}

-----------------------------------------------------------------------------
(* frame_worker_hook(), in the worker threads *)

\* Mutant of NextId: the ring does not wrap.
NextInLine(w) == w + 1

NextId(w) == (w + 1) % NumWorkers

\* An inter frame is refused while the decoder waits for an intra frame, and
\* an order to show an existing frame when there is none.
Refused(worker) ==
  \/ worker.kind.type = "inter" /\ worker.need_resync
  \/ worker.kind.type = "existing" /\ ~worker.has_refs

\* read_uncompressed_header(): what it leaves of the frame's type.
WithHeader(worker) ==
  LET type == worker.kind.type
  IN [worker EXCEPT
        !.keyFrame = IF type = "existing" THEN @ ELSE type = "key",
        !.intra_only = IF type \in {"key", "existing"} THEN @
                       ELSE type = "intra_only",
        !.show_frame = worker.kind.show,
        !.has_refs = @ \/ type # "existing",
        !.need_resync = @ /\ ~IsIntra(worker.kind)]

\* The end of the header.  In a stream coded in frame parallel mode the
\* context is ready for the next worker now, otherwise after the frame.
HeaderRead(w, early) ==
  /\ workers[w].status = "header"
  /\ workers[w].kind.type # "existing"
  /\ ~Refused(workers[w])
  /\ workers' = [workers EXCEPT
       ![w] = [WithHeader(@) EXCEPT !.status = "body",
                                    !.frame_context_ready = early]]
  /\ UNCHANGED <<ctl, outRefs, at, todo, data, image, shown, failed,
                 intras>>

\* The frame is decoded.  If data is left over, the hook calls it an error
\* after all.
Decoded(w, trailing) ==
  /\ \/ workers[w].status = "body"
     \/ /\ workers[w].status = "header"
        /\ workers[w].kind.type = "existing"
        /\ ~Refused(workers[w])
  /\ trailing => "trailing" \in Failures
  /\ workers' = [workers EXCEPT
       ![w] = [WithHeader(workers[w]) EXCEPT !.status = "idle",
                                             !.frame_context_ready = TRUE,
                                             !.need_resync = @ \/ trailing,
                                             !.had_error = trailing]]
  /\ LET f == workers[w].frame
     IN IF workers[w].kind.show
          THEN /\ outRefs' = [outRefs EXCEPT ![f] = @ + 1]
               /\ shown' = shown \cup {f}
          ELSE UNCHANGED <<outRefs, shown>>
  /\ failed' = IF trailing THEN failed \cup {workers[w].frame} ELSE failed
  /\ UNCHANGED <<ctl, at, todo, data, image, intras>>

\* Mutant of FailedWorker: nobody is told that the context will not come.
FailedUntold(worker) ==
  [worker EXCEPT !.status = "idle", !.ready_for_new_data = TRUE,
                 !.need_resync = TRUE, !.had_error = TRUE]

\* The longjmp handler and the hook's own.
FailedWorker(worker) ==
  [worker EXCEPT !.status = "idle", !.ready_for_new_data = TRUE,
                 !.frame_context_ready = TRUE, !.need_resync = TRUE,
                 !.had_error = TRUE]

HeaderFails(w) ==
  /\ workers[w].status = "header"
  /\ "header" \in Failures \/ Refused(workers[w])
  /\ \E read \in BOOLEAN :
       workers' = [workers EXCEPT
         ![w] = FailedWorker(IF read THEN WithHeader(@) ELSE @)]
  /\ failed' = failed \cup {workers[w].frame}
  /\ UNCHANGED <<ctl, outRefs, at, todo, data, image, shown, intras>>

BodyFails(w) ==
  /\ workers[w].status = "body"
  /\ "body" \in Failures
  /\ workers' = [workers EXCEPT ![w] = FailedWorker(@)]
  /\ failed' = failed \cup {workers[w].frame}
  /\ UNCHANGED <<ctl, outRefs, at, todo, data, image, shown, intras>>

WorkerStep(w) ==
  \/ \E early \in BOOLEAN : HeaderRead(w, early)
  \/ \E trailing \in BOOLEAN : Decoded(w, trailing)
  \/ HeaderFails(w)
  \/ BodyFails(w)

-----------------------------------------------------------------------------
(* decoder_decode(), in the application's thread *)

\* decoder_decode() with data: a frame or a superframe of n.
Decode(n) ==
  /\ at = "ready"
  /\ ctl.submitted + n <= MaxFrames
  /\ at' = "decode"
  /\ todo' = n
  /\ data' \in Data
  /\ ctl' = [ctl EXCEPT !.flushed = FALSE]
  /\ UNCHANGED <<workers, outRefs, image, shown, failed, intras>>

\* decoder_decode() without data.
Flush ==
  /\ at = "ready"
  /\ ctl' = [ctl EXCEPT !.flushed = TRUE]
  /\ UNCHANGED <<workers, outRefs, at, todo, data, image, shown, failed,
                 intras>>

\* check_resync().
CheckResync(c, worker) ==
  [c EXCEPT !.need_resync =
     @ /\ ~(~worker.need_resync /\ (worker.intra_only \/ worker.keyFrame))]

\* vp9_get_raw_frame() gives a decoded frame out once.
HasRawFrame(worker) == ~worker.ready_for_new_data /\ worker.show_frame

\* wait_worker_and_cache_frame(), when every thread is busy: whether the
\* worker failed is not looked at.
WaitWorkerAndCacheFrame ==
  /\ at = "decode"
  /\ data # BadIndex
  /\ ctl.available_threads = 0
  /\ Len(ctl.cache) < FRAME_CACHE_SIZE
  /\ LET w == ctl.next_output
         freed == [ctl EXCEPT !.next_output = NextId(w),
                              !.available_threads = @ + 1]
         cached == IF HasRawFrame(workers[w])
                     THEN Append(ctl.cache, workers[w].frame) ELSE ctl.cache
     IN /\ workers[w].status = "idle"
        /\ ctl' = [CheckResync(freed, workers[w]) EXCEPT !.cache = cached]
        /\ workers' = [workers EXCEPT ![w].received_frame = FALSE,
                                      ![w].ready_for_new_data = TRUE]
  /\ UNCHANGED <<outRefs, at, todo, data, image, shown, failed,
                 intras>>

\* The rest of the call's data is dropped: the index does not fit, the cache is
\* full, or the first frame of all is not an intra frame.
DecodeFails ==
  /\ at = "decode"
  /\ \/ data = BadIndex
     \/ ctl.available_threads = 0 /\ Len(ctl.cache) = FRAME_CACHE_SIZE
     \/ ctl.available_threads # 0 /\ ~ctl.si_h /\ ~IsIntra(data)
  /\ at' = "ready"
  /\ todo' = 0
  /\ data' = NoData
  /\ UNCHANGED <<ctl, workers, outRefs, image, shown, failed, intras>>

\* Mutant of WithContext: the next worker does not learn that decoding failed.
\* vp9_frameworker_copy_context(), what the control thread reads later.
WithContext(dst, src) ==
  [dst EXCEPT !.need_resync = src.need_resync,
              !.keyFrame = src.keyFrame,
              !.has_refs = src.has_refs]

\* decode_one() up to the copy of the data: it waits for the context of the
\* frame before, which another worker decodes.
Prepared(w) ==
  LET last == workers[ctl.last_submit]
      context == IF w # ctl.last_submit THEN WithContext(workers[w], last)
                 ELSE workers[w]
  IN [context EXCEPT !.ready_for_new_data = FALSE]

\* Mutant of ContextReady: the wait is for the wrong worker.
OwnContextReady == workers[ctl.next_submit].frame_context_ready

ContextReady ==
  \/ ctl.next_submit = ctl.last_submit
  \/ workers[ctl.last_submit].frame_context_ready

\* decode_one() may go on with the next frame of the call.
MayDecodeOne ==
  /\ at = "decode"
  /\ data # BadIndex
  /\ ctl.available_threads # 0
  /\ ctl.si_h \/ IsIntra(data)
  /\ ContextReady

\* The worker cannot get memory for the frame's data.
ScratchFails ==
  /\ MayDecodeOne
  /\ "scratch" \in Failures
  /\ workers' = [workers EXCEPT ![ctl.next_submit] = Prepared(ctl.next_submit)]
  /\ ctl' = [ctl EXCEPT !.si_h = TRUE]
  /\ at' = "ready"
  /\ todo' = 0
  /\ data' = NoData
  /\ UNCHANGED <<outRefs, image, shown, failed, intras>>

\* decode_one(); launch() waits until the worker is idle.
DecodeOne ==
  LET w == ctl.next_submit
      f == ctl.submitted + 1
  IN /\ MayDecodeOne
     /\ workers[w].status = "idle"
     /\ workers' = [workers EXCEPT
          ![w] = [Prepared(w) EXCEPT !.status = "header",
                                     !.frame = f,
                                     !.kind = data,
                                     !.frame_context_ready = FALSE,
                                     !.received_frame = TRUE,
                                     !.had_error = FALSE]]
     /\ ctl' = [ctl EXCEPT !.si_h = TRUE,
                           !.last_submit = IF w # @ THEN NextId(@) ELSE @,
                           !.next_submit = NextId(w),
                           !.available_threads = @ - 1,
                           !.submitted = f]
     /\ intras' = IF IsIntra(data) THEN intras \cup {f} ELSE intras
     /\ todo' = todo - 1
     /\ IF todo = 1 THEN at' = "ready" /\ data' = NoData
                    ELSE at' = "decode" /\ data' \in Data
     /\ UNCHANGED <<outRefs, image, shown, failed>>

-----------------------------------------------------------------------------
(* decoder_get_frame(), in the application's thread *)

\* Each call may take one count further from the truth once a frame failed:
\* the calls stop at the bound.
WithinDrift ==
  /\ ctl.available_threads <= NumWorkers + MaxDrift
  /\ \A f \in Frames : outRefs[f] >= -MaxDrift

\* Mutant of ReleaseLastOutputFrame: the frame shown before stays referenced.
KeepLastOutputFrame == UNCHANGED outRefs

\* release_last_output_frame().
ReleaseLastOutputFrame ==
  LET f == ctl.last_show_frame
  IN outRefs' = IF f = NoFrame THEN outRefs ELSE [outRefs EXCEPT ![f] = @ - 1]

\* A frame is only returned when all workers are busy or after a flush.
GetNothing ==
  /\ at = "ready"
  /\ ctl.available_threads > 0
  /\ ~ctl.flushed
  /\ UNCHANGED vars

GetCachedFrame ==
  /\ at = "ready"
  /\ ctl.available_threads <= 0 \/ ctl.flushed
  /\ ctl.cache # <<>>
  /\ WithinDrift
  /\ ReleaseLastOutputFrame
  /\ LET f == Head(ctl.cache)
         last == [ctl EXCEPT !.last_show_frame = f]
     IN IF ctl.need_resync
          THEN ctl' = last /\ image' = image
          ELSE ctl' = [last EXCEPT !.cache = Tail(@)] /\ image' = f
  /\ UNCHANGED <<workers, at, todo, data, shown, failed, intras>>

\* Mutant of GetFromWorkers: the workers come before the cache.
GetFromWorkersFirst ==
  /\ at = "ready"
  /\ ctl.available_threads <= 0 \/ ctl.flushed
  /\ at' = "get"
  /\ UNCHANGED <<ctl, workers, outRefs, todo, data, image, shown, failed, intras>>

GetFromWorkers ==
  /\ at = "ready"
  /\ ctl.available_threads <= 0 \/ ctl.flushed
  /\ ctl.cache = <<>>
  /\ WithinDrift
  /\ at' = "get"
  /\ UNCHANGED <<ctl, workers, outRefs, todo, data, image, shown, failed, intras>>

\* Mutant of LoopOrReturn: a hidden frame ends the call.
ReturnAtOnce(c) == at' = "ready"

\* The loop goes on until it is at the worker that is submitted to next.
LoopOrReturn(c) ==
  at' = IF c.next_output = c.next_submit THEN "ready" ELSE "get"

\* Mutant of Received: a worker counts as freed each time it is looked at.
FreedAgain(c, worker) ==
  CheckResync([c EXCEPT !.available_threads = @ + 1], worker)

\* "Check if worker has received any frames."
Received(c, worker) ==
  IF worker.received_frame
    THEN CheckResync([c EXCEPT !.available_threads = @ + 1], worker) ELSE c

\* One round of the loop, for a worker that did not fail.
OutputFrame ==
  LET w == ctl.next_output
      worker == workers[w]
      synced == Received([ctl EXCEPT !.next_output = NextId(w)], worker)
  IN /\ at = "get"
     /\ worker.status = "idle"
     /\ ~worker.had_error
     /\ workers' = [workers EXCEPT ![w].received_frame = FALSE,
                                   ![w].ready_for_new_data = TRUE]
     /\ IF HasRawFrame(worker)
          THEN /\ ReleaseLastOutputFrame
               /\ ctl' = [synced EXCEPT !.last_show_frame = worker.frame]
               /\ image' = IF synced.need_resync THEN image ELSE worker.frame
               /\ at' = "ready"
          ELSE /\ ctl' = synced
               /\ LoopOrReturn(synced)
               /\ UNCHANGED <<outRefs, image>>
     /\ UNCHANGED <<todo, data, shown, failed, intras>>

\* Mutant of OutputFailed: the thread is not counted as free.
OutputFailedUncounted ==
  /\ at = "get"
  /\ workers[ctl.next_output].status = "idle"
  /\ workers[ctl.next_output].had_error
  /\ workers' = [workers EXCEPT ![ctl.next_output].received_frame = FALSE]
  /\ ctl' = [ctl EXCEPT !.next_output = NextId(@), !.need_resync = TRUE]
  /\ at' = "ready"
  /\ UNCHANGED <<outRefs, todo, data, image, shown, failed, intras>>

\* And for one that did: "Decoding failed. Release the worker thread."
OutputFailed ==
  LET w == ctl.next_output
      next == [ctl EXCEPT !.next_output = NextId(w),
                          !.available_threads = @ + 1,
                          !.need_resync = TRUE]
  IN /\ at = "get"
     /\ workers[w].status = "idle"
     /\ workers[w].had_error
     /\ workers' = [workers EXCEPT ![w].received_frame = FALSE]
     /\ ctl' = next
     /\ IF ctl.flushed THEN LoopOrReturn(next) ELSE at' = "ready"
     /\ UNCHANGED <<outRefs, todo, data, image, shown, failed, intras>>

-----------------------------------------------------------------------------

ControlStep ==
  \/ WaitWorkerAndCacheFrame
  \/ DecodeFails
  \/ ScratchFails
  \/ DecodeOne
  \/ OutputFrame
  \/ OutputFailed

Call ==
  \/ \E n \in 1 .. MaxSuperframe : Decode(n)
  \/ Flush
  \/ GetNothing \/ GetCachedFrame \/ GetFromWorkers

Next == Call \/ ControlStep \/ \E w \in Ids : WorkerStep(w)

Spec == Init /\ [][Next]_vars

\* A call that was made goes on when it can, and a worker thread runs the frame
\* it was given to its end.
FairSpec == Spec /\ WF_vars(ControlStep) /\ \A w \in Ids : WF_vars(WorkerStep(w))

-----------------------------------------------------------------------------
(* Properties *)

\* The workers that hold no frame which the application still has to take.
FreeThreads ==
  NumWorkers - Cardinality({w \in Ids : workers[w].received_frame})

\* available_threads counts them: it alone keeps decode_one() from a worker in
\* use.
AvailableThreadsExact == ctl.available_threads = FreeThreads

\* Failures can only take it above the truth: it is never too low, so that no
\* thread is lost to later frames, until a frame is launched over one that was
\* not taken (which FramesNotOverwritten denies).
ThreadsNotLost ==
  [][ctl'.available_threads < FreeThreads' =>
       \/ ctl.available_threads < FreeThreads
       \/ \E w \in Ids : /\ workers[w].received_frame
                         /\ workers'[w].frame # workers[w].frame]_vars

\* A worker is given a new frame only after its last one was taken from it.
FramesNotOverwritten ==
  [][\A w \in Ids : workers'[w].frame # workers[w].frame =>
                      ~HasRawFrame(workers[w])]_vars

\* Frames come out in the order they went in and none is left out, through
\* the cache or not.
OutputInOrder ==
  [][image' # image =>
       /\ image' \in shown /\ image' > image
       /\ \A f \in shown : ~(image < f /\ f < image')]_vars

\* The application's references: one for the frame it was given last, one for
\* each in the cache, one for each that waits in its worker.
Holders(f) ==
  (IF ctl.last_show_frame = f THEN 1 ELSE 0)
  + Cardinality({i \in DOMAIN ctl.cache : ctl.cache[i] = f})
  + Cardinality({w \in Ids : /\ workers[w].frame = f
                             /\ workers[w].status = "idle"
                             /\ HasRawFrame(workers[w])})

\* No frame keeps its buffer after the application is done with it, and no
\* buffer is given back while it waits for output or is being looked at.
OutputReferencesExact == \A f \in Frames : outRefs[f] = Holders(f)

\* Without failures the control thread counts the free workers and the
\* application's references exactly, in every order of the workers.
OutputAccounted == AvailableThreadsExact /\ OutputReferencesExact

\* After a flush, a decoder_get_frame() that returns nothing leaves nothing.
FlushDrains ==
  [][at = "get" /\ at' = "ready" /\ image' = image /\ ctl.flushed =>
       /\ \A w \in Ids : ~workers'[w].received_frame
       /\ \A f \in shown : f <= image]_vars

\* After a failed frame nothing is returned until the next intra frame.
ResyncAfterError ==
  [][image' # image =>
       \A f \in failed : f < image' =>
         \E g \in intras : f < g /\ g <= image']_vars

\* Every call of the application returns.
CallsReturn == at # "ready" ~> at = "ready"

\* No output reference is given back twice.
ReleasedOnce == \A f \in Frames : outRefs[f] >= 0
=============================================================================
