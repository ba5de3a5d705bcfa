---------------------- MODULE FrameParallelControlProofs ----------------------
(***************************************************************************)
(* The control thread of the frame-parallel decoder for any number of      *)
(* workers, any size of the cache and of superframes: what failures can    *)
(* not do, and how exact the order and the accounts are without them.      *)
(***************************************************************************)
EXTENDS FrameParallelControl, FiniteSetTheorems, TLAPS

\* What the loop of decoder_decode() and a worker without a frame are.
BaseInv ==
  /\ TypeOK
  /\ at = "decode" => data \in Data /\ todo > 0 /\ ctl.submitted + todo <= MaxFrames
  /\ \A w \in Ids : workers[w].frame = NoFrame =>
       workers[w].status = "idle" /\ ~workers[w].show_frame

-----------------------------------------------------------------------------
(* What the operations do *)

LEMMA NextIdIs ==
  ASSUME NEW w \in Ids
  PROVE  /\ NextId(w) \in Ids
         /\ NextId(w) = IF w = NumWorkers - 1 THEN 0 ELSE w + 1
<1>1. NumWorkers \in Nat \ {0} /\ w \in 0 .. NumWorkers - 1
  BY ControlAssumption DEF Ids
<1>2. CASE w = NumWorkers - 1
  <2>1. (w + 1) % NumWorkers = 0
    BY <1>1, <1>2, Z3
  <2> QED
    BY <1>1, <1>2, <2>1 DEF NextId, Ids
<1>3. CASE w # NumWorkers - 1
  <2>1. (w + 1) % NumWorkers = w + 1
    BY <1>1, <1>3, Z3
  <2> QED
    BY <1>1, <1>3, <2>1 DEF NextId, Ids
<1> QED
  BY <1>2, <1>3

LEMMA KindsAre ==
  ASSUME NEW kind \in Kinds
  PROVE  /\ kind.type \in {"key", "inter", "intra_only", "existing"}
         /\ kind.show \in BOOLEAN
         /\ kind # BadIndex
<1>1. kind.type \in {"key", "inter", "intra_only", "existing"} /\ kind.show \in BOOLEAN
  BY DEF Kinds
<1>2. BadIndex.type = "bad_index"
  BY DEF BadIndex
<1> QED
  BY <1>1, <1>2

LEMMA WithHeaderIs ==
  ASSUME NEW worker \in Workers
  PROVE  /\ WithHeader(worker) \in Workers
         /\ WithHeader(worker).frame = worker.frame
         /\ WithHeader(worker).kind = worker.kind
         /\ WithHeader(worker).status = worker.status
         /\ WithHeader(worker).received_frame = worker.received_frame
         /\ WithHeader(worker).ready_for_new_data = worker.ready_for_new_data
         /\ WithHeader(worker).frame_context_ready = worker.frame_context_ready
         /\ WithHeader(worker).had_error = worker.had_error
         /\ WithHeader(worker).show_frame = worker.kind.show
         /\ WithHeader(worker).has_refs =
              (worker.has_refs \/ worker.kind.type # "existing")
         /\ WithHeader(worker).need_resync =
              (worker.need_resync /\ ~IsIntra(worker.kind))
         /\ IsIntra(worker.kind) =>
              WithHeader(worker).keyFrame \/ WithHeader(worker).intra_only
<1>1. worker.kind.show \in BOOLEAN /\ worker.kind \in Kinds
  BY KindsAre DEF Workers
<1> DEFINE type == worker.kind.type
           k == IF type = "existing" THEN worker.keyFrame ELSE type = "key"
           i == IF type \in {"key", "existing"} THEN worker.intra_only
                ELSE type = "intra_only"
           r == worker.has_refs \/ type # "existing"
           n == worker.need_resync /\ ~IsIntra(worker.kind)
<1>2. WithHeader(worker) =
        [worker EXCEPT !.keyFrame = k, !.intra_only = i,
                       !.show_frame = worker.kind.show,
                       !.has_refs = r, !.need_resync = n]
  BY DEF WithHeader
<1>3. k \in BOOLEAN /\ i \in BOOLEAN /\ r \in BOOLEAN /\ n \in BOOLEAN
  BY <1>1 DEF Workers
<1>4. IsIntra(worker.kind) => k \/ i
  BY DEF IsIntra
<1> HIDE DEF k, i, r, n
<1>5. /\ WithHeader(worker) \in Workers
      /\ WithHeader(worker).keyFrame = k /\ WithHeader(worker).intra_only = i
      /\ WithHeader(worker).has_refs = r /\ WithHeader(worker).need_resync = n
      /\ WithHeader(worker).show_frame = worker.kind.show
      /\ WithHeader(worker).frame = worker.frame
      /\ WithHeader(worker).kind = worker.kind
      /\ WithHeader(worker).status = worker.status
      /\ WithHeader(worker).received_frame = worker.received_frame
      /\ WithHeader(worker).ready_for_new_data = worker.ready_for_new_data
      /\ WithHeader(worker).frame_context_ready = worker.frame_context_ready
      /\ WithHeader(worker).had_error = worker.had_error
  BY <1>1, <1>2, <1>3 DEF Workers
<1> QED
  BY <1>4, <1>5 DEF r, n

\* All workers but one are as they were.
Others(w) == \A v \in Ids : v # w => workers'[v] = workers[v]

\* A worker has the same frame, which the application has taken or not.
SameFrame(w) ==
  /\ workers'[w].frame = workers[w].frame
  /\ workers'[w].kind = workers[w].kind
  /\ workers'[w].received_frame = workers[w].received_frame

LEMMA HeaderReadIs ==
  ASSUME TypeOK, NEW w \in Ids, NEW early \in BOOLEAN, HeaderRead(w, early)
  PROVE  /\ workers' \in [Ids -> Workers] /\ Others(w) /\ SameFrame(w)
         /\ workers[w].status = "header" /\ workers'[w].status = "body"
         /\ workers[w].kind.type # "existing"
         /\ workers'[w].ready_for_new_data = workers[w].ready_for_new_data
         /\ workers'[w].had_error = workers[w].had_error
         /\ workers'[w].show_frame = workers[w].kind.show
         /\ workers'[w].has_refs = TRUE
         /\ workers'[w].need_resync =
              (workers[w].need_resync /\ ~IsIntra(workers[w].kind))
         /\ IsIntra(workers[w].kind) =>
              workers'[w].keyFrame \/ workers'[w].intra_only
<1> DEFINE x == WithHeader(workers[w])
<1>1. /\ workers \in [Ids -> Workers] /\ workers[w] \in Workers
      /\ workers[w].status = "header" /\ workers[w].kind.type # "existing"
      /\ workers' = [workers EXCEPT ![w] =
           [x EXCEPT !.status = "body", !.frame_context_ready = early]]
  BY DEF HeaderRead, TypeOK
<1>2. /\ x \in Workers /\ x.frame = workers[w].frame /\ x.kind = workers[w].kind
      /\ x.received_frame = workers[w].received_frame
      /\ x.ready_for_new_data = workers[w].ready_for_new_data
      /\ x.had_error = workers[w].had_error
      /\ x.show_frame = workers[w].kind.show
      /\ x.has_refs = (workers[w].has_refs \/ workers[w].kind.type # "existing")
      /\ x.need_resync = (workers[w].need_resync /\ ~IsIntra(workers[w].kind))
      /\ IsIntra(workers[w].kind) => x.keyFrame \/ x.intra_only
  BY <1>1, WithHeaderIs
<1> DEFINE y == [x EXCEPT !.status = "body", !.frame_context_ready = early]
<1> HIDE DEF x
<1>3. /\ y \in Workers /\ y.status = "body" /\ y.frame = x.frame /\ y.kind = x.kind
      /\ y.received_frame = x.received_frame
      /\ y.ready_for_new_data = x.ready_for_new_data
      /\ y.had_error = x.had_error /\ y.show_frame = x.show_frame
      /\ y.has_refs = x.has_refs /\ y.need_resync = x.need_resync
      /\ y.keyFrame = x.keyFrame /\ y.intra_only = x.intra_only
  BY <1>2 DEF Workers
<1> HIDE DEF y
<1>4. workers' = [workers EXCEPT ![w] = y]
  BY <1>1 DEF y
<1>5. /\ workers' \in [Ids -> Workers] /\ Others(w) /\ workers'[w] = y
  BY <1>1, <1>3, <1>4 DEF Others
<1>6. x.has_refs = TRUE
  BY <1>1, <1>2
<1> QED
  BY <1>1, <1>2, <1>3, <1>5, <1>6 DEF SameFrame

LEMMA DecodedIs ==
  ASSUME TypeOK, NEW w \in Ids, NEW trailing \in BOOLEAN, Decoded(w, trailing)
  PROVE  /\ workers' \in [Ids -> Workers] /\ Others(w) /\ SameFrame(w)
         /\ workers[w].status \in {"header", "body"} /\ workers'[w].status = "idle"
         /\ workers[w].status = "header" => workers[w].has_refs
         /\ workers'[w].ready_for_new_data = workers[w].ready_for_new_data
         /\ workers'[w].had_error = trailing
         /\ workers'[w].show_frame = workers[w].kind.show
         /\ workers[w].has_refs => workers'[w].has_refs
         /\ ~trailing => workers'[w].need_resync =
              (workers[w].need_resync /\ ~IsIntra(workers[w].kind))
         /\ IsIntra(workers[w].kind) =>
              workers'[w].keyFrame \/ workers'[w].intra_only
<1> DEFINE x == WithHeader(workers[w])
           n == x.need_resync \/ trailing
           y == [x EXCEPT !.status = "idle", !.frame_context_ready = TRUE,
                          !.need_resync = n, !.had_error = trailing]
<1>1. /\ workers \in [Ids -> Workers] /\ workers[w] \in Workers
      /\ workers[w].status \in {"header", "body"}
      /\ workers[w].status = "header" => workers[w].has_refs
  BY DEF Decoded, TypeOK, Refused
<1>6. workers' = [workers EXCEPT ![w] = y]
  BY DEF Decoded
<1>2. /\ x \in Workers /\ x.frame = workers[w].frame /\ x.kind = workers[w].kind
      /\ x.received_frame = workers[w].received_frame
      /\ x.ready_for_new_data = workers[w].ready_for_new_data
      /\ x.show_frame = workers[w].kind.show
      /\ x.has_refs = (workers[w].has_refs \/ workers[w].kind.type # "existing")
      /\ x.need_resync = (workers[w].need_resync /\ ~IsIntra(workers[w].kind))
      /\ IsIntra(workers[w].kind) => x.keyFrame \/ x.intra_only
  BY <1>1, WithHeaderIs
<1> HIDE DEF x
<1>3. n \in BOOLEAN /\ (~trailing => n = x.need_resync)
  BY <1>2 DEF Workers
<1> HIDE DEF n
<1>4. /\ y \in Workers /\ y.status = "idle" /\ y.frame = x.frame /\ y.kind = x.kind
      /\ y.received_frame = x.received_frame
      /\ y.ready_for_new_data = x.ready_for_new_data
      /\ y.had_error = trailing /\ y.show_frame = x.show_frame
      /\ y.has_refs = x.has_refs /\ y.need_resync = n
      /\ y.keyFrame = x.keyFrame /\ y.intra_only = x.intra_only
  BY <1>2, <1>3 DEF Workers
<1> HIDE DEF y
<1>5. /\ workers' \in [Ids -> Workers] /\ Others(w) /\ workers'[w] = y
  BY <1>1, <1>4, <1>6 DEF Others
<1> QED
  BY <1>1, <1>2, <1>3, <1>4, <1>5 DEF SameFrame

LEMMA FailedWorkerIs ==
  ASSUME NEW worker \in Workers
  PROVE  /\ FailedWorker(worker) \in Workers
         /\ FailedWorker(worker).status = "idle"
         /\ FailedWorker(worker).frame = worker.frame
         /\ FailedWorker(worker).kind = worker.kind
         /\ FailedWorker(worker).received_frame = worker.received_frame
         /\ FailedWorker(worker).show_frame = worker.show_frame
BY DEF FailedWorker, Workers

LEMMA FailsIs ==
  ASSUME TypeOK, NEW w \in Ids, HeaderFails(w) \/ BodyFails(w)
  PROVE  /\ workers' \in [Ids -> Workers] /\ Others(w) /\ SameFrame(w)
         /\ workers[w].status \in {"header", "body"} /\ workers'[w].status = "idle"
<1>1. workers \in [Ids -> Workers] /\ workers[w] \in Workers
  BY DEF TypeOK
<1>2. PICK x \in Workers :
        /\ x.frame = workers[w].frame /\ x.kind = workers[w].kind
        /\ x.received_frame = workers[w].received_frame
        /\ workers' = [workers EXCEPT ![w] = FailedWorker(x)]
  <2>1. CASE HeaderFails(w)
    <3>1. PICK read \in BOOLEAN :
            workers' = [workers EXCEPT ![w] =
              FailedWorker(IF read THEN WithHeader(workers[w]) ELSE workers[w])]
      BY <2>1 DEF HeaderFails
    <3>2. CASE read
      BY <1>1, <3>1, <3>2, WithHeaderIs
    <3>3. CASE ~read
      BY <1>1, <3>1, <3>3
    <3> QED
      BY <3>2, <3>3
  <2>2. CASE BodyFails(w)
    BY <1>1, <2>2 DEF BodyFails
  <2> QED
    BY <2>1, <2>2
<1>3. workers[w].status \in {"header", "body"}
  BY DEF HeaderFails, BodyFails
<1>4. /\ FailedWorker(x) \in Workers /\ FailedWorker(x).status = "idle"
      /\ FailedWorker(x).frame = x.frame /\ FailedWorker(x).kind = x.kind
      /\ FailedWorker(x).received_frame = x.received_frame
  BY FailedWorkerIs
<1> QED
  BY <1>1, <1>2, <1>3, <1>4 DEF Others, SameFrame

\* What a worker's own step leaves alone.
LEMMA WorkerStepIs ==
  ASSUME TypeOK, NEW w \in Ids, WorkerStep(w)
  PROVE  /\ workers' \in [Ids -> Workers] /\ Others(w) /\ SameFrame(w)
         /\ workers[w].status # "idle"
         /\ UNCHANGED <<ctl, at, todo, data, image, intras>>
<1>1. CASE \E early \in BOOLEAN : HeaderRead(w, early)
  <2>1. PICK early \in BOOLEAN : HeaderRead(w, early)
    BY <1>1
  <2>2. UNCHANGED <<ctl, at, todo, data, image, intras>>
    BY <2>1 DEF HeaderRead
  <2> QED
    BY <2>1, <2>2, HeaderReadIs
<1>2. CASE \E trailing \in BOOLEAN : Decoded(w, trailing)
  <2>1. PICK trailing \in BOOLEAN : Decoded(w, trailing)
    BY <1>2
  <2>2. UNCHANGED <<ctl, at, todo, data, image, intras>>
    BY <2>1 DEF Decoded
  <2>3. /\ workers' \in [Ids -> Workers] /\ Others(w) /\ SameFrame(w)
        /\ workers[w].status \in {"header", "body"}
    BY <2>1, DecodedIs
  <2> QED
    BY <2>2, <2>3
<1>3. CASE HeaderFails(w) \/ BodyFails(w)
  <2>1. UNCHANGED <<ctl, at, todo, data, image, intras>>
    BY <1>3 DEF HeaderFails, BodyFails
  <2>2. /\ workers' \in [Ids -> Workers] /\ Others(w) /\ SameFrame(w)
        /\ workers[w].status \in {"header", "body"}
    BY <1>3, FailsIs
  <2> QED
    BY <2>1, <2>2
<1> QED
  BY <1>1, <1>2, <1>3 DEF WorkerStep

LEMMA CheckResyncIs ==
  ASSUME NEW c \in Controls, NEW worker \in Workers
  PROVE  /\ CheckResync(c, worker) \in Controls
         /\ CheckResync(c, worker).next_submit = c.next_submit
         /\ CheckResync(c, worker).last_submit = c.last_submit
         /\ CheckResync(c, worker).next_output = c.next_output
         /\ CheckResync(c, worker).available_threads = c.available_threads
         /\ CheckResync(c, worker).si_h = c.si_h
         /\ CheckResync(c, worker).flushed = c.flushed
         /\ CheckResync(c, worker).last_show_frame = c.last_show_frame
         /\ CheckResync(c, worker).cache = c.cache
         /\ CheckResync(c, worker).submitted = c.submitted
         /\ CheckResync(c, worker).need_resync =
              (c.need_resync
               /\ ~(~worker.need_resync /\ (worker.intra_only \/ worker.keyFrame)))
<1> DEFINE n == c.need_resync
                /\ ~(~worker.need_resync /\ (worker.intra_only \/ worker.keyFrame))
<1>1. CheckResync(c, worker) = [c EXCEPT !.need_resync = n]
  BY DEF CheckResync
<1>2. n \in BOOLEAN
  BY DEF Controls
<1> HIDE DEF n
<1>3. [c EXCEPT !.need_resync = n] \in Controls
  BY <1>2 DEF Controls
<1>4. [c EXCEPT !.need_resync = n].need_resync = n
  BY DEF Controls
<1>5. n = (c.need_resync
           /\ ~(~worker.need_resync /\ (worker.intra_only \/ worker.keyFrame)))
  BY DEF n
<1> QED
  BY <1>1, <1>3, <1>4, <1>5 DEF Controls

LEMMA PreparedIs ==
  ASSUME TypeOK, NEW w \in Ids
  PROVE  /\ Prepared(w) \in Workers
         /\ Prepared(w).status = workers[w].status
         /\ Prepared(w).frame = workers[w].frame
         /\ Prepared(w).received_frame = workers[w].received_frame
         /\ Prepared(w).show_frame = workers[w].show_frame
         /\ Prepared(w).ready_for_new_data = FALSE
         /\ w # ctl.last_submit =>
              /\ Prepared(w).need_resync = workers[ctl.last_submit].need_resync
              /\ Prepared(w).has_refs = workers[ctl.last_submit].has_refs
         /\ w = ctl.last_submit =>
              /\ Prepared(w).need_resync = workers[w].need_resync
              /\ Prepared(w).has_refs = workers[w].has_refs
<1> DEFINE last == workers[ctl.last_submit]
           c == IF w # ctl.last_submit THEN WithContext(workers[w], last)
                ELSE workers[w]
<1>1. workers[w] \in Workers /\ last \in Workers
  BY DEF TypeOK, Controls
<1>2. /\ WithContext(workers[w], last) \in Workers
      /\ WithContext(workers[w], last).status = workers[w].status
      /\ WithContext(workers[w], last).frame = workers[w].frame
      /\ WithContext(workers[w], last).received_frame = workers[w].received_frame
      /\ WithContext(workers[w], last).show_frame = workers[w].show_frame
      /\ WithContext(workers[w], last).need_resync = last.need_resync
      /\ WithContext(workers[w], last).has_refs = last.has_refs
  <2> HIDE DEF last
  <2> QED
    BY <1>1 DEF WithContext, Workers
<1>3. Prepared(w) = [c EXCEPT !.ready_for_new_data = FALSE]
  BY DEF Prepared
<1>4. c \in Workers
  BY <1>1, <1>2
<1>5. /\ Prepared(w) \in Workers
      /\ Prepared(w).status = c.status /\ Prepared(w).frame = c.frame
      /\ Prepared(w).received_frame = c.received_frame
      /\ Prepared(w).show_frame = c.show_frame
      /\ Prepared(w).need_resync = c.need_resync
      /\ Prepared(w).has_refs = c.has_refs
      /\ Prepared(w).ready_for_new_data = FALSE
  <2> HIDE DEF c
  <2> QED
    BY <1>3, <1>4 DEF Workers
<1> QED
  BY <1>1, <1>2, <1>5

\* The cache is a short sequence.
Caches == UNION {[1 .. n -> Frames] : n \in 0 .. FRAME_CACHE_SIZE}

LEMMA CachesAre ==
  /\ \A c \in Caches : c \in Seq(Frames) /\ Len(c) <= FRAME_CACHE_SIZE
  /\ \A c \in Seq(Frames) : Len(c) <= FRAME_CACHE_SIZE => c \in Caches
<1>1. FRAME_CACHE_SIZE \in Nat
  BY ControlAssumption
<1>2. ASSUME NEW c \in Caches
      PROVE  c \in Seq(Frames) /\ Len(c) <= FRAME_CACHE_SIZE
  <2>1. PICK n \in 0 .. FRAME_CACHE_SIZE : c \in [1 .. n -> Frames]
    BY DEF Caches
  <2>2. n \in Nat /\ n <= FRAME_CACHE_SIZE
    BY <1>1, <2>1
  <2>3. c \in Seq(Frames) /\ Len(c) = n
    BY <2>1, <2>2
  <2> QED
    BY <2>2, <2>3
<1>3. ASSUME NEW c \in Seq(Frames), Len(c) <= FRAME_CACHE_SIZE
      PROVE  c \in Caches
  <2>1. Len(c) \in 0 .. FRAME_CACHE_SIZE /\ c \in [1 .. Len(c) -> Frames]
    BY <1>1, <1>3
  <2> QED
    BY <2>1 DEF Caches
<1> QED
  BY <1>2, <1>3

LEMMA ControlsAre ==
  TypeOK =>
    /\ ctl \in Controls
    /\ ctl.next_submit \in Ids /\ ctl.last_submit \in Ids /\ ctl.next_output \in Ids
    /\ ctl.available_threads \in Int /\ ctl.submitted \in 0 .. MaxFrames
    /\ {ctl.si_h, ctl.flushed, ctl.need_resync} \subseteq BOOLEAN
    /\ ctl.last_show_frame \in Frames \cup {NoFrame}
    /\ ctl.cache \in Caches
    /\ ctl.cache \in Seq(Frames) /\ Len(ctl.cache) <= FRAME_CACHE_SIZE
<1> SUFFICES ASSUME TypeOK
             PROVE  /\ ctl \in Controls
                    /\ ctl.next_submit \in Ids /\ ctl.last_submit \in Ids
                    /\ ctl.next_output \in Ids
                    /\ ctl.available_threads \in Int /\ ctl.submitted \in 0 .. MaxFrames
                    /\ {ctl.si_h, ctl.flushed, ctl.need_resync} \subseteq BOOLEAN
                    /\ ctl.last_show_frame \in Frames \cup {NoFrame}
                    /\ ctl.cache \in Caches
                    /\ ctl.cache \in Seq(Frames) /\ Len(ctl.cache) <= FRAME_CACHE_SIZE
  OBVIOUS
<1>1. ctl \in Controls /\ ctl.cache \in Caches
  BY DEF TypeOK, Controls, Caches
<1>2. ctl.cache \in Seq(Frames) /\ Len(ctl.cache) <= FRAME_CACHE_SIZE
  BY <1>1, CachesAre
<1> QED
  BY <1>1, <1>2 DEF Controls

LEMMA DecodeOneIs ==
  ASSUME BaseInv, DecodeOne
  PROVE  /\ workers' \in [Ids -> Workers] /\ Others(ctl.next_submit)
         /\ ctl.submitted + 1 \in Frames
         /\ workers[ctl.next_submit].status = "idle"
         /\ workers'[ctl.next_submit].status = "header"
         /\ workers'[ctl.next_submit].frame = ctl.submitted + 1
         /\ workers'[ctl.next_submit].kind = data
         /\ workers'[ctl.next_submit].received_frame = TRUE
         /\ workers'[ctl.next_submit].ready_for_new_data = FALSE
         /\ workers'[ctl.next_submit].frame_context_ready = FALSE
         /\ workers'[ctl.next_submit].had_error = FALSE
         /\ workers'[ctl.next_submit].need_resync =
              Prepared(ctl.next_submit).need_resync
         /\ workers'[ctl.next_submit].has_refs = Prepared(ctl.next_submit).has_refs
         /\ ctl' \in Controls
         /\ ctl'.si_h = TRUE
         /\ ctl'.last_submit = IF ctl.next_submit # ctl.last_submit
                                 THEN NextId(ctl.last_submit) ELSE ctl.last_submit
         /\ ctl'.next_submit = NextId(ctl.next_submit)
         /\ ctl'.next_output = ctl.next_output
         /\ ctl'.available_threads = ctl.available_threads - 1
         /\ ctl'.submitted = ctl.submitted + 1
         /\ ctl'.flushed = ctl.flushed /\ ctl'.need_resync = ctl.need_resync
         /\ ctl'.last_show_frame = ctl.last_show_frame /\ ctl'.cache = ctl.cache
         /\ at = "decode" /\ data \in Kinds /\ (ctl.si_h \/ IsIntra(data))
         /\ ContextReady /\ ctl.available_threads # 0
         /\ at' \in {"ready", "decode"} /\ todo' = todo - 1
         /\ at' = "decode" => data' \in Data /\ todo # 1
         /\ data' \in Data \cup {NoData}
         /\ UNCHANGED <<outRefs, image, shown, failed>>
<1> DEFINE w == ctl.next_submit
           f == ctl.submitted + 1
           x == Prepared(w)
<1>1. /\ w \in Ids /\ ctl.last_submit \in Ids /\ ctl \in Controls /\ TypeOK
      /\ workers \in [Ids -> Workers] /\ ctl.submitted \in 0 .. MaxFrames
      /\ NextId(w) \in Ids /\ NextId(ctl.last_submit) \in Ids
      /\ ctl.available_threads \in Int
  <2>1. TypeOK
    BY DEF BaseInv
  <2>2. w \in Ids /\ ctl.last_submit \in Ids
    BY <2>1, ControlsAre
  <2> QED
    BY <2>1, <2>2, ControlsAre, NextIdIs DEF TypeOK
<1>2. /\ at = "decode" /\ data # BadIndex /\ workers[w].status = "idle"
      /\ ctl.si_h \/ IsIntra(data)
      /\ ContextReady /\ ctl.available_threads # 0
      /\ at' \in {"ready", "decode"} /\ todo' = todo - 1
      /\ at' = "decode" => data' \in Data /\ todo # 1
      /\ data' \in Data \cup {NoData}
      /\ UNCHANGED <<outRefs, image, shown, failed>>
  BY DEF DecodeOne, MayDecodeOne
<1>3. /\ data \in Kinds /\ f \in Frames
  <2>1. data \in Data /\ ctl.submitted + todo <= MaxFrames /\ todo > 0
        /\ todo \in Int
    BY <1>2 DEF BaseInv, TypeOK
  <2>2. f \in Frames
    BY <1>1, <2>1, ControlAssumption DEF Frames
  <2> QED
    BY <1>2, <2>1, <2>2 DEF Data
<1>4. x \in Workers
  BY <1>1, PreparedIs
<1> DEFINE y == [x EXCEPT !.status = "header", !.frame = f, !.kind = data,
                          !.frame_context_ready = FALSE,
                          !.received_frame = TRUE, !.had_error = FALSE]
           last == IF w # ctl.last_submit THEN NextId(ctl.last_submit)
                   ELSE ctl.last_submit
           c == [ctl EXCEPT !.si_h = TRUE, !.last_submit = last,
                            !.next_submit = NextId(w),
                            !.available_threads = ctl.available_threads - 1,
                            !.submitted = f]
<1>5. workers' = [workers EXCEPT ![w] = y]
  BY DEF DecodeOne
<1>6. ctl' = c
  BY DEF DecodeOne
<1>7. last \in Ids
  BY <1>1
<1>11. x.ready_for_new_data = FALSE
  BY <1>1, PreparedIs
<1>8. /\ y \in Workers /\ y.status = "header" /\ y.frame = f /\ y.kind = data
      /\ y.received_frame = TRUE /\ y.ready_for_new_data = FALSE
      /\ y.frame_context_ready = FALSE /\ y.had_error = FALSE
      /\ y.need_resync = x.need_resync /\ y.has_refs = x.has_refs
  <2> HIDE DEF x, f
  <2> QED
    BY <1>3, <1>4, <1>11 DEF Workers
<1>9. /\ c \in Controls /\ c.si_h = TRUE /\ c.last_submit = last
      /\ c.next_submit = NextId(w) /\ c.next_output = ctl.next_output
      /\ c.available_threads = ctl.available_threads - 1
      /\ c.submitted = f /\ c.flushed = ctl.flushed
      /\ c.need_resync = ctl.need_resync
      /\ c.last_show_frame = ctl.last_show_frame /\ c.cache = ctl.cache
  <2>1. f \in 0 .. MaxFrames /\ ctl.available_threads - 1 \in Int
        /\ NextId(w) \in Ids
    BY <1>1, <1>3 DEF Frames
  <2> HIDE DEF f, last, w
  <2> QED
    BY <1>1, <1>7, <2>1 DEF Controls
<1>10. workers' \in [Ids -> Workers] /\ Others(w) /\ workers'[w] = y
  <2> HIDE DEF y
  <2> QED
    BY <1>1, <1>5, <1>8 DEF Others
<1> HIDE DEF c, y
<1> QED
  BY <1>2, <1>3, <1>6, <1>8, <1>9, <1>10


\* The application has taken worker w's frame: it is free for another.
Released(w) ==
  /\ workers' \in [Ids -> Workers] /\ Others(w)
  /\ workers'[w].received_frame = FALSE /\ workers'[w].ready_for_new_data = TRUE
  /\ workers'[w].status = workers[w].status
  /\ workers'[w].frame = workers[w].frame /\ workers'[w].kind = workers[w].kind
  /\ workers'[w].had_error = workers[w].had_error
  /\ workers'[w].need_resync = workers[w].need_resync
  /\ workers'[w].has_refs = workers[w].has_refs
  /\ workers'[w].show_frame = workers[w].show_frame
  /\ workers'[w].keyFrame = workers[w].keyFrame
  /\ workers'[w].intra_only = workers[w].intra_only
  /\ workers'[w].frame_context_ready = workers[w].frame_context_ready

LEMMA ReleasedIs ==
  ASSUME TypeOK, NEW w \in Ids,
         workers' = [workers EXCEPT ![w].received_frame = FALSE,
                                    ![w].ready_for_new_data = TRUE]
  PROVE  Released(w)
<1> DEFINE y == [workers[w] EXCEPT !.received_frame = FALSE,
                                   !.ready_for_new_data = TRUE]
<1>1. workers \in [Ids -> Workers] /\ workers[w] \in Workers
  BY DEF TypeOK
<1>2. /\ y \in Workers /\ y.received_frame = FALSE /\ y.ready_for_new_data = TRUE
      /\ y.status = workers[w].status
      /\ y.frame = workers[w].frame /\ y.kind = workers[w].kind
      /\ y.had_error = workers[w].had_error
      /\ y.need_resync = workers[w].need_resync
      /\ y.has_refs = workers[w].has_refs
      /\ y.show_frame = workers[w].show_frame
      /\ y.keyFrame = workers[w].keyFrame
      /\ y.intra_only = workers[w].intra_only
      /\ y.frame_context_ready = workers[w].frame_context_ready
  BY <1>1 DEF Workers
<1>3. workers' = [workers EXCEPT ![w] = y]
  BY <1>1
<1> HIDE DEF y
<1>4. workers' \in [Ids -> Workers] /\ Others(w) /\ workers'[w] = y
  BY <1>1, <1>2, <1>3 DEF Others
<1> QED
  BY <1>2, <1>4 DEF Released

\* What the ways of taking frames leave alone of the control thread's data.
SameSubmission ==
  /\ ctl' \in Controls
  /\ ctl'.si_h = ctl.si_h /\ ctl'.flushed = ctl.flushed
  /\ ctl'.next_submit = ctl.next_submit /\ ctl'.last_submit = ctl.last_submit
  /\ ctl'.submitted = ctl.submitted

\* Whether the wait for an intra frame goes on after worker's frame.
StillResync(worker) ==
  ctl.need_resync
  /\ ~(~worker.need_resync /\ (worker.intra_only \/ worker.keyFrame))

LEMMA RawFrameIs ==
  ASSUME BaseInv, NEW w \in Ids, HasRawFrame(workers[w])
  PROVE  workers[w].frame \in Frames
<1>1. workers[w] \in Workers
  BY DEF BaseInv, TypeOK
<1>2. workers[w].frame # NoFrame
  BY DEF BaseInv, HasRawFrame
<1> QED
  BY <1>1, <1>2 DEF Workers

LEMMA WaitIs ==
  ASSUME BaseInv, WaitWorkerAndCacheFrame
  PROVE  /\ Released(ctl.next_output) /\ workers[ctl.next_output].status = "idle"
         /\ SameSubmission
         /\ ctl'.next_output = NextId(ctl.next_output)
         /\ ctl.available_threads = 0 /\ ctl'.available_threads = 1
         /\ ctl'.last_show_frame = ctl.last_show_frame
         /\ ctl'.need_resync = StillResync(workers[ctl.next_output])
         /\ HasRawFrame(workers[ctl.next_output]) =>
              ctl'.cache = Append(ctl.cache, workers[ctl.next_output].frame)
         /\ ~HasRawFrame(workers[ctl.next_output]) => ctl'.cache = ctl.cache
         /\ at = "decode"
         /\ UNCHANGED <<outRefs, at, todo, data, image, shown, failed, intras>>
<1> DEFINE w == ctl.next_output
           freed == [ctl EXCEPT !.next_output = NextId(w),
                                !.available_threads = ctl.available_threads + 1]
           cached == IF HasRawFrame(workers[w])
                       THEN Append(ctl.cache, workers[w].frame) ELSE ctl.cache
           synced == CheckResync(freed, workers[w])
<1>1. TypeOK /\ w \in Ids /\ workers[w] \in Workers /\ ctl \in Controls
      /\ NextId(w) \in Ids
  <2>1. TypeOK /\ w \in Ids
    BY ControlsAre DEF BaseInv
  <2> QED
    BY <2>1, NextIdIs DEF TypeOK
<1>2. /\ at = "decode" /\ ctl.available_threads = 0
      /\ Len(ctl.cache) < FRAME_CACHE_SIZE
      /\ workers[w].status = "idle"
      /\ UNCHANGED <<outRefs, at, todo, data, image, shown, failed, intras>>
  BY DEF WaitWorkerAndCacheFrame
<1>3. ctl' = [synced EXCEPT !.cache = cached]
  BY DEF WaitWorkerAndCacheFrame
<1>4. Released(w)
  <2>1. workers' = [workers EXCEPT ![w].received_frame = FALSE,
                                   ![w].ready_for_new_data = TRUE]
    BY DEF WaitWorkerAndCacheFrame
  <2> QED
    BY <1>1, <2>1, ReleasedIs
<1>5. /\ freed \in Controls
      /\ freed.si_h = ctl.si_h /\ freed.flushed = ctl.flushed
      /\ freed.next_submit = ctl.next_submit /\ freed.last_submit = ctl.last_submit
      /\ freed.submitted = ctl.submitted /\ freed.next_output = NextId(w)
      /\ freed.available_threads = 1
      /\ freed.last_show_frame = ctl.last_show_frame
      /\ freed.need_resync = ctl.need_resync
  <2> DEFINE n == NextId(w)
             a == ctl.available_threads + 1
  <2>1. n \in Ids /\ a = 1 /\ a \in Int
    BY <1>1, <1>2
  <2>2. freed = [ctl EXCEPT !.next_output = n, !.available_threads = a]
    OBVIOUS
  <2> HIDE DEF n, a, w, freed
  <2>3. /\ freed \in Controls
        /\ freed.si_h = ctl.si_h /\ freed.flushed = ctl.flushed
        /\ freed.next_submit = ctl.next_submit
        /\ freed.last_submit = ctl.last_submit
        /\ freed.submitted = ctl.submitted /\ freed.next_output = n
        /\ freed.available_threads = a
        /\ freed.last_show_frame = ctl.last_show_frame
        /\ freed.need_resync = ctl.need_resync
    BY <1>1, <2>1, <2>2 DEF Controls
  <2> QED
    BY <2>1, <2>3 DEF n
<1> HIDE DEF freed
<1>6. /\ synced \in Controls
      /\ synced.si_h = ctl.si_h /\ synced.flushed = ctl.flushed
      /\ synced.next_submit = ctl.next_submit /\ synced.last_submit = ctl.last_submit
      /\ synced.submitted = ctl.submitted /\ synced.next_output = NextId(w)
      /\ synced.available_threads = 1
      /\ synced.last_show_frame = ctl.last_show_frame
      /\ synced.need_resync =
           (freed.need_resync
            /\ ~(~workers[w].need_resync
                 /\ (workers[w].intra_only \/ workers[w].keyFrame)))
  BY <1>1, <1>5, CheckResyncIs
<1>7. synced.need_resync = StillResync(workers[w])
  BY <1>5, <1>6 DEF StillResync
<1>8. cached \in Caches
  <2>1. ctl.cache \in Seq(Frames) /\ Len(ctl.cache) <= FRAME_CACHE_SIZE
        /\ ctl.cache \in Caches
    BY <1>1, ControlsAre
  <2>2. CASE HasRawFrame(workers[w])
    <3>1. workers[w].frame \in Frames
      BY <1>1, <2>2, RawFrameIs
    <3>2. cached \in Seq(Frames) /\ Len(cached) = Len(ctl.cache) + 1
      BY <2>1, <2>2, <3>1
    <3>3. Len(cached) <= FRAME_CACHE_SIZE
      BY <1>2, <2>1, <3>2, ControlAssumption
    <3> QED
      BY <3>2, <3>3, CachesAre
  <2> QED
    BY <2>1, <2>2
<1> HIDE DEF synced, cached
<1>9. /\ ctl' \in Controls /\ ctl'.cache = cached
      /\ ctl'.si_h = synced.si_h /\ ctl'.flushed = synced.flushed
      /\ ctl'.next_submit = synced.next_submit
      /\ ctl'.last_submit = synced.last_submit
      /\ ctl'.submitted = synced.submitted
      /\ ctl'.next_output = synced.next_output
      /\ ctl'.available_threads = synced.available_threads
      /\ ctl'.last_show_frame = synced.last_show_frame
      /\ ctl'.need_resync = synced.need_resync
  BY <1>3, <1>6, <1>8 DEF Controls, Caches
<1>10. /\ HasRawFrame(workers[w]) => cached = Append(ctl.cache, workers[w].frame)
       /\ ~HasRawFrame(workers[w]) => cached = ctl.cache
  BY DEF cached
<1> QED
  BY <1>2, <1>4, <1>6, <1>7, <1>9, <1>10 DEF SameSubmission

\* What release_last_output_frame() leaves.
LastReleased ==
  outRefs' = IF ctl.last_show_frame = NoFrame THEN outRefs
             ELSE [outRefs EXCEPT ![ctl.last_show_frame] = @ - 1]

LEMMA GetCachedFrameIs ==
  ASSUME BaseInv, GetCachedFrame
  PROVE  /\ SameSubmission
         /\ ctl'.next_output = ctl.next_output
         /\ ctl'.available_threads = ctl.available_threads
         /\ ctl'.need_resync = ctl.need_resync
         /\ ctl.cache # <<>> /\ Head(ctl.cache) \in Frames
         /\ ctl'.last_show_frame = Head(ctl.cache)
         /\ ctl.need_resync => ctl'.cache = ctl.cache /\ image' = image
         /\ ~ctl.need_resync => ctl'.cache = Tail(ctl.cache)
                                /\ image' = Head(ctl.cache)
         /\ at = "ready" /\ LastReleased
         /\ UNCHANGED <<workers, at, todo, data, shown, failed, intras>>
<1> DEFINE f == Head(ctl.cache)
           last == [ctl EXCEPT !.last_show_frame = f]
<1>1. TypeOK /\ ctl \in Controls /\ ctl.cache \in Seq(Frames)
      /\ Len(ctl.cache) <= FRAME_CACHE_SIZE
  BY ControlsAre DEF BaseInv
<1>2. /\ at = "ready" /\ ctl.cache # <<>>
      /\ UNCHANGED <<workers, at, todo, data, shown, failed, intras>>
      /\ LastReleased
  BY DEF GetCachedFrame, ReleaseLastOutputFrame, LastReleased
<1>3. f \in Frames /\ Tail(ctl.cache) \in Caches
  <2>1. f \in Frames /\ Tail(ctl.cache) \in Seq(Frames)
        /\ Len(Tail(ctl.cache)) = Len(ctl.cache) - 1 /\ Len(ctl.cache) \in Nat
    BY <1>1, <1>2
  <2>2. Len(Tail(ctl.cache)) <= FRAME_CACHE_SIZE
    BY <1>1, <2>1, ControlAssumption
  <2> QED
    BY <2>1, <2>2, CachesAre
<1>4. /\ last \in Controls /\ last.last_show_frame = f /\ last.cache = ctl.cache
      /\ last.si_h = ctl.si_h /\ last.flushed = ctl.flushed
      /\ last.next_submit = ctl.next_submit /\ last.last_submit = ctl.last_submit
      /\ last.submitted = ctl.submitted /\ last.next_output = ctl.next_output
      /\ last.available_threads = ctl.available_threads
      /\ last.need_resync = ctl.need_resync
  <2> HIDE DEF f
  <2> QED
    BY <1>1, <1>3 DEF Controls
<1>5. CASE ctl.need_resync
  <2>1. ctl' = last /\ image' = image
    BY <1>5 DEF GetCachedFrame
  <2> HIDE DEF last, f
  <2> QED
    BY <1>2, <1>3, <1>4, <1>5, <2>1 DEF SameSubmission, f
<1>6. CASE ~ctl.need_resync
  <2>1. ctl' = [last EXCEPT !.cache = Tail(last.cache)] /\ image' = f
    BY <1>6 DEF GetCachedFrame
  <2>2. ctl' = [last EXCEPT !.cache = Tail(ctl.cache)]
    BY <1>4, <2>1
  <2> HIDE DEF last, f
  <2>3. /\ ctl' \in Controls /\ ctl'.cache = Tail(ctl.cache)
        /\ ctl'.last_show_frame = f
        /\ ctl'.si_h = ctl.si_h /\ ctl'.flushed = ctl.flushed
        /\ ctl'.next_submit = ctl.next_submit /\ ctl'.last_submit = ctl.last_submit
        /\ ctl'.submitted = ctl.submitted /\ ctl'.next_output = ctl.next_output
        /\ ctl'.available_threads = ctl.available_threads
        /\ ctl'.need_resync = ctl.need_resync
    BY <1>3, <1>4, <2>2 DEF Controls, Caches
  <2> QED
    BY <1>2, <1>3, <1>6, <2>1, <2>3 DEF SameSubmission, f
<1> QED
  BY <1>5, <1>6

\* A worker's turn in the loop, counted if it holds a frame.
LEMMA ReceivedIs ==
  ASSUME TypeOK, NEW w \in Ids, NEW n \in Ids
  PROVE  LET c == Received([ctl EXCEPT !.next_output = n], workers[w])
         IN /\ c \in Controls
            /\ c.si_h = ctl.si_h /\ c.flushed = ctl.flushed
            /\ c.next_submit = ctl.next_submit /\ c.last_submit = ctl.last_submit
            /\ c.submitted = ctl.submitted /\ c.next_output = n
            /\ c.last_show_frame = ctl.last_show_frame /\ c.cache = ctl.cache
            /\ workers[w].received_frame =>
                 /\ c.available_threads = ctl.available_threads + 1
                 /\ c.need_resync = StillResync(workers[w])
            /\ ~workers[w].received_frame =>
                 /\ c.available_threads = ctl.available_threads
                 /\ c.need_resync = ctl.need_resync
<1> DEFINE moved == [ctl EXCEPT !.next_output = n]
           a == moved.available_threads + 1
           freed == [moved EXCEPT !.available_threads = a]
<1>1. ctl \in Controls /\ workers[w] \in Workers
  BY DEF TypeOK
<1>2. /\ moved \in Controls
      /\ moved.si_h = ctl.si_h /\ moved.flushed = ctl.flushed
      /\ moved.next_submit = ctl.next_submit
      /\ moved.last_submit = ctl.last_submit
      /\ moved.submitted = ctl.submitted /\ moved.next_output = n
      /\ moved.last_show_frame = ctl.last_show_frame
      /\ moved.cache = ctl.cache /\ moved.need_resync = ctl.need_resync
      /\ moved.available_threads = ctl.available_threads
  BY <1>1 DEF Controls
<1>3. Received(moved, workers[w]) = IF workers[w].received_frame
                                      THEN CheckResync(freed, workers[w]) ELSE moved
  BY DEF Received
<1> HIDE DEF moved
<1>4. a \in Int /\ a = ctl.available_threads + 1
  BY <1>1, <1>2 DEF Controls
<1> HIDE DEF a
<1>5. /\ freed \in Controls
      /\ freed.si_h = moved.si_h /\ freed.flushed = moved.flushed
      /\ freed.next_submit = moved.next_submit
      /\ freed.last_submit = moved.last_submit
      /\ freed.submitted = moved.submitted
      /\ freed.next_output = moved.next_output
      /\ freed.last_show_frame = moved.last_show_frame
      /\ freed.cache = moved.cache /\ freed.need_resync = moved.need_resync
      /\ freed.available_threads = a
  BY <1>2, <1>4 DEF Controls
<1> HIDE DEF freed
<1> DEFINE synced == CheckResync(freed, workers[w])
<1>6. /\ synced \in Controls
      /\ synced.si_h = freed.si_h /\ synced.flushed = freed.flushed
      /\ synced.next_submit = freed.next_submit
      /\ synced.last_submit = freed.last_submit
      /\ synced.submitted = freed.submitted
      /\ synced.next_output = freed.next_output
      /\ synced.last_show_frame = freed.last_show_frame
      /\ synced.cache = freed.cache
      /\ synced.available_threads = freed.available_threads
      /\ synced.need_resync =
           (freed.need_resync
            /\ ~(~workers[w].need_resync
                 /\ (workers[w].intra_only \/ workers[w].keyFrame)))
  BY <1>1, <1>5, CheckResyncIs
<1>7. synced.need_resync = StillResync(workers[w])
  BY <1>2, <1>5, <1>6 DEF StillResync
<1> HIDE DEF synced
<1> DEFINE c == Received(moved, workers[w])
<1>8. c = IF workers[w].received_frame THEN synced ELSE moved
  BY <1>3 DEF synced
<1>9. /\ c \in Controls
      /\ c.si_h = ctl.si_h /\ c.flushed = ctl.flushed
      /\ c.next_submit = ctl.next_submit /\ c.last_submit = ctl.last_submit
      /\ c.submitted = ctl.submitted /\ c.next_output = n
      /\ c.last_show_frame = ctl.last_show_frame /\ c.cache = ctl.cache
      /\ workers[w].received_frame =>
           /\ c.available_threads = ctl.available_threads + 1
           /\ c.need_resync = StillResync(workers[w])
      /\ ~workers[w].received_frame =>
           /\ c.available_threads = ctl.available_threads
           /\ c.need_resync = ctl.need_resync
  <2> HIDE DEF c
  <2>1. CASE workers[w].received_frame
    BY <1>2, <1>4, <1>5, <1>6, <1>7, <1>8, <2>1
  <2>2. CASE ~workers[w].received_frame
    BY <1>2, <1>8, <2>2
  <2> QED
    BY <2>1, <2>2
<1> QED
  BY <1>9 DEF moved

LEMMA OutputFrameIs ==
  ASSUME BaseInv, OutputFrame
  PROVE  /\ Released(ctl.next_output) /\ workers[ctl.next_output].status = "idle"
         /\ ~workers[ctl.next_output].had_error
         /\ SameSubmission
         /\ ctl'.next_output = NextId(ctl.next_output)
         /\ ctl'.cache = ctl.cache
         /\ workers[ctl.next_output].received_frame =>
              /\ ctl'.available_threads = ctl.available_threads + 1
              /\ ctl'.need_resync = StillResync(workers[ctl.next_output])
         /\ ~workers[ctl.next_output].received_frame =>
              /\ ctl'.available_threads = ctl.available_threads
              /\ ctl'.need_resync = ctl.need_resync
         /\ HasRawFrame(workers[ctl.next_output]) =>
              /\ LastReleased /\ at' = "ready"
              /\ ctl'.last_show_frame = workers[ctl.next_output].frame
              /\ image' = IF ctl'.need_resync THEN image
                          ELSE workers[ctl.next_output].frame
         /\ ~HasRawFrame(workers[ctl.next_output]) =>
              /\ UNCHANGED <<outRefs, image>>
              /\ ctl'.last_show_frame = ctl.last_show_frame
              /\ at' = IF ctl'.next_output = ctl.next_submit THEN "ready" ELSE "get"
         /\ at = "get"
         /\ UNCHANGED <<todo, data, shown, failed, intras>>
<1> DEFINE w == ctl.next_output
           n == NextId(w)
           c == Received([ctl EXCEPT !.next_output = n], workers[w])
<1>1. TypeOK /\ w \in Ids /\ n \in Ids /\ workers[w] \in Workers
  <2>1. TypeOK /\ w \in Ids
    BY ControlsAre DEF BaseInv
  <2> QED
    BY <2>1, NextIdIs DEF TypeOK
<1>2. /\ at = "get" /\ workers[w].status = "idle" /\ ~workers[w].had_error
      /\ UNCHANGED <<todo, data, shown, failed, intras>>
  BY DEF OutputFrame
<1>3. Released(w)
  <2>1. workers' = [workers EXCEPT ![w].received_frame = FALSE,
                                   ![w].ready_for_new_data = TRUE]
    BY DEF OutputFrame
  <2> QED
    BY <1>1, <2>1, ReleasedIs
<1>4. /\ HasRawFrame(workers[w]) =>
           /\ LastReleased /\ at' = "ready"
           /\ ctl' = [c EXCEPT !.last_show_frame = workers[w].frame]
           /\ image' = IF c.need_resync THEN image ELSE workers[w].frame
      /\ ~HasRawFrame(workers[w]) =>
           /\ UNCHANGED <<outRefs, image>> /\ ctl' = c
           /\ at' = IF c.next_output = c.next_submit THEN "ready" ELSE "get"
  BY DEF OutputFrame, ReleaseLastOutputFrame, LastReleased, LoopOrReturn
<1>5. /\ c \in Controls
      /\ c.si_h = ctl.si_h /\ c.flushed = ctl.flushed
      /\ c.next_submit = ctl.next_submit /\ c.last_submit = ctl.last_submit
      /\ c.submitted = ctl.submitted /\ c.next_output = n
      /\ c.last_show_frame = ctl.last_show_frame /\ c.cache = ctl.cache
      /\ workers[w].received_frame =>
           /\ c.available_threads = ctl.available_threads + 1
           /\ c.need_resync = StillResync(workers[w])
      /\ ~workers[w].received_frame =>
           /\ c.available_threads = ctl.available_threads
           /\ c.need_resync = ctl.need_resync
  BY <1>1, ReceivedIs
<1> HIDE DEF c
<1>6. CASE HasRawFrame(workers[w])
  <2>1. workers[w].frame \in Frames
    BY <1>1, <1>6, RawFrameIs
  <2>2. /\ ctl' = [c EXCEPT !.last_show_frame = workers[w].frame]
        /\ LastReleased /\ at' = "ready"
        /\ image' = IF c.need_resync THEN image ELSE workers[w].frame
    BY <1>4, <1>6
  <2>3. /\ ctl' \in Controls /\ ctl'.last_show_frame = workers[w].frame
        /\ ctl'.si_h = c.si_h /\ ctl'.flushed = c.flushed
        /\ ctl'.next_submit = c.next_submit /\ ctl'.last_submit = c.last_submit
        /\ ctl'.submitted = c.submitted /\ ctl'.next_output = c.next_output
        /\ ctl'.cache = c.cache /\ ctl'.need_resync = c.need_resync
        /\ ctl'.available_threads = c.available_threads
    <3> HIDE DEF w
    <3> QED
      BY <1>5, <2>1, <2>2 DEF Controls
  <2> QED
    BY <1>2, <1>3, <1>5, <1>6, <2>2, <2>3 DEF SameSubmission
<1>7. CASE ~HasRawFrame(workers[w])
  <2>1. /\ UNCHANGED <<outRefs, image>> /\ ctl' = c
        /\ at' = IF c.next_output = c.next_submit THEN "ready" ELSE "get"
    BY <1>4, <1>7
  <2> QED
    BY <1>2, <1>3, <1>5, <1>7, <2>1 DEF SameSubmission
<1> QED
  BY <1>6, <1>7

LEMMA OutputFailedIs ==
  ASSUME BaseInv, OutputFailed
  PROVE  /\ workers' \in [Ids -> Workers] /\ Others(ctl.next_output)
         /\ workers'[ctl.next_output].received_frame = FALSE
         /\ workers'[ctl.next_output].frame = workers[ctl.next_output].frame
         /\ workers'[ctl.next_output].status = workers[ctl.next_output].status
         /\ workers'[ctl.next_output].show_frame = workers[ctl.next_output].show_frame
         /\ workers[ctl.next_output].had_error
         /\ SameSubmission
         /\ ctl'.available_threads = ctl.available_threads + 1
         /\ at' \in {"ready", "get"}
         /\ UNCHANGED <<outRefs, todo, data, image, shown, failed, intras>>
<1> DEFINE w == ctl.next_output
           n == NextId(w)
           a == ctl.available_threads + 1
           c == [ctl EXCEPT !.next_output = n, !.available_threads = a,
                            !.need_resync = TRUE]
           y == [workers[w] EXCEPT !.received_frame = FALSE]
<1>1. TypeOK /\ w \in Ids /\ n \in Ids /\ workers[w] \in Workers /\ a \in Int
      /\ ctl \in Controls /\ workers \in [Ids -> Workers]
  <2>1. TypeOK /\ w \in Ids /\ ctl.available_threads \in Int
    BY ControlsAre DEF BaseInv
  <2> QED
    BY <2>1, NextIdIs DEF TypeOK
<1>2. /\ workers[w].had_error
      /\ workers' = [workers EXCEPT ![w] = y] /\ ctl' = c
      /\ at' \in {"ready", "get"}
      /\ UNCHANGED <<outRefs, todo, data, image, shown, failed, intras>>
  BY DEF OutputFailed, LoopOrReturn
<1>3. /\ y \in Workers /\ y.received_frame = FALSE
      /\ y.frame = workers[w].frame /\ y.status = workers[w].status
      /\ y.show_frame = workers[w].show_frame
  BY <1>1 DEF Workers
<1>4. /\ c \in Controls /\ c.available_threads = a
      /\ c.si_h = ctl.si_h /\ c.flushed = ctl.flushed
      /\ c.next_submit = ctl.next_submit /\ c.last_submit = ctl.last_submit
      /\ c.submitted = ctl.submitted
  <2> HIDE DEF a, n
  <2> QED
    BY <1>1 DEF Controls
<1> HIDE DEF c, y
<1>5. workers' \in [Ids -> Workers] /\ Others(w) /\ workers'[w] = y
  BY <1>1, <1>2, <1>3 DEF Others
<1> QED
  BY <1>2, <1>3, <1>4, <1>5 DEF SameSubmission

LEMMA ScratchFailsIs ==
  ASSUME BaseInv, ScratchFails
  PROVE  /\ workers' \in [Ids -> Workers] /\ Others(ctl.next_submit)
         /\ workers'[ctl.next_submit].received_frame =
              workers[ctl.next_submit].received_frame
         /\ workers'[ctl.next_submit].frame = workers[ctl.next_submit].frame
         /\ workers'[ctl.next_submit].status = workers[ctl.next_submit].status
         /\ workers'[ctl.next_submit].show_frame =
              workers[ctl.next_submit].show_frame
         /\ ctl' \in Controls
         /\ ctl'.available_threads = ctl.available_threads
         /\ ctl'.submitted = ctl.submitted
         /\ "scratch" \in Failures /\ at' = "ready" /\ todo' = 0 /\ data' = NoData
         /\ UNCHANGED <<outRefs, image, shown, failed, intras>>
<1> DEFINE w == ctl.next_submit
           y == Prepared(w)
           c == [ctl EXCEPT !.si_h = TRUE]
<1>1. TypeOK /\ w \in Ids /\ ctl \in Controls /\ workers \in [Ids -> Workers]
  <2>1. TypeOK
    BY DEF BaseInv
  <2> QED
    BY <2>1, ControlsAre DEF TypeOK
<1>2. /\ "scratch" \in Failures /\ at' = "ready" /\ todo' = 0 /\ data' = NoData
      /\ workers' = [workers EXCEPT ![w] = y] /\ ctl' = c
      /\ UNCHANGED <<outRefs, image, shown, failed, intras>>
  BY DEF ScratchFails
<1>3. /\ y \in Workers /\ y.received_frame = workers[w].received_frame
      /\ y.frame = workers[w].frame /\ y.status = workers[w].status
      /\ y.show_frame = workers[w].show_frame
  BY <1>1, PreparedIs
<1>4. /\ c \in Controls /\ c.available_threads = ctl.available_threads
      /\ c.submitted = ctl.submitted
  BY <1>1 DEF Controls
<1> HIDE DEF c, y
<1>5. workers' \in [Ids -> Workers] /\ Others(w) /\ workers'[w] = y
  BY <1>1, <1>2, <1>3 DEF Others
<1> QED
  BY <1>2, <1>3, <1>4, <1>5

-----------------------------------------------------------------------------
(* Every value is of its type, whatever fails *)

LEMMA BaseInit ==
  Init => BaseInv
<1> SUFFICES ASSUME Init PROVE BaseInv
  OBVIOUS
<1> USE ControlAssumption
<1>1. 0 \in Ids /\ <<>> \in Caches /\ NumWorkers \in Int /\ 0 \in 0 .. MaxFrames
  <2>1. 0 \in Ids /\ 0 \in 0 .. MaxFrames
    BY DEF Ids
  <2>2. <<>> \in Seq(Frames) /\ Len(<<>>) <= FRAME_CACHE_SIZE
    OBVIOUS
  <2>3. ASSUME NEW c \in Seq(Frames), Len(c) <= FRAME_CACHE_SIZE PROVE c \in Caches
    BY <2>3, CachesAre
  <2>4. <<>> \in Caches
    BY <2>2, <2>3, Zenon
  <2> QED
    BY <2>1, <2>4
<1>2. ctl \in Controls
  <2> DEFINE empty == <<>>
  <2>1. empty \in Caches
    BY <1>1
  <2>2. ctl = [si_h |-> FALSE, next_submit |-> 0, last_submit |-> 0,
               next_output |-> 0, available_threads |-> NumWorkers,
               flushed |-> FALSE, need_resync |-> TRUE,
               last_show_frame |-> NoFrame, cache |-> empty, submitted |-> 0]
    BY DEF Init
  <2> HIDE DEF empty
  <2> QED
    BY <1>1, <2>1, <2>2 DEF Controls, Caches
<1>3. workers \in [Ids -> Workers]
  <2>1. [type |-> "key", show |-> FALSE] \in Kinds
    BY DEF Kinds
  <2> QED
    BY <2>1 DEF Init, Workers
<1>4. /\ outRefs \in [Frames -> Int] /\ at \in {"ready", "decode", "get"}
      /\ todo \in 0 .. MaxSuperframe /\ data \in Data \cup {NoData}
      /\ image \in Frames \cup {NoFrame}
      /\ {shown, failed, intras} \subseteq SUBSET Frames
  BY DEF Init
<1>5. \A w \in Ids : workers[w].status = "idle" /\ ~workers[w].show_frame
  BY DEF Init
<1>6. at # "decode"
  BY DEF Init
<1> QED
  BY <1>2, <1>3, <1>4, <1>5, <1>6 DEF BaseInv, TypeOK

LEMMA BaseWorkerStep ==
  ASSUME BaseInv, NEW w \in Ids, WorkerStep(w)
  PROVE  BaseInv'
<1>1. TypeOK /\ workers[w] \in Workers
  BY DEF BaseInv, TypeOK
<1>2. /\ workers' \in [Ids -> Workers] /\ Others(w) /\ SameFrame(w)
      /\ workers[w].status # "idle"
      /\ UNCHANGED <<ctl, at, todo, data, image, intras>>
  BY <1>1, WorkerStepIs
<1>3. workers[w].frame # NoFrame /\ workers[w].frame \in Frames
  BY <1>1, <1>2 DEF BaseInv, Workers
<1>4. /\ outRefs' \in [Frames -> Int] /\ shown' \subseteq Frames
      /\ failed' \subseteq Frames
  <2>1. /\ outRefs \in [Frames -> Int] /\ shown \subseteq Frames
        /\ failed \subseteq Frames
    BY <1>1 DEF TypeOK
  <2>2. CASE \E early \in BOOLEAN : HeaderRead(w, early)
    BY <2>1, <2>2 DEF HeaderRead
  <2>3. CASE \E trailing \in BOOLEAN : Decoded(w, trailing)
    <3>1. PICK trailing \in BOOLEAN : Decoded(w, trailing)
      BY <2>3
    <3>2. /\ outRefs' = IF workers[w].kind.show
                          THEN [outRefs EXCEPT ![workers[w].frame] =
                                  outRefs[workers[w].frame] + 1]
                          ELSE outRefs
          /\ shown' = IF workers[w].kind.show
                        THEN shown \cup {workers[w].frame} ELSE shown
          /\ failed' = IF trailing THEN failed \cup {workers[w].frame} ELSE failed
      BY <3>1 DEF Decoded
    <3>3. outRefs[workers[w].frame] + 1 \in Int
      BY <1>3, <2>1
    <3> QED
      BY <1>3, <2>1, <3>2, <3>3
  <2>4. CASE HeaderFails(w) \/ BodyFails(w)
    BY <1>3, <2>1, <2>4 DEF HeaderFails, BodyFails
  <2> QED
    BY <2>2, <2>3, <2>4 DEF WorkerStep
<1>5. TypeOK'
  BY <1>1, <1>2, <1>4 DEF TypeOK, Data
<1>6. (at = "decode" => data \in Data /\ todo > 0
                        /\ ctl.submitted + todo <= MaxFrames)'
  BY <1>2 DEF BaseInv, Data
<1>7. \A v \in Ids : workers'[v].frame = NoFrame =>
        workers'[v].status = "idle" /\ ~workers'[v].show_frame
  BY <1>2, <1>3 DEF BaseInv, Others, SameFrame
<1> QED
  BY <1>5, <1>6, <1>7 DEF BaseInv

LEMMA ReleasedBase ==
  ASSUME BaseInv, NEW w \in Ids, Released(w)
  PROVE  \A v \in Ids : workers'[v].frame = NoFrame =>
           workers'[v].status = "idle" /\ ~workers'[v].show_frame
BY DEF BaseInv, Released, Others

LEMMA LastReleasedType ==
  ASSUME TypeOK, LastReleased
  PROVE  outRefs' \in [Frames -> Int]
<1>1. outRefs \in [Frames -> Int] /\ ctl.last_show_frame \in Frames \cup {NoFrame}
  BY ControlsAre DEF TypeOK
<1>2. CASE ctl.last_show_frame = NoFrame
  BY <1>1, <1>2 DEF LastReleased
<1>3. CASE ctl.last_show_frame # NoFrame
  <2>1. outRefs[ctl.last_show_frame] - 1 \in Int
    BY <1>1, <1>3
  <2> QED
    BY <1>1, <1>3, <2>1 DEF LastReleased
<1> QED
  BY <1>2, <1>3

LEMMA BaseDecodeOne ==
  ASSUME BaseInv, DecodeOne
  PROVE  BaseInv'
<1> DEFINE w == ctl.next_submit
<1>1. TypeOK /\ ctl.submitted \in 0 .. MaxFrames /\ at = "decode" /\ w \in Ids
  BY ControlsAre, DecodeOneIs DEF BaseInv
<1>2. /\ workers' \in [Ids -> Workers] /\ Others(w) /\ ctl' \in Controls
      /\ ctl.submitted + 1 \in Frames
      /\ workers'[w].frame = ctl.submitted + 1 /\ ctl'.submitted = ctl.submitted + 1
      /\ at' \in {"ready", "decode"} /\ todo' = todo - 1
      /\ at' = "decode" => data' \in Data /\ todo # 1
      /\ data' \in Data \cup {NoData} /\ data \in Kinds
      /\ UNCHANGED <<outRefs, image, shown, failed>>
  BY DecodeOneIs
<1>3. todo > 0 /\ ctl.submitted + todo <= MaxFrames /\ todo \in 0 .. MaxSuperframe
  BY <1>1 DEF BaseInv, TypeOK
<1>4. todo' \in 0 .. MaxSuperframe
  BY <1>2, <1>3, ControlAssumption
<1>5. intras' \subseteq Frames
  BY <1>1, <1>2 DEF DecodeOne, TypeOK
<1>6. TypeOK'
  BY <1>1, <1>2, <1>4, <1>5 DEF TypeOK, Data
<1>7. at' = "decode" => /\ data' \in Data /\ todo' > 0
                        /\ ctl'.submitted + todo' <= MaxFrames
  BY <1>1, <1>2, <1>3, ControlAssumption
<1>8. \A v \in Ids : workers'[v].frame = NoFrame =>
        workers'[v].status = "idle" /\ ~workers'[v].show_frame
  <2>1. workers'[w].frame # NoFrame
    BY <1>2 DEF Frames, NoFrame
  <2> QED
    BY <1>1, <1>2, <2>1 DEF BaseInv, Others
<1> QED
  BY <1>6, <1>7, <1>8 DEF BaseInv, Data

LEMMA BaseControlStep ==
  ASSUME BaseInv, ControlStep
  PROVE  BaseInv'
<1>1. TypeOK /\ ctl.next_output \in Ids /\ ctl.next_submit \in Ids
      /\ 0 \in 0 .. MaxSuperframe
  BY ControlsAre, ControlAssumption DEF BaseInv
<1>2. CASE WaitWorkerAndCacheFrame
  <2>1. /\ Released(ctl.next_output) /\ ctl' \in Controls
        /\ ctl'.submitted = ctl.submitted
        /\ UNCHANGED <<outRefs, at, todo, data, image, shown, failed, intras>>
    BY <1>2, WaitIs DEF SameSubmission
  <2>2. TypeOK'
    BY <1>1, <2>1 DEF TypeOK, Released, Data
  <2>3. \A v \in Ids : workers'[v].frame = NoFrame =>
          workers'[v].status = "idle" /\ ~workers'[v].show_frame
    BY <1>1, <2>1, ReleasedBase
  <2> QED
    BY <2>1, <2>2, <2>3 DEF BaseInv, Data
<1>3. CASE DecodeFails
  <2>1. /\ UNCHANGED <<ctl, workers, outRefs, image, shown, failed, intras>>
        /\ at' = "ready" /\ todo' = 0 /\ data' = NoData
    BY <1>3 DEF DecodeFails
  <2>2. TypeOK'
    BY <1>1, <2>1 DEF TypeOK
  <2> QED
    BY <2>1, <2>2 DEF BaseInv
<1>4. CASE ScratchFails
  <2> DEFINE w == ctl.next_submit
  <2>1. /\ workers' \in [Ids -> Workers] /\ Others(w) /\ ctl' \in Controls
        /\ workers'[w].frame = workers[w].frame
        /\ workers'[w].status = workers[w].status
        /\ workers'[w].show_frame = workers[w].show_frame
        /\ at' = "ready" /\ todo' = 0 /\ data' = NoData
        /\ UNCHANGED <<outRefs, image, shown, failed, intras>>
    BY <1>4, ScratchFailsIs
  <2>2. TypeOK'
    BY <1>1, <2>1 DEF TypeOK
  <2>3. \A v \in Ids : workers'[v].frame = NoFrame =>
          workers'[v].status = "idle" /\ ~workers'[v].show_frame
    BY <1>1, <2>1 DEF BaseInv, Others
  <2> QED
    BY <2>1, <2>2, <2>3 DEF BaseInv
<1>5. CASE DecodeOne
  BY <1>5, BaseDecodeOne
<1>6. CASE OutputFrame
  <2> DEFINE w == ctl.next_output
  <2>1. /\ Released(w) /\ ctl' \in Controls
        /\ HasRawFrame(workers[w]) =>
             /\ LastReleased /\ at' = "ready"
             /\ image' = IF ctl'.need_resync THEN image ELSE workers[w].frame
        /\ ~HasRawFrame(workers[w]) =>
             /\ UNCHANGED <<outRefs, image>> /\ at' \in {"ready", "get"}
        /\ UNCHANGED <<todo, data, shown, failed, intras>>
    BY <1>6, OutputFrameIs DEF SameSubmission
  <2>2. /\ outRefs' \in [Frames -> Int] /\ image' \in Frames \cup {NoFrame}
        /\ at' \in {"ready", "get"}
    <3>1. CASE HasRawFrame(workers[w])
      <4>1. outRefs' \in [Frames -> Int] /\ workers[w].frame \in Frames
        BY <1>1, <2>1, <3>1, LastReleasedType, RawFrameIs
      <4> QED
        BY <1>1, <2>1, <3>1, <4>1 DEF TypeOK
    <3>2. CASE ~HasRawFrame(workers[w])
      BY <1>1, <2>1, <3>2 DEF TypeOK
    <3> QED
      BY <3>1, <3>2
  <2>3. TypeOK'
    BY <1>1, <2>1, <2>2 DEF TypeOK, Released, Data
  <2>4. \A v \in Ids : workers'[v].frame = NoFrame =>
          workers'[v].status = "idle" /\ ~workers'[v].show_frame
    BY <1>1, <2>1, ReleasedBase
  <2> QED
    BY <2>2, <2>3, <2>4 DEF BaseInv
<1>7. CASE OutputFailed
  <2> DEFINE w == ctl.next_output
  <2>1. /\ workers' \in [Ids -> Workers] /\ Others(w) /\ ctl' \in Controls
        /\ workers'[w].frame = workers[w].frame
        /\ workers'[w].status = workers[w].status
        /\ workers'[w].show_frame = workers[w].show_frame
        /\ at' \in {"ready", "get"}
        /\ UNCHANGED <<outRefs, todo, data, image, shown, failed, intras>>
    BY <1>7, OutputFailedIs DEF SameSubmission
  <2>2. TypeOK'
    BY <1>1, <2>1 DEF TypeOK, Data
  <2>3. \A v \in Ids : workers'[v].frame = NoFrame =>
          workers'[v].status = "idle" /\ ~workers'[v].show_frame
    BY <1>1, <2>1 DEF BaseInv, Others
  <2> QED
    BY <2>1, <2>2, <2>3 DEF BaseInv
<1> QED
  BY <1>2, <1>3, <1>4, <1>5, <1>6, <1>7 DEF ControlStep

LEMMA BaseCall ==
  ASSUME BaseInv, Call
  PROVE  BaseInv'
<1>1. TypeOK /\ ctl \in Controls /\ ctl.submitted \in 0 .. MaxFrames
  BY ControlsAre DEF BaseInv
<1>2. CASE \E n \in 1 .. MaxSuperframe : Decode(n)
  <2>1. PICK n \in 1 .. MaxSuperframe : Decode(n)
    BY <1>2
  <2>2. /\ ctl.submitted + n <= MaxFrames /\ at' = "decode" /\ todo' = n
        /\ data' \in Data /\ ctl' = [ctl EXCEPT !.flushed = FALSE]
        /\ UNCHANGED <<workers, outRefs, image, shown, failed, intras>>
    BY <2>1 DEF Decode
  <2>3. ctl' \in Controls /\ ctl'.submitted = ctl.submitted
    BY <1>1, <2>2 DEF Controls
  <2>4. n \in 0 .. MaxSuperframe /\ n > 0
    BY <2>1, ControlAssumption
  <2>5. TypeOK'
    BY <1>1, <2>2, <2>3, <2>4 DEF TypeOK, Data
  <2> QED
    BY <2>2, <2>3, <2>4, <2>5 DEF BaseInv, Data
<1>3. CASE Flush
  <2>1. /\ ctl' = [ctl EXCEPT !.flushed = TRUE]
        /\ UNCHANGED <<workers, outRefs, at, todo, data, image, shown, failed, intras>>
        /\ at = "ready"
    BY <1>3 DEF Flush
  <2>2. ctl' \in Controls
    BY <1>1, <2>1 DEF Controls
  <2>3. TypeOK'
    BY <1>1, <2>1, <2>2 DEF TypeOK, Data
  <2> QED
    BY <2>1, <2>3 DEF BaseInv
<1>4. CASE GetNothing
  BY <1>1, <1>4 DEF GetNothing, BaseInv, TypeOK, vars, Data
<1>5. CASE GetCachedFrame
  <2>1. /\ ctl' \in Controls /\ Head(ctl.cache) \in Frames
        /\ image' = image \/ image' = Head(ctl.cache)
        /\ at = "ready" /\ LastReleased
        /\ UNCHANGED <<workers, at, todo, data, shown, failed, intras>>
    BY <1>5, GetCachedFrameIs DEF SameSubmission
  <2>2. outRefs' \in [Frames -> Int]
    BY <1>1, <2>1, LastReleasedType
  <2>3. TypeOK'
    BY <1>1, <2>1, <2>2 DEF TypeOK, Data
  <2> QED
    BY <2>1, <2>3 DEF BaseInv
<1>6. CASE GetFromWorkers
  <2>1. /\ at' = "get"
        /\ UNCHANGED <<ctl, workers, outRefs, todo, data, image, shown, failed, intras>>
    BY <1>6 DEF GetFromWorkers
  <2>2. TypeOK'
    BY <1>1, <2>1 DEF TypeOK, Data
  <2> QED
    BY <2>1, <2>2 DEF BaseInv
<1> QED
  BY <1>2, <1>3, <1>4, <1>5, <1>6 DEF Call

LEMMA BaseStep ==
  BaseInv /\ [Next]_vars => BaseInv'
<1> SUFFICES ASSUME BaseInv, [Next]_vars PROVE BaseInv'
  OBVIOUS
<1>1. CASE Call
  BY <1>1, BaseCall
<1>2. CASE ControlStep
  BY <1>2, BaseControlStep
<1>3. CASE \E w \in Ids : WorkerStep(w)
  BY <1>3, BaseWorkerStep
<1>4. CASE UNCHANGED vars
  BY <1>4 DEF BaseInv, TypeOK, vars, Data
<1> QED
  BY <1>1, <1>2, <1>3, <1>4 DEF Next

\* TypeOK holds whatever fails; the ring indices in particular stay in it.
THEOREM AlwaysTypeOK ==
  Spec => []TypeOK
<1>1. Spec => []BaseInv
  BY BaseInit, BaseStep, PTL DEF Spec
<1>2. BaseInv => TypeOK
  BY DEF BaseInv
<1> QED
  BY <1>1, <1>2, PTL

-----------------------------------------------------------------------------
(* No thread is lost *)

\* A step that takes worker w's frame, gives it one, or does neither.
LEMMA FreeThreadsIs ==
  ASSUME TypeOK, NEW w \in Ids, Others(w), workers' \in [Ids -> Workers]
  PROVE  /\ FreeThreads \in Int /\ FreeThreads' \in Int
         /\ workers[w].received_frame /\ ~workers'[w].received_frame =>
              FreeThreads' = FreeThreads + 1
         /\ ~workers[w].received_frame /\ workers'[w].received_frame =>
              FreeThreads' = FreeThreads - 1
         /\ workers'[w].received_frame = workers[w].received_frame =>
              FreeThreads' = FreeThreads
<1> DEFINE R == {v \in Ids : workers[v].received_frame}
           S == {v \in Ids : workers'[v].received_frame}
<1>1. IsFiniteSet(Ids) /\ NumWorkers \in Int
  BY FS_Interval, ControlAssumption DEF Ids
<1>2. IsFiniteSet(R) /\ IsFiniteSet(S)
  BY <1>1, FS_Subset
<1>3. Cardinality(R) \in Int /\ Cardinality(S) \in Int
  BY <1>2, FS_CardinalityType
<1>4. FreeThreads = NumWorkers - Cardinality(R) /\ FreeThreads' = NumWorkers - Cardinality(S)
  BY DEF FreeThreads
<1>5. CASE workers[w].received_frame /\ ~workers'[w].received_frame
  <2>1. S = R \ {w} /\ w \in R
    BY <1>5 DEF Others
  <2>2. Cardinality(S) = Cardinality(R) - 1
    BY <1>2, <2>1, FS_RemoveElement
  <2>3. FreeThreads' = FreeThreads + 1 /\ FreeThreads \in Int /\ FreeThreads' \in Int
    <3> HIDE DEF R, S
    <3> QED
      BY <1>1, <1>3, <1>4, <2>2
  <2> QED
    BY <1>5, <2>3, Zenon
<1>6. CASE ~workers[w].received_frame /\ workers'[w].received_frame
  <2>1. S = R \cup {w} /\ w \notin R
    BY <1>6 DEF Others
  <2>2. Cardinality(S) = Cardinality(R) + 1
    BY <1>2, <2>1, FS_AddElement
  <2>3. FreeThreads' = FreeThreads - 1 /\ FreeThreads \in Int /\ FreeThreads' \in Int
    <3> HIDE DEF R, S
    <3> QED
      BY <1>1, <1>3, <1>4, <2>2
  <2> QED
    BY <1>6, <2>3, Zenon
<1>7. CASE workers'[w].received_frame = workers[w].received_frame
  <2>1. S = R
    BY <1>7 DEF Others
  <2> QED
    BY <1>1, <1>3, <1>4, <1>7, <2>1
<1>8. workers[w].received_frame \in BOOLEAN /\ workers'[w].received_frame \in BOOLEAN
  BY DEF TypeOK, Workers
<1> QED
  BY <1>5, <1>6, <1>7, <1>8

\* Frames are numbered as they are submitted.
NumberInv == \A w \in Ids : workers[w].frame <= ctl.submitted

\* The calls touch neither the workers nor the count of those that are free.
LEMMA CallIs ==
  ASSUME BaseInv, Call
  PROVE  /\ workers' = workers
         /\ ctl'.available_threads = ctl.available_threads
         /\ ctl'.submitted = ctl.submitted
         /\ UNCHANGED <<shown, failed, intras>>
<1>1. ctl \in Controls
  BY ControlsAre DEF BaseInv
<1>2. CASE \E n \in 1 .. MaxSuperframe : Decode(n)
  <2>1. /\ ctl' = [ctl EXCEPT !.flushed = FALSE]
        /\ UNCHANGED <<workers, shown, failed, intras>>
    BY <1>2 DEF Decode
  <2> QED
    BY <1>1, <2>1 DEF Controls
<1>3. CASE Flush
  <2>1. /\ ctl' = [ctl EXCEPT !.flushed = TRUE]
        /\ UNCHANGED <<workers, shown, failed, intras>>
    BY <1>3 DEF Flush
  <2> QED
    BY <1>1, <2>1 DEF Controls
<1>4. CASE GetNothing
  BY <1>4 DEF GetNothing, vars
<1>5. CASE GetCachedFrame
  BY <1>5, GetCachedFrameIs DEF SameSubmission
<1>6. CASE GetFromWorkers
  BY <1>6 DEF GetFromWorkers
<1> QED
  BY <1>2, <1>3, <1>4, <1>5, <1>6 DEF Call

LEMMA NumberStep ==
  ASSUME BaseInv, NumberInv, [Next]_vars
  PROVE  NumberInv'
<1>1. TypeOK /\ ctl.next_output \in Ids /\ ctl.next_submit \in Ids
      /\ ctl.submitted \in Int /\ \A w \in Ids : workers[w].frame \in Int
  <2>1. TypeOK
    BY DEF BaseInv
  <2>2. \A w \in Ids : workers[w].frame \in Int
    BY <2>1 DEF TypeOK, Workers, Frames, NoFrame
  <2> QED
    BY <2>1, <2>2, ControlsAre
<1>2. CASE Call
  BY <1>2, CallIs DEF NumberInv
<1>3. CASE WaitWorkerAndCacheFrame
  BY <1>1, <1>3, WaitIs DEF NumberInv, Released, Others, SameSubmission
<1>4. CASE DecodeFails
  BY <1>4 DEF DecodeFails, NumberInv
<1>5. CASE ScratchFails
  BY <1>1, <1>5, ScratchFailsIs DEF NumberInv, Others
<1>6. CASE DecodeOne
  <2>1. /\ Others(ctl.next_submit) /\ ctl'.submitted = ctl.submitted + 1
        /\ workers'[ctl.next_submit].frame = ctl.submitted + 1
    BY <1>6, DecodeOneIs
  <2> QED
    BY <1>1, <2>1 DEF NumberInv, Others
<1>7. CASE OutputFrame
  BY <1>1, <1>7, OutputFrameIs DEF NumberInv, Released, Others, SameSubmission
<1>8. CASE OutputFailed
  BY <1>1, <1>8, OutputFailedIs DEF NumberInv, Others, SameSubmission
<1>9. CASE \E w \in Ids : WorkerStep(w)
  BY <1>1, <1>9, WorkerStepIs DEF NumberInv, Others, SameFrame
<1>10. CASE UNCHANGED vars
  BY <1>10 DEF NumberInv, vars
<1> QED
  BY <1>2, <1>3, <1>4, <1>5, <1>6, <1>7, <1>8, <1>9, <1>10 DEF Next, ControlStep

\* What ThreadsNotLost says of a step.
ThreadsKept ==
  ctl'.available_threads < FreeThreads' =>
    \/ ctl.available_threads < FreeThreads
    \/ \E w \in Ids : /\ workers[w].received_frame
                      /\ workers'[w].frame # workers[w].frame

LEMMA ThreadsStep ==
  ASSUME BaseInv, NumberInv, [Next]_vars
  PROVE  ThreadsKept
<1>1. TypeOK /\ ctl.next_output \in Ids /\ ctl.next_submit \in Ids
      /\ ctl.available_threads \in Int /\ ctl.submitted \in Int
      /\ workers \in [Ids -> Workers]
  <2>1. TypeOK
    BY DEF BaseInv
  <2> QED
    BY <2>1, ControlsAre DEF TypeOK
<1>2. CASE Call \/ DecodeFails \/ UNCHANGED vars
  <2>1. workers' = workers /\ ctl'.available_threads = ctl.available_threads
    BY <1>2, CallIs DEF DecodeFails, vars
  <2>2. FreeThreads' = FreeThreads
    BY <2>1 DEF FreeThreads
  <2> QED
    BY <2>1, <2>2 DEF ThreadsKept
<1>3. CASE WaitWorkerAndCacheFrame \/ OutputFailed
  <2> DEFINE w == ctl.next_output
  <2>1. /\ workers' \in [Ids -> Workers] /\ Others(w)
        /\ ~workers'[w].received_frame
        /\ ctl'.available_threads = ctl.available_threads + 1
    <3>1. CASE WaitWorkerAndCacheFrame
      <4>1. /\ Released(w) /\ ctl.available_threads = 0
            /\ ctl'.available_threads = 1
        BY <3>1, WaitIs
      <4> QED
        BY <4>1 DEF Released
    <3>2. CASE OutputFailed
      BY <3>2, OutputFailedIs
    <3> QED
      BY <1>3, <3>1, <3>2
  <2>2. workers[w].received_frame \in BOOLEAN /\ workers'[w].received_frame \in BOOLEAN
    BY <1>1, <2>1 DEF Workers
  <2>3. /\ FreeThreads \in Int /\ FreeThreads' \in Int
        /\ FreeThreads' = FreeThreads + 1 \/ FreeThreads' = FreeThreads
    BY <1>1, <2>1, <2>2, FreeThreadsIs
  <2> QED
    BY <1>1, <2>1, <2>3 DEF ThreadsKept
<1>4. CASE ScratchFails
  <2> DEFINE w == ctl.next_submit
  <2>1. /\ workers' \in [Ids -> Workers] /\ Others(w)
        /\ workers'[w].received_frame = workers[w].received_frame
        /\ ctl'.available_threads = ctl.available_threads
    BY <1>4, ScratchFailsIs
  <2>2. FreeThreads' = FreeThreads
    BY <1>1, <2>1, FreeThreadsIs
  <2> QED
    BY <2>1, <2>2 DEF ThreadsKept
<1>5. CASE DecodeOne
  <2> DEFINE w == ctl.next_submit
  <2>1. /\ workers' \in [Ids -> Workers] /\ Others(w)
        /\ workers'[w].received_frame = TRUE
        /\ workers'[w].frame = ctl.submitted + 1
        /\ ctl'.available_threads = ctl.available_threads - 1
    BY <1>5, DecodeOneIs
  <2>2. CASE workers[w].received_frame
    <3>1. workers[w].frame <= ctl.submitted /\ workers[w].frame \in Int
      BY <1>1 DEF NumberInv, Workers, Frames, NoFrame
    <3>2. workers'[w].frame # workers[w].frame
      BY <1>1, <2>1, <3>1
    <3> QED
      BY <1>1, <2>2, <3>2 DEF ThreadsKept
  <2>3. CASE ~workers[w].received_frame
    <3>1. FreeThreads \in Int /\ FreeThreads' = FreeThreads - 1
      BY <1>1, <2>1, <2>3, FreeThreadsIs
    <3> QED
      BY <1>1, <2>1, <3>1 DEF ThreadsKept
  <2> QED
    BY <2>2, <2>3
<1>6. CASE OutputFrame
  <2> DEFINE w == ctl.next_output
  <2>1. /\ workers' \in [Ids -> Workers] /\ Others(w)
        /\ workers'[w].received_frame = FALSE
        /\ workers[w].received_frame =>
             ctl'.available_threads = ctl.available_threads + 1
        /\ ~workers[w].received_frame =>
             ctl'.available_threads = ctl.available_threads
    BY <1>6, OutputFrameIs DEF Released
  <2>2. workers[w].received_frame \in BOOLEAN
    BY <1>1 DEF Workers
  <2>3. /\ FreeThreads \in Int
        /\ workers[w].received_frame => FreeThreads' = FreeThreads + 1
        /\ ~workers[w].received_frame => FreeThreads' = FreeThreads
    BY <1>1, <2>1, <2>2, FreeThreadsIs
  <2> QED
    BY <1>1, <2>1, <2>3 DEF ThreadsKept
<1>7. CASE \E w \in Ids : WorkerStep(w)
  <2>1. PICK w \in Ids : WorkerStep(w)
    BY <1>7
  <2>2. /\ workers' \in [Ids -> Workers] /\ Others(w)
        /\ workers'[w].received_frame = workers[w].received_frame
        /\ ctl' = ctl
    BY <1>1, <2>1, WorkerStepIs DEF SameFrame
  <2>3. FreeThreads' = FreeThreads
    BY <1>1, <2>2, FreeThreadsIs
  <2> QED
    BY <2>2, <2>3 DEF ThreadsKept
<1> QED
  BY <1>2, <1>3, <1>4, <1>5, <1>6, <1>7 DEF Next, ControlStep

\* Whatever fails, available_threads does not fall below the number of workers
\* that are free, except where a frame is launched over one not yet taken.
THEOREM ThreadsAreNotLost ==
  Spec => ThreadsNotLost
<1>1. Init => NumberInv
  <2> SUFFICES ASSUME Init PROVE NumberInv
    OBVIOUS
  <2>1. ctl.submitted = 0 /\ \A w \in Ids : workers[w].frame = 0
    BY DEF Init, NoFrame
  <2> QED
    BY <2>1 DEF NumberInv
<1>2. BaseInv /\ NumberInv /\ [Next]_vars => BaseInv' /\ NumberInv'
  BY BaseStep, NumberStep
<1>3. BaseInv /\ NumberInv /\ [Next]_vars => [ThreadsKept]_vars
  BY ThreadsStep
<1>4. Spec => [][ThreadsKept]_vars
  BY BaseInit, <1>1, <1>2, <1>3, PTL DEF Spec
<1> QED
  BY <1>4 DEF ThreadsNotLost, ThreadsKept

-----------------------------------------------------------------------------
(* Without failures: the inductive invariant *)

\* A superframe index that does not fit ends a call; no frame fails by that.
Sound == Failures \subseteq {"index"}

\* How many frames ago a worker was launched when worker n is to be next.
AgeOf(n, w) == IF w < n THEN n - w ELSE n - w + NumWorkers
Age(w) == AgeOf(ctl.next_submit, w)

\* Frames that were launched and not taken from their workers, and the last
\* that was taken.
Held == NumWorkers - ctl.available_threads
Taken == ctl.submitted - Held

\* The workers that hold frames are the Held last launched, in order.
RingInv ==
  /\ ctl.available_threads \in 0 .. NumWorkers
  /\ Held <= ctl.submitted
  /\ \A w \in Ids : workers[w].received_frame <=> Age(w) <= Held
  /\ \A w \in Ids : workers[w].received_frame =>
       workers[w].frame = ctl.submitted + 1 - Age(w)
  /\ Held > 0 => Age(ctl.next_output) = Held
  /\ Held = 0 /\ at # "get" => ctl.next_output = ctl.next_submit
  /\ at = "get" => ctl.cache = <<>>

\* A frame whose header will be accepted.
Decodable(worker) ==
  IsIntra(worker.kind) \/ (~worker.need_resync /\ worker.has_refs)

\* What is known after a header: the next worker copies it.
Synced(worker) ==
  /\ ~worker.need_resync /\ worker.has_refs
  /\ worker.show_frame = worker.kind.show
  /\ IsIntra(worker.kind) => worker.keyFrame \/ worker.intra_only

WorkerInv(worker) ==
  /\ worker.received_frame <=> ~worker.ready_for_new_data
  /\ worker.status # "idle" => worker.received_frame
  /\ worker.received_frame => worker.frame # NoFrame
  /\ ~worker.had_error
  /\ worker.status = "header" => Decodable(worker)
  /\ worker.status # "header" /\ worker.frame # NoFrame => Synced(worker)
  /\ worker.frame_context_ready => worker.status # "header" /\ worker.frame # NoFrame

WorkersInv == \A w \in Ids : WorkerInv(workers[w])

\* The worker launched last is the one before the next.
LaunchInv ==
  /\ ctl.si_h <=> ctl.submitted > 0
  /\ ctl.si_h => /\ workers[ctl.last_submit].frame # NoFrame
                 /\ ctl.next_submit = NextId(ctl.last_submit)
  /\ ~ctl.si_h => ctl.next_submit = ctl.last_submit

\* The control thread waits for an intra frame only until the first is taken.
FirstInv ==
  ctl.need_resync =>
    /\ Taken = 0 /\ ctl.cache = <<>>
    /\ \A w \in Ids : workers[w].received_frame /\ workers[w].frame = 1 =>
         IsIntra(workers[w].kind)

\* Worker w holds frame f, decoded and to be shown.
Waits(w, f) ==
  /\ workers[w].received_frame /\ workers[w].status = "idle"
  /\ workers[w].show_frame /\ workers[w].frame = f

\* What was shown is followed by the cache in order, and that by the workers.
CacheInv ==
  /\ image <= Taken
  /\ \A i \in DOMAIN ctl.cache :
       /\ ctl.cache[i] \in shown
       /\ image < ctl.cache[i] /\ ctl.cache[i] <= Taken
  /\ \A i, j \in DOMAIN ctl.cache : i < j => ctl.cache[i] < ctl.cache[j]

\* No frame that is to be shown is missing.
ShownInv ==
  /\ \A w \in Ids, f \in Frames : Waits(w, f) => f \in shown
  /\ \A f \in shown : \/ f <= image
                      \/ \E i \in DOMAIN ctl.cache : ctl.cache[i] = f
                      \/ \E w \in Ids : Waits(w, f)

CleanInv ==
  /\ BaseInv /\ RingInv /\ WorkersInv /\ LaunchInv /\ FirstInv
  /\ CacheInv /\ ShownInv /\ AvailableThreadsExact /\ OutputReferencesExact

LEMMA AgeOfIs ==
  ASSUME NEW n \in Ids, NEW w \in Ids
  PROVE  /\ AgeOf(n, w) \in 1 .. NumWorkers
         /\ \A v \in Ids : AgeOf(n, v) = AgeOf(n, w) => v = w
         /\ AgeOf(n, n) = NumWorkers
         /\ AgeOf(n, w) = 1 => AgeOf(n, NextId(w)) = NumWorkers
         /\ AgeOf(n, w) # 1 => AgeOf(n, NextId(w)) = AgeOf(n, w) - 1
         /\ NextId(w) = n <=> AgeOf(n, w) = 1
         /\ AgeOf(NextId(n), n) = 1
         /\ w # n => AgeOf(NextId(n), w) = AgeOf(n, w) + 1
<1>1. /\ NumWorkers \in Nat \ {0}
      /\ NextId(w) = IF w = NumWorkers - 1 THEN 0 ELSE w + 1
      /\ NextId(n) = IF n = NumWorkers - 1 THEN 0 ELSE n + 1
  BY NextIdIs, ControlAssumption
<1>2. /\ n \in Int /\ 0 <= n /\ n <= NumWorkers - 1
      /\ w \in Int /\ 0 <= w /\ w <= NumWorkers - 1
      /\ \A v \in Ids : v \in Int /\ 0 <= v /\ v <= NumWorkers - 1
  BY <1>1 DEF Ids
<1>3. /\ AgeOf(n, w) \in 1 .. NumWorkers /\ AgeOf(n, n) = NumWorkers
      /\ \A v \in Ids : AgeOf(n, v) = AgeOf(n, w) => v = w
  BY <1>1, <1>2 DEF AgeOf
<1>4. /\ AgeOf(n, w) = 1 => AgeOf(n, NextId(w)) = NumWorkers
      /\ AgeOf(n, w) # 1 => AgeOf(n, NextId(w)) = AgeOf(n, w) - 1
      /\ NextId(w) = n <=> AgeOf(n, w) = 1
  BY <1>1, <1>2 DEF AgeOf
<1>5. /\ AgeOf(NextId(n), n) = 1
      /\ w # n => AgeOf(NextId(n), w) = AgeOf(n, w) + 1
  BY <1>1, <1>2 DEF AgeOf
<1> QED
  BY <1>3, <1>4, <1>5

\* The places of a frame's references: in the cache, and in workers.
Places(c, f) == {i \in DOMAIN c : c[i] = f}
CachedAt(f) == Places(ctl.cache, f)
WaitingAt(f) == {w \in Ids : /\ workers[w].frame = f
                             /\ workers[w].status = "idle"
                             /\ HasRawFrame(workers[w])}

LEMMA HoldersIs ==
  \A f \in Frames :
    /\ Holders(f) = (IF ctl.last_show_frame = f THEN 1 ELSE 0)
                    + Cardinality(CachedAt(f)) + Cardinality(WaitingAt(f))
    /\ Holders(f)' = (IF ctl'.last_show_frame = f THEN 1 ELSE 0)
                     + Cardinality(CachedAt(f)') + Cardinality(WaitingAt(f)')
BY DEF Holders, CachedAt, Places, WaitingAt

LEMMA HoldersFinite ==
  ASSUME TypeOK, NEW f \in Frames
  PROVE  /\ IsFiniteSet(CachedAt(f)) /\ Cardinality(CachedAt(f)) \in Nat
         /\ IsFiniteSet(WaitingAt(f)) /\ Cardinality(WaitingAt(f)) \in Nat
<1>1. DOMAIN ctl.cache = 1 .. Len(ctl.cache) /\ Len(ctl.cache) \in Nat
  BY ControlsAre
<1>2. IsFiniteSet(DOMAIN ctl.cache) /\ IsFiniteSet(Ids)
  BY <1>1, FS_Interval, ControlAssumption DEF Ids
<1>3. IsFiniteSet(CachedAt(f)) /\ IsFiniteSet(WaitingAt(f))
  BY <1>2, FS_Subset DEF CachedAt, Places, WaitingAt
<1> QED
  BY <1>3, FS_CardinalityType

\* A step that leaves frames, references and counts alone.
Quiet ==
  /\ UNCHANGED <<workers, outRefs, image, shown>>
  /\ ctl'.si_h = ctl.si_h /\ ctl'.need_resync = ctl.need_resync
  /\ ctl'.next_submit = ctl.next_submit /\ ctl'.last_submit = ctl.last_submit
  /\ ctl'.submitted = ctl.submitted /\ ctl'.next_output = ctl.next_output
  /\ ctl'.available_threads = ctl.available_threads
  /\ ctl'.last_show_frame = ctl.last_show_frame /\ ctl'.cache = ctl.cache
  /\ at = "get" => at' = "get"
  /\ at' = "get" => at = "get" \/ ctl.cache = <<>>

LEMMA QuietIs ==
  ASSUME BaseInv,
         \/ Call /\ ~GetCachedFrame
         \/ DecodeFails
         \/ UNCHANGED vars
  PROVE  Quiet
<1>1. ctl \in Controls
  BY ControlsAre DEF BaseInv
<1>2. CASE \E n \in 1 .. MaxSuperframe : Decode(n)
  <2>1. /\ ctl' = [ctl EXCEPT !.flushed = FALSE] /\ at = "ready" /\ at' = "decode"
        /\ UNCHANGED <<workers, outRefs, image, shown>>
    BY <1>2 DEF Decode
  <2> QED
    BY <1>1, <2>1 DEF Controls, Quiet
<1>3. CASE Flush
  <2>1. /\ ctl' = [ctl EXCEPT !.flushed = TRUE] /\ at = "ready" /\ at' = at
        /\ UNCHANGED <<workers, outRefs, image, shown>>
    BY <1>3 DEF Flush
  <2> QED
    BY <1>1, <2>1 DEF Controls, Quiet
<1>4. CASE GetNothing \/ UNCHANGED vars
  BY <1>4 DEF GetNothing, vars, Quiet
<1>5. CASE GetFromWorkers
  BY <1>5 DEF GetFromWorkers, Quiet
<1>6. CASE DecodeFails
  BY <1>6 DEF DecodeFails, Quiet
<1> QED
  BY <1>2, <1>3, <1>4, <1>5, <1>6 DEF Call

LEMMA QuietKeeps ==
  ASSUME CleanInv, BaseInv', Quiet
  PROVE  CleanInv'
<1> USE DEF Quiet
<1>1. RingInv'
  BY DEF CleanInv, RingInv, Held, Age
<1>2. WorkersInv' /\ LaunchInv' /\ FirstInv'
  BY DEF CleanInv, WorkersInv, LaunchInv, FirstInv, Held, Taken
<1>3. CacheInv' /\ ShownInv'
  BY DEF CleanInv, CacheInv, ShownInv, Held, Taken, Waits
<1>4. AvailableThreadsExact'
  BY DEF CleanInv, AvailableThreadsExact, FreeThreads
<1>5. ASSUME NEW f \in Frames PROVE outRefs'[f] = Holders(f)'
  <2>1. CachedAt(f)' = CachedAt(f) /\ WaitingAt(f)' = WaitingAt(f)
    BY DEF CachedAt, WaitingAt
  <2>2. Holders(f)' = Holders(f)
    BY <2>1, HoldersIs
  <2> QED
    BY <2>2 DEF CleanInv, OutputReferencesExact
<1>6. OutputReferencesExact'
  BY <1>5 DEF OutputReferencesExact
<1> QED
  BY <1>1, <1>2, <1>3, <1>4, <1>6 DEF CleanInv

-----------------------------------------------------------------------------
(* Without failures: the worker threads *)

LEMMA SoundWorkerStep ==
  ASSUME Sound, WorkersInv, NEW w \in Ids, WorkerStep(w)
  PROVE  (\E early \in BOOLEAN : HeaderRead(w, early)) \/ Decoded(w, FALSE)
<1>1. WorkerInv(workers[w])
  BY DEF WorkersInv
<1>2. ~HeaderFails(w)
  BY <1>1 DEF Sound, HeaderFails, Refused, WorkerInv, Decodable, IsIntra
<1>3. ~BodyFails(w) /\ ~Decoded(w, TRUE)
  BY DEF Sound, BodyFails, Decoded
<1> QED
  BY <1>2, <1>3 DEF WorkerStep

\* What any step of a worker keeps.
LEMMA WorkKeeps ==
  ASSUME CleanInv, NEW w \in Ids, workers' \in [Ids -> Workers],
         Others(w), SameFrame(w), ctl' = ctl, at' = at, image' = image,
         shown \subseteq shown'
  PROVE  /\ RingInv' /\ LaunchInv' /\ FirstInv' /\ CacheInv'
         /\ AvailableThreadsExact'
<1>1. TypeOK /\ ctl.last_submit \in Ids
  BY ControlsAre DEF CleanInv, BaseInv
<1>2. \A v \in Ids : /\ workers'[v].frame = workers[v].frame
                     /\ workers'[v].kind = workers[v].kind
                     /\ workers'[v].received_frame = workers[v].received_frame
  BY DEF Others, SameFrame
<1>3. RingInv'
  BY <1>2 DEF CleanInv, RingInv, Held, Age
<1>4. LaunchInv'
  BY <1>1, <1>2 DEF CleanInv, LaunchInv
<1>5. FirstInv'
  BY <1>2 DEF CleanInv, FirstInv, Held, Taken
<1>6. CacheInv'
  BY DEF CleanInv, CacheInv, Held, Taken
<1>7. AvailableThreadsExact'
  <2>1. FreeThreads' = FreeThreads
    BY <1>1, FreeThreadsIs DEF SameFrame
  <2> QED
    BY <2>1 DEF CleanInv, AvailableThreadsExact
<1> QED
  BY <1>3, <1>4, <1>5, <1>6, <1>7

LEMMA HeaderReadKeeps ==
  ASSUME CleanInv, BaseInv', NEW w \in Ids, NEW early \in BOOLEAN,
         HeaderRead(w, early)
  PROVE  CleanInv'
<1>1. TypeOK /\ WorkerInv(workers[w])
  BY DEF CleanInv, BaseInv, WorkersInv
<1>2. /\ workers' \in [Ids -> Workers] /\ Others(w) /\ SameFrame(w)
      /\ workers[w].status = "header" /\ workers'[w].status = "body"
      /\ workers'[w].ready_for_new_data = workers[w].ready_for_new_data
      /\ workers'[w].had_error = workers[w].had_error
      /\ workers'[w].show_frame = workers[w].kind.show
      /\ workers'[w].has_refs = TRUE
      /\ workers'[w].need_resync =
           (workers[w].need_resync /\ ~IsIntra(workers[w].kind))
      /\ IsIntra(workers[w].kind) =>
           workers'[w].keyFrame \/ workers'[w].intra_only
  BY <1>1, HeaderReadIs
<1>3. UNCHANGED <<ctl, outRefs, at, image, shown>>
  BY DEF HeaderRead
<1>4. /\ RingInv' /\ LaunchInv' /\ FirstInv' /\ CacheInv' /\ AvailableThreadsExact'
  BY <1>2, <1>3, WorkKeeps
<1>5. WorkersInv'
  <2>1. WorkerInv(workers'[w])
    <3>1. Decodable(workers[w]) /\ workers[w].received_frame
          /\ ~workers[w].had_error /\ workers[w].frame # NoFrame
          /\ ~workers[w].ready_for_new_data
      BY <1>1, <1>2 DEF WorkerInv
    <3>2. ~workers'[w].need_resync
      BY <1>2, <3>1 DEF Decodable
    <3>3. Synced(workers'[w])
      BY <1>2, <3>2 DEF Synced, SameFrame
    <3> QED
      BY <1>2, <3>1, <3>3 DEF WorkerInv, SameFrame
  <2> QED
    BY <1>2, <2>1 DEF CleanInv, WorkersInv, Others
<1>6. ShownInv'
  <2>1. ASSUME NEW v \in Ids, NEW f \in Frames PROVE Waits(v, f)' <=> Waits(v, f)
    BY <1>2 DEF Waits, Others
  <2> QED
    BY <1>1, <1>3, <2>1 DEF CleanInv, ShownInv, TypeOK
<1>7. OutputReferencesExact'
  <2>1. ASSUME NEW f \in Frames PROVE outRefs'[f] = Holders(f)'
    <3>1. CachedAt(f)' = CachedAt(f)
      BY <1>3 DEF CachedAt
    <3>2. WaitingAt(f)' = WaitingAt(f)
      BY <1>2 DEF WaitingAt, Others
    <3>3. Holders(f)' = Holders(f)
      BY <1>3, <3>1, <3>2, HoldersIs
    <3> QED
      BY <1>3, <3>3 DEF CleanInv, OutputReferencesExact
  <2> QED
    BY <2>1 DEF OutputReferencesExact
<1> QED
  BY <1>4, <1>5, <1>6, <1>7 DEF CleanInv

LEMMA DecodedKeeps ==
  ASSUME CleanInv, BaseInv', NEW w \in Ids, Decoded(w, FALSE)
  PROVE  CleanInv'
<1> DEFINE g == workers[w].frame
<1>1. TypeOK /\ WorkerInv(workers[w]) /\ workers[w] \in Workers
  BY DEF CleanInv, BaseInv, WorkersInv, TypeOK
<1>2. /\ workers' \in [Ids -> Workers] /\ Others(w) /\ SameFrame(w)
      /\ workers[w].status \in {"header", "body"} /\ workers'[w].status = "idle"
      /\ workers[w].status = "header" => workers[w].has_refs
      /\ workers'[w].ready_for_new_data = workers[w].ready_for_new_data
      /\ workers'[w].had_error = FALSE
      /\ workers'[w].show_frame = workers[w].kind.show
      /\ workers[w].has_refs => workers'[w].has_refs
      /\ workers'[w].need_resync =
           (workers[w].need_resync /\ ~IsIntra(workers[w].kind))
      /\ IsIntra(workers[w].kind) =>
           workers'[w].keyFrame \/ workers'[w].intra_only
  BY <1>1, DecodedIs
<1>3. /\ UNCHANGED <<ctl, at, image>>
      /\ workers[w].kind.show => /\ outRefs' = [outRefs EXCEPT ![g] = outRefs[g] + 1]
                                 /\ shown' = shown \cup {g}
      /\ ~workers[w].kind.show => UNCHANGED <<outRefs, shown>>
  BY DEF Decoded
<1>4. /\ workers[w].received_frame /\ ~workers[w].ready_for_new_data
      /\ g \in Frames
  BY <1>1, <1>2 DEF WorkerInv, Workers
<1>5. /\ RingInv' /\ LaunchInv' /\ FirstInv' /\ CacheInv' /\ AvailableThreadsExact'
  BY <1>2, <1>3, WorkKeeps
<1>6. WorkersInv'
  <2>1. WorkerInv(workers'[w])
    <3>1. ~workers'[w].need_resync /\ workers'[w].has_refs
      BY <1>1, <1>2, <1>4 DEF WorkerInv, Decodable, Synced, NoFrame, Frames
    <3>2. Synced(workers'[w])
      BY <1>2, <3>1 DEF Synced, SameFrame
    <3>3. workers'[w].frame # NoFrame
      BY <1>1, <1>2, <1>4 DEF WorkerInv, SameFrame
    <3> QED
      BY <1>2, <1>4, <3>2, <3>3 DEF WorkerInv, SameFrame
  <2> QED
    BY <1>2, <2>1 DEF CleanInv, WorkersInv, Others
<1>7. ShownInv'
  <2>1. ASSUME NEW v \in Ids, NEW f \in Frames
        PROVE  Waits(v, f)' <=> \/ Waits(v, f)
                                \/ v = w /\ f = g /\ workers[w].kind.show
    BY <1>2, <1>4 DEF Waits, Others, SameFrame
  <2>2. \A f \in shown' : f \in shown \/ (f = g /\ workers[w].kind.show)
    BY <1>3
  <2>3. shown \subseteq shown' /\ shown' \subseteq Frames
        /\ (workers[w].kind.show => g \in shown')
    BY <1>1, <1>3, <1>4 DEF TypeOK
  <2>4. ASSUME NEW v \in Ids, NEW f \in Frames, Waits(v, f)'
        PROVE  f \in shown'
    BY <2>1, <2>3, <2>4 DEF CleanInv, ShownInv
  <2>5. ASSUME NEW f \in shown'
        PROVE  \/ f <= image
               \/ \E i \in DOMAIN ctl.cache : ctl.cache[i] = f
               \/ \E v \in Ids : Waits(v, f)'
    <3>1. CASE f \in shown
      BY <2>1, <2>3, <3>1 DEF CleanInv, ShownInv
    <3>2. CASE f = g /\ workers[w].kind.show
      BY <1>4, <2>1, <3>2
    <3> QED
      BY <2>2, <3>1, <3>2
  <2> QED
    BY <1>3, <2>4, <2>5 DEF ShownInv
<1>8. OutputReferencesExact'
  <2>1. ASSUME NEW f \in Frames PROVE outRefs'[f] = Holders(f)'
    <3>1. /\ CachedAt(f)' = CachedAt(f) /\ Cardinality(CachedAt(f)) \in Nat
          /\ IsFiniteSet(WaitingAt(f)) /\ Cardinality(WaitingAt(f)) \in Nat
      BY <1>1, <1>3, HoldersFinite DEF CachedAt
    <3>2. outRefs[f] = Holders(f) /\ outRefs[f] \in Int
      BY <1>1 DEF CleanInv, OutputReferencesExact, TypeOK
    <3>3. CASE f = g /\ workers[w].kind.show
      <4>1. WaitingAt(f)' = WaitingAt(f) \cup {w} /\ w \notin WaitingAt(f)
        BY <1>2, <1>4, <3>3 DEF WaitingAt, Others, SameFrame, HasRawFrame
      <4>2. Cardinality(WaitingAt(f)') = Cardinality(WaitingAt(f)) + 1
        BY <3>1, <4>1, FS_AddElement
      <4>3. outRefs'[f] = outRefs[f] + 1
        BY <1>1, <1>3, <3>3 DEF TypeOK
      <4> QED
        BY <1>3, <3>1, <3>2, <4>2, <4>3, HoldersIs
    <3>4. CASE ~(f = g /\ workers[w].kind.show)
      <4>1. WaitingAt(f)' = WaitingAt(f)
        BY <1>2, <1>4, <3>4 DEF WaitingAt, Others, SameFrame, HasRawFrame
      <4>2. outRefs'[f] = outRefs[f]
        BY <1>1, <1>3, <3>4 DEF TypeOK
      <4> QED
        BY <1>3, <3>1, <3>2, <4>1, <4>2, HoldersIs
    <3> QED
      BY <3>3, <3>4
  <2> QED
    BY <2>1 DEF OutputReferencesExact
<1> QED
  BY <1>5, <1>6, <1>7, <1>8 DEF CleanInv

-----------------------------------------------------------------------------
(* Without failures: decode_one() *)

\* The ring as numbers.
LEMMA RingIs ==
  ASSUME TypeOK, RingInv
  PROVE  /\ NumWorkers \in Int /\ ctl.available_threads \in Int
         /\ Held \in 0 .. NumWorkers /\ Held = NumWorkers - ctl.available_threads
         /\ ctl.submitted \in Int /\ Taken \in Int /\ Taken = ctl.submitted - Held
         /\ \A w \in Ids : Age(w) \in 1 .. NumWorkers
         /\ ctl.next_submit \in Ids /\ ctl.next_output \in Ids
         /\ ctl.last_submit \in Ids
<1>1. NumWorkers \in Int /\ ctl.available_threads \in 0 .. NumWorkers
  BY ControlAssumption DEF RingInv
<1>2. /\ ctl.next_submit \in Ids /\ ctl.next_output \in Ids
      /\ ctl.last_submit \in Ids /\ ctl.submitted \in Int
  BY ControlsAre
<1>3. \A w \in Ids : Age(w) \in 1 .. NumWorkers
  BY <1>2, AgeOfIs DEF Age
<1> QED
  BY <1>1, <1>2, <1>3 DEF Held, Taken

LEMMA LaunchRing ==
  ASSUME CleanInv, DecodeOne
  PROVE  /\ RingInv' /\ Taken' = Taken
         /\ ~workers[ctl.next_submit].received_frame
<1> DEFINE n == ctl.next_submit
<1>1. TypeOK /\ RingInv
  BY DEF CleanInv, BaseInv
<1>2. /\ NumWorkers \in Int /\ ctl.available_threads \in Int
      /\ Held \in 0 .. NumWorkers /\ Held = NumWorkers - ctl.available_threads
      /\ ctl.submitted \in Int /\ Taken = ctl.submitted - Held
      /\ \A w \in Ids : Age(w) \in 1 .. NumWorkers
      /\ n \in Ids /\ ctl.next_output \in Ids
  BY <1>1, RingIs
<1>3. /\ Others(n) /\ workers'[n].received_frame = TRUE
      /\ workers'[n].frame = ctl.submitted + 1
      /\ ctl'.next_submit = NextId(n) /\ ctl'.next_output = ctl.next_output
      /\ ctl'.available_threads = ctl.available_threads - 1
      /\ ctl'.submitted = ctl.submitted + 1
      /\ at = "decode" /\ ctl.available_threads # 0 /\ at' \in {"ready", "decode"}
  BY DecodeOneIs DEF CleanInv
<1> DEFINE AgeNext(w) == AgeOf(ctl'.next_submit, w)
<1>4. Age(n) = NumWorkers /\ AgeNext(n) = 1
      /\ \A w \in Ids : w # n => AgeNext(w) = Age(w) + 1
  BY <1>2, <1>3, AgeOfIs DEF Age
<1>5. Held' = Held + 1 /\ Held + 1 <= NumWorkers /\ Taken' = Taken
  BY <1>2, <1>3 DEF Held, Taken
<1>6. ~workers[n].received_frame
  BY <1>1, <1>2, <1>4, <1>5 DEF RingInv
<1>7. ASSUME NEW w \in Ids
      PROVE  /\ workers'[w].received_frame <=> AgeNext(w) <= Held'
             /\ workers'[w].received_frame =>
                  workers'[w].frame = ctl'.submitted + 1 - AgeNext(w)
  <2>1. CASE w = n
    BY <1>2, <1>3, <1>4, <1>5, <2>1
  <2>2. CASE w # n
    <3>1. /\ workers'[w] = workers[w] /\ AgeNext(w) = Age(w) + 1
          /\ Age(w) \in Int
      BY <1>2, <1>3, <1>4, <2>2 DEF Others
    <3>2. /\ workers[w].received_frame <=> Age(w) <= Held
          /\ workers[w].received_frame => workers[w].frame = ctl.submitted + 1 - Age(w)
      BY <1>1 DEF RingInv
    <3>3. AgeNext(w) <= Held' <=> Age(w) <= Held
      BY <1>2, <1>5, <3>1
    <3>4. ctl'.submitted + 1 - AgeNext(w) = ctl.submitted + 1 - Age(w)
      BY <1>2, <1>3, <3>1
    <3> QED
      BY <3>1, <3>2, <3>3, <3>4
  <2> QED
    BY <2>1, <2>2
<1>8. AgeNext(ctl'.next_output) = Held'
  <2>1. CASE Held = 0
    <3>1. ctl.next_output = n
      BY <1>1, <1>3, <2>1 DEF RingInv
    <3> QED
      BY <1>3, <1>4, <1>5, <2>1, <3>1
  <2>2. CASE Held # 0
    <3>1. Age(ctl.next_output) = Held
      BY <1>1, <1>2, <2>2 DEF RingInv
    <3>2. ctl.next_output # n
      BY <1>2, <1>4, <1>5, <3>1
    <3>3. AgeOf(NextId(n), ctl.next_output) = AgeOf(n, ctl.next_output) + 1
      BY <1>2, <3>2, AgeOfIs
    <3> QED
      BY <1>3, <1>5, <3>1, <3>3 DEF Age
  <2> QED
    BY <2>1, <2>2
<1>9. RingInv'
  <2>1. ctl'.available_threads \in 0 .. NumWorkers /\ Held' <= ctl'.submitted
    BY <1>1, <1>2, <1>3, <1>5 DEF RingInv
  <2>2. Held' # 0 /\ at' # "get"
    BY <1>2, <1>3, <1>5
  <2> QED
    BY <1>7, <1>8, <2>1, <2>2 DEF RingInv, Age
<1> QED
  BY <1>5, <1>6, <1>9

LEMMA LaunchKeeps ==
  ASSUME CleanInv, BaseInv', DecodeOne
  PROVE  CleanInv'
<1> DEFINE n == ctl.next_submit
           last == ctl.last_submit
<1>1. TypeOK /\ RingInv /\ n \in Ids /\ last \in Ids /\ WorkersInv /\ LaunchInv
      /\ ctl.submitted \in 0 .. MaxFrames
  BY ControlsAre DEF CleanInv, BaseInv
<1>2. RingInv' /\ Taken' = Taken /\ ~workers[n].received_frame
  BY LaunchRing
<1>3. /\ workers' \in [Ids -> Workers] /\ Others(n)
      /\ workers[n].status = "idle" /\ workers'[n].status = "header"
      /\ workers'[n].frame = ctl.submitted + 1 /\ workers'[n].kind = data
      /\ workers'[n].received_frame = TRUE
      /\ workers'[n].ready_for_new_data = FALSE
      /\ workers'[n].frame_context_ready = FALSE
      /\ workers'[n].had_error = FALSE
      /\ workers'[n].need_resync = Prepared(n).need_resync
      /\ workers'[n].has_refs = Prepared(n).has_refs
      /\ ctl'.si_h = TRUE /\ ctl'.next_submit = NextId(n)
      /\ ctl'.last_submit = IF n # last THEN NextId(last) ELSE last
      /\ ctl'.available_threads = ctl.available_threads - 1
      /\ ctl'.submitted = ctl.submitted + 1
      /\ ctl'.need_resync = ctl.need_resync /\ ctl'.cache = ctl.cache
      /\ ctl'.last_show_frame = ctl.last_show_frame
      /\ (ctl.si_h \/ IsIntra(data)) /\ ContextReady
      /\ UNCHANGED <<outRefs, image, shown>>
  BY DecodeOneIs DEF CleanInv
<1>4. WorkerInv(workers[n]) /\ WorkerInv(workers[last])
  BY <1>1 DEF WorkersInv
<1>5. workers[n].ready_for_new_data /\ ~HasRawFrame(workers[n])
  BY <1>2, <1>4 DEF WorkerInv, HasRawFrame
<1>6. WorkersInv'
  <2>1. Decodable(workers'[n])
    <3>1. CASE IsIntra(data)
      BY <1>3, <3>1 DEF Decodable
    <3>2. CASE ~IsIntra(data)
      <4>1. workers[last].frame # NoFrame
        BY <1>1, <1>3, <3>2 DEF LaunchInv
      <4>2. CASE n = last
        <5>1. Synced(workers[n])
          BY <1>3, <1>4, <4>1, <4>2 DEF WorkerInv
        <5>2. /\ Prepared(n).need_resync = workers[n].need_resync
              /\ Prepared(n).has_refs = workers[n].has_refs
          BY <1>1, <4>2, PreparedIs
        <5> QED
          BY <1>3, <5>1, <5>2 DEF Decodable, Synced
      <4>3. CASE n # last
        <5>1. Synced(workers[last])
          BY <1>3, <1>4, <4>3 DEF WorkerInv, ContextReady
        <5>2. /\ Prepared(n).need_resync = workers[last].need_resync
              /\ Prepared(n).has_refs = workers[last].has_refs
          BY <1>1, <4>3, PreparedIs
        <5> QED
          BY <1>3, <5>1, <5>2 DEF Decodable, Synced
      <4> QED
        BY <4>2, <4>3
    <3> QED
      BY <3>1, <3>2
  <2>2. workers'[n].frame # NoFrame
    BY <1>1, <1>3 DEF NoFrame
  <2>3. WorkerInv(workers'[n])
    BY <1>3, <2>1, <2>2 DEF WorkerInv
  <2> QED
    BY <1>1, <1>3, <2>3 DEF WorkersInv, Others
<1>7. LaunchInv'
  <2>1. ctl'.last_submit = n
    BY <1>1, <1>3 DEF LaunchInv
  <2>2. workers'[n].frame # NoFrame /\ ctl'.submitted > 0
    BY <1>1, <1>3 DEF NoFrame
  <2> QED
    BY <1>3, <2>1, <2>2 DEF LaunchInv
<1>8. FirstInv'
  <2> SUFFICES ASSUME ctl'.need_resync
               PROVE  /\ Taken' = 0 /\ ctl'.cache = <<>>
                      /\ \A w \in Ids :
                           workers'[w].received_frame /\ workers'[w].frame = 1 =>
                             IsIntra(workers'[w].kind)
    BY DEF FirstInv
  <2>1. FirstInv /\ ctl.need_resync
    BY <1>3 DEF CleanInv
  <2>2. workers'[n].frame = 1 => IsIntra(data)
    BY <1>1, <1>3 DEF LaunchInv
  <2> QED
    BY <1>2, <1>3, <2>1, <2>2 DEF FirstInv, Others
<1>9. CacheInv'
  BY <1>2, <1>3 DEF CleanInv, CacheInv
<1>10. ShownInv'
  <2>1. ASSUME NEW v \in Ids, NEW f \in Frames PROVE Waits(v, f)' <=> Waits(v, f)
    BY <1>2, <1>3 DEF Waits, Others
  <2> QED
    BY <1>1, <1>3, <2>1 DEF CleanInv, ShownInv, TypeOK
<1>11. AvailableThreadsExact'
  <2>1. FreeThreads' = FreeThreads - 1
    BY <1>1, <1>2, <1>3, FreeThreadsIs
  <2> QED
    BY <1>3, <2>1 DEF CleanInv, AvailableThreadsExact
<1>12. OutputReferencesExact'
  <2>1. ASSUME NEW f \in Frames PROVE outRefs'[f] = Holders(f)'
    <3>1. CachedAt(f)' = CachedAt(f)
      BY <1>3 DEF CachedAt
    <3>2. WaitingAt(f)' = WaitingAt(f)
      BY <1>3, <1>5 DEF WaitingAt, Others
    <3>3. Holders(f)' = Holders(f)
      BY <1>3, <3>1, <3>2, HoldersIs
    <3> QED
      BY <1>3, <3>3 DEF CleanInv, OutputReferencesExact
  <2> QED
    BY <2>1 DEF OutputReferencesExact
<1> QED
  BY <1>2, <1>6, <1>7, <1>8, <1>9, <1>10, <1>11, <1>12 DEF CleanInv

-----------------------------------------------------------------------------
(* Without failures: taking frames from workers *)

\* The frame of the next worker in line is taken, to the cache or the
\* application, or dropped as it is not shown.
Take ==
  /\ Released(ctl.next_output) /\ SameSubmission
  /\ workers[ctl.next_output].status = "idle"
  /\ workers[ctl.next_output].received_frame
  /\ ctl'.next_output = NextId(ctl.next_output)
  /\ ctl'.available_threads = ctl.available_threads + 1
  /\ ctl'.need_resync = StillResync(workers[ctl.next_output])
  /\ at' = "get" => ctl'.cache = <<>>

LEMMA TakeRing ==
  ASSUME CleanInv, Take
  PROVE  /\ RingInv' /\ Held > 0 /\ Held' = Held - 1 /\ Taken' = Taken + 1
         /\ workers[ctl.next_output].frame = Taken + 1
         /\ ctl'.next_output = ctl.next_submit <=> Held = 1
<1> DEFINE w == ctl.next_output
<1>1. TypeOK /\ RingInv
  BY DEF CleanInv, BaseInv
<1>2. /\ NumWorkers \in Int /\ ctl.available_threads \in Int
      /\ Held \in 0 .. NumWorkers /\ Held = NumWorkers - ctl.available_threads
      /\ ctl.submitted \in Int /\ Taken = ctl.submitted - Held
      /\ \A v \in Ids : Age(v) \in 1 .. NumWorkers
      /\ ctl.next_submit \in Ids /\ w \in Ids
  BY <1>1, RingIs
<1>3. /\ Others(w) /\ workers'[w].received_frame = FALSE
      /\ workers[w].received_frame /\ workers'[w].frame = workers[w].frame
      /\ ctl'.next_submit = ctl.next_submit /\ ctl'.next_output = NextId(w)
      /\ ctl'.available_threads = ctl.available_threads + 1
      /\ ctl'.submitted = ctl.submitted
      /\ at' = "get" => ctl'.cache = <<>>
  BY DEF Take, Released, SameSubmission
<1>4. Age(w) = Held /\ Held > 0
  <2>1. Age(w) <= Held
    BY <1>1, <1>2, <1>3 DEF RingInv
  <2>2. Held > 0
    BY <1>2, <2>1
  <2> QED
    BY <1>1, <2>2 DEF RingInv
<1>5. Held' = Held - 1 /\ Taken' = Taken + 1
  BY <1>2, <1>3 DEF Held, Taken
<1>6. workers[w].frame = Taken + 1
  <2>1. workers[w].frame = ctl.submitted + 1 - Age(w)
    BY <1>1, <1>2, <1>3 DEF RingInv
  <2> QED
    BY <1>2, <1>4, <2>1
<1>7. /\ Age(NextId(w)) = IF Held = 1 THEN NumWorkers ELSE Held - 1
      /\ NextId(w) = ctl.next_submit <=> Held = 1
  BY <1>2, <1>4, AgeOfIs DEF Age
<1>8. ASSUME NEW v \in Ids
      PROVE  /\ workers'[v].received_frame <=> Age(v) <= Held - 1
             /\ workers'[v].received_frame =>
                  workers'[v].frame = ctl.submitted + 1 - Age(v)
  <2>1. CASE v = w
    BY <1>2, <1>3, <1>4, <2>1
  <2>2. CASE v # w
    <3>1. Age(v) # Held /\ Age(v) \in Int
      BY <1>2, <1>4, <2>2, AgeOfIs DEF Age
    <3>2. workers'[v] = workers[v]
      BY <1>3, <2>2 DEF Others
    <3>3. /\ workers[v].received_frame <=> Age(v) <= Held
          /\ workers[v].received_frame => workers[v].frame = ctl.submitted + 1 - Age(v)
      BY <1>1 DEF RingInv
    <3>4. Age(v) <= Held <=> Age(v) <= Held - 1
      BY <1>2, <3>1
    <3> QED
      BY <3>2, <3>3, <3>4
  <2> QED
    BY <2>1, <2>2
<1>9. RingInv'
  <2>1. \A v \in Ids : Age(v)' = Age(v)
    BY <1>3 DEF Age
  <2>2. ctl'.available_threads \in 0 .. NumWorkers /\ Held' <= ctl'.submitted
    <3>1. ctl.available_threads \in 0 .. NumWorkers /\ Held <= ctl.submitted
      BY <1>1 DEF RingInv
    <3>2. Held' <= ctl'.submitted
      BY <1>2, <1>3, <1>5, <3>1
    <3>3. ctl.available_threads < NumWorkers
      BY <1>2, <1>4
    <3> QED
      BY <1>2, <1>3, <3>1, <3>2, <3>3
  <2>3. Held' > 0 => Age(NextId(w)) = Held'
    BY <1>2, <1>5, <1>7
  <2>4. Held' = 0 => NextId(w) = ctl.next_submit
    BY <1>2, <1>5, <1>7
  <2>5. /\ \A v \in Ids : workers'[v].received_frame <=> AgeOf(ctl'.next_submit, v) <= Held'
        /\ \A v \in Ids : workers'[v].received_frame =>
             workers'[v].frame = ctl'.submitted + 1 - AgeOf(ctl'.next_submit, v)
    BY <1>3, <1>5, <1>8 DEF Age
  <2>6. /\ Held' > 0 => AgeOf(ctl'.next_submit, ctl'.next_output) = Held'
        /\ Held' = 0 => ctl'.next_output = ctl'.next_submit
    BY <1>3, <2>3, <2>4 DEF Age
  <2> QED
    BY <1>3, <2>2, <2>5, <2>6 DEF RingInv, Age
<1> QED
  BY <1>3, <1>4, <1>5, <1>6, <1>7, <1>9

\* A worker that was looked at holds no frame but is otherwise as before.
LEMMA ReleasedKeeps ==
  ASSUME TypeOK, WorkersInv, LaunchInv, NEW w \in Ids, Released(w),
         workers[w].status = "idle", SameSubmission
  PROVE  WorkersInv' /\ LaunchInv'
<1>1. WorkerInv(workers[w]) /\ ctl.last_submit \in Ids
  BY ControlsAre DEF WorkersInv
<1>2. /\ Others(w) /\ workers'[w].received_frame = FALSE
      /\ workers'[w].ready_for_new_data = TRUE
      /\ workers'[w].status = "idle"
      /\ workers'[w].frame = workers[w].frame /\ workers'[w].kind = workers[w].kind
      /\ workers'[w].had_error = workers[w].had_error
      /\ workers'[w].need_resync = workers[w].need_resync
      /\ workers'[w].has_refs = workers[w].has_refs
      /\ workers'[w].show_frame = workers[w].show_frame
      /\ workers'[w].keyFrame = workers[w].keyFrame
      /\ workers'[w].intra_only = workers[w].intra_only
      /\ workers'[w].frame_context_ready = workers[w].frame_context_ready
  BY DEF Released
<1>3. WorkerInv(workers'[w])
  <2>1. workers[w].frame # NoFrame => Synced(workers'[w])
    BY <1>1, <1>2 DEF WorkerInv, Synced
  <2> QED
    BY <1>1, <1>2, <2>1 DEF WorkerInv
<1>4. \A v \in Ids : workers'[v].frame = workers[v].frame
  BY <1>2 DEF Others
<1> QED
  BY <1>1, <1>2, <1>3, <1>4 DEF WorkersInv, LaunchInv, Others, SameSubmission

LEMMA TakeKeeps ==
  ASSUME CleanInv, Take
  PROVE  /\ WorkersInv' /\ LaunchInv' /\ FirstInv' /\ AvailableThreadsExact'
         /\ ~ctl'.need_resync
<1> DEFINE w == ctl.next_output
<1>1. TypeOK /\ RingInv /\ WorkersInv /\ LaunchInv /\ FirstInv /\ w \in Ids
      /\ WorkerInv(workers[w])
  BY ControlsAre DEF CleanInv, BaseInv, WorkersInv
<1>2. /\ Released(w) /\ workers[w].status = "idle" /\ workers[w].received_frame
      /\ SameSubmission
      /\ ctl'.available_threads = ctl.available_threads + 1
      /\ ctl'.need_resync = StillResync(workers[w])
  BY DEF Take
<1>3. WorkersInv' /\ LaunchInv'
  BY <1>1, <1>2, ReleasedKeeps
<1>4. ~ctl'.need_resync
  <2>1. Synced(workers[w])
    BY <1>1, <1>2 DEF WorkerInv
  <2>2. ctl.need_resync => IsIntra(workers[w].kind)
    <3>1. workers[w].frame = Taken + 1
      BY TakeRing
    <3> QED
      BY <1>1, <1>2, <3>1 DEF FirstInv
  <2> QED
    BY <1>2, <2>1, <2>2 DEF StillResync, Synced
<1>5. FirstInv'
  BY <1>4 DEF FirstInv
<1>6. AvailableThreadsExact'
  <2>1. workers' \in [Ids -> Workers] /\ Others(w) /\ ~workers'[w].received_frame
    BY <1>2 DEF Released
  <2>2. FreeThreads' = FreeThreads + 1
    BY <1>1, <1>2, <2>1, FreeThreadsIs
  <2> QED
    BY <1>2, <2>2 DEF CleanInv, AvailableThreadsExact
<1> QED
  BY <1>3, <1>4, <1>5, <1>6

\* What waits in the workers is then one less, if it was to be shown.
LEMMA TakeWaiting ==
  ASSUME CleanInv, Take
  PROVE  /\ \A v \in Ids, f \in Frames :
              Waits(v, f)' <=> Waits(v, f) /\ v # ctl.next_output
         /\ \A f \in Frames : Waits(ctl.next_output, f) <=>
              /\ HasRawFrame(workers[ctl.next_output])
              /\ f = workers[ctl.next_output].frame
         /\ \A f \in Frames :
              /\ HasRawFrame(workers[ctl.next_output])
                   /\ f = workers[ctl.next_output].frame =>
                   Cardinality(WaitingAt(f)') = Cardinality(WaitingAt(f)) - 1
              /\ ~(HasRawFrame(workers[ctl.next_output])
                   /\ f = workers[ctl.next_output].frame) =>
                   Cardinality(WaitingAt(f)') = Cardinality(WaitingAt(f))
<1> DEFINE w == ctl.next_output
           raw == HasRawFrame(workers[w])
<1>1. TypeOK /\ w \in Ids /\ WorkerInv(workers[w])
  BY ControlsAre DEF CleanInv, BaseInv, WorkersInv
<1>2. /\ Others(w) /\ workers[w].status = "idle" /\ workers[w].received_frame
      /\ workers'[w].received_frame = FALSE
      /\ workers'[w].ready_for_new_data = TRUE
      /\ workers'[w].frame = workers[w].frame
  BY DEF Take, Released
<1>3. raw <=> workers[w].show_frame
  BY <1>1, <1>2 DEF WorkerInv, HasRawFrame
<1>4. \A v \in Ids, f \in Frames : Waits(v, f)' <=> Waits(v, f) /\ v # w
  BY <1>2 DEF Waits, Others
<1>5. \A f \in Frames : Waits(w, f) <=> raw /\ f = workers[w].frame
  BY <1>2, <1>3 DEF Waits
<1>6. ASSUME NEW f \in Frames
      PROVE  /\ raw /\ f = workers[w].frame =>
                  Cardinality(WaitingAt(f)') = Cardinality(WaitingAt(f)) - 1
             /\ ~(raw /\ f = workers[w].frame) =>
                  Cardinality(WaitingAt(f)') = Cardinality(WaitingAt(f))
  <2>1. IsFiniteSet(WaitingAt(f))
    BY <1>1, HoldersFinite
  <2>2. CASE raw /\ f = workers[w].frame
    <3>1. w \in WaitingAt(f) /\ WaitingAt(f)' = WaitingAt(f) \ {w}
      BY <1>1, <1>2, <2>2 DEF WaitingAt, Others, HasRawFrame
    <3>2. Cardinality(WaitingAt(f)') = Cardinality(WaitingAt(f)) - 1
      BY <2>1, <3>1, FS_RemoveElement
    <3> QED
      BY <2>2, <3>2
  <2>3. CASE ~(raw /\ f = workers[w].frame)
    <3>1. WaitingAt(f)' = WaitingAt(f)
      BY <1>1, <1>2, <2>3 DEF WaitingAt, Others, HasRawFrame
    <3> QED
      BY <2>3, <3>1
  <2> QED
    BY <2>2, <2>3
<1> QED
  BY <1>4, <1>5, <1>6

\* How often a frame is in the cache when one is put in or taken out.
LEMMA PlacesAre ==
  ASSUME NEW c \in Seq(Frames), NEW f \in Frames
  PROVE  IsFiniteSet(Places(c, f)) /\ Cardinality(Places(c, f)) \in Nat
<1>1. IsFiniteSet(DOMAIN c)
  BY FS_Interval
<1>2. IsFiniteSet(Places(c, f))
  BY <1>1, FS_Subset DEF Places
<1> QED
  BY <1>2, FS_CardinalityType

LEMMA PlacesAppended ==
  ASSUME NEW c \in Seq(Frames), NEW g \in Frames, NEW f \in Frames
  PROVE  /\ f = g => Cardinality(Places(Append(c, g), f)) = Cardinality(Places(c, f)) + 1
         /\ f # g => Cardinality(Places(Append(c, g), f)) = Cardinality(Places(c, f))
<1> DEFINE n == Len(c) + 1
<1>1. /\ n \in Nat /\ DOMAIN c = 1 .. Len(c) /\ Len(c) \in Nat
      /\ DOMAIN Append(c, g) = 1 .. n /\ Append(c, g)[n] = g
      /\ \A i \in 1 .. Len(c) : Append(c, g)[i] = c[i]
  OBVIOUS
<1>2. IsFiniteSet(Places(c, f)) /\ n \notin Places(c, f)
  BY <1>1, PlacesAre DEF Places
<1>3. CASE f = g
  <2>1. Places(Append(c, g), f) = Places(c, f) \cup {n}
    <3>1. DOMAIN Append(c, g) = DOMAIN c \cup {n}
      BY <1>1
    <3> HIDE DEF n
    <3> QED
      BY <1>1, <1>3, <3>1 DEF Places
  <2> QED
    BY <1>2, <1>3, <2>1, FS_AddElement
<1>4. CASE f # g
  <2>1. Places(Append(c, g), f) = Places(c, f)
    <3>1. DOMAIN Append(c, g) = DOMAIN c \cup {n}
      BY <1>1
    <3> HIDE DEF n
    <3> QED
      BY <1>1, <1>4, <3>1 DEF Places
  <2> QED
    BY <1>4, <2>1
<1> QED
  BY <1>3, <1>4

LEMMA PlacesOfTail ==
  ASSUME NEW c \in Seq(Frames), c # <<>>, NEW f \in Frames
  PROVE  /\ f = Head(c) => Cardinality(Places(Tail(c), f)) = Cardinality(Places(c, f)) - 1
         /\ f # Head(c) => Cardinality(Places(Tail(c), f)) = Cardinality(Places(c, f))
<1> DEFINE S == Places(Tail(c), f)
           T == Places(c, f) \ {1}
           h == [i \in S |-> i + 1]
<1>1. /\ Len(c) \in Nat \ {0} /\ DOMAIN c = 1 .. Len(c)
      /\ DOMAIN Tail(c) = 1 .. Len(c) - 1 /\ Head(c) = c[1]
      /\ \A i \in 1 .. Len(c) - 1 : Tail(c)[i] = c[i + 1]
  OBVIOUS
<1>2. IsFiniteSet(T) /\ IsFiniteSet(Places(c, f))
  BY PlacesAre, FS_Subset
<1>3. \A i \in S : i \in Int /\ i + 1 \in T
  BY <1>1 DEF Places
<1>4. \A j \in T : j \in Int /\ j - 1 \in S
  BY <1>1 DEF Places
<1>5. Cardinality(S) = Cardinality(T)
  <2> HIDE DEF S, T
  <2>1. h \in [S -> T] /\ \A i, j \in S : h[i] = h[j] => i = j
    BY <1>3
  <2>2. ASSUME NEW j \in T PROVE \E i \in S : h[i] = j
    <3>1. j - 1 \in S /\ h[j - 1] = j
      BY <1>4
    <3> QED
      BY <3>1
  <2>3. h \in Injection(S, T) /\ h \in Surjection(S, T)
    <3> HIDE DEF h
    <3> QED
      BY <2>1, <2>2 DEF Injection, IsInjective, Surjection
  <2>4. IsFiniteSet(S)
    BY <1>2, <2>3, FS_Injection
  <2> QED
    BY <2>3, <2>4, FS_Surjection
<1>6. CASE f = Head(c)
  <2>1. 1 \in Places(c, f)
    BY <1>1, <1>6 DEF Places
  <2>2. Cardinality(T) = Cardinality(Places(c, f)) - 1
    BY <1>2, <2>1, FS_RemoveElement
  <2> QED
    BY <1>5, <1>6, <2>2
<1>7. CASE f # Head(c)
  <2>1. T = Places(c, f)
    BY <1>1, <1>7 DEF Places
  <2> QED
    BY <1>5, <1>7, <2>1
<1> QED
  BY <1>6, <1>7

\* The cache and the frames shown after a worker's frame went into the cache,
\* or was not to be shown.
LEMMA WaitOrder ==
  ASSUME CleanInv, WaitWorkerAndCacheFrame, Take
  PROVE  CacheInv' /\ ShownInv' /\ OutputReferencesExact'
<1> DEFINE w == ctl.next_output
           g == workers[w].frame
           raw == HasRawFrame(workers[w])
<1>1. /\ TypeOK /\ RingInv /\ w \in Ids /\ ctl.cache \in Seq(Frames)
      /\ CacheInv /\ ShownInv /\ OutputReferencesExact
      /\ shown \subseteq Frames /\ image \in Int
  <2>1. TypeOK
    BY DEF CleanInv, BaseInv
  <2>2. shown \subseteq Frames /\ image \in Int
    BY <2>1 DEF TypeOK, Frames, NoFrame
  <2> QED
    BY <2>1, <2>2, ControlsAre DEF CleanInv
<1>2. Taken \in Int /\ Taken' = Taken + 1 /\ g = Taken + 1
  BY <1>1, RingIs, TakeRing
<1>3. /\ raw => ctl'.cache = Append(ctl.cache, g)
      /\ ~raw => ctl'.cache = ctl.cache
      /\ ctl'.last_show_frame = ctl.last_show_frame
      /\ UNCHANGED <<outRefs, image, shown>>
  BY WaitIs DEF CleanInv
<1>4. /\ \A v \in Ids, f \in Frames : Waits(v, f)' <=> Waits(v, f) /\ v # w
      /\ \A f \in Frames : Waits(w, f) <=> raw /\ f = g
      /\ \A f \in Frames :
           /\ raw /\ f = g => Cardinality(WaitingAt(f)') = Cardinality(WaitingAt(f)) - 1
           /\ ~(raw /\ f = g) => Cardinality(WaitingAt(f)') = Cardinality(WaitingAt(f))
  BY TakeWaiting
<1>5. raw => g \in Frames /\ g \in shown
  <2>1. raw => g \in Frames
    BY <1>1, RawFrameIs DEF CleanInv
  <2> QED
    BY <1>1, <1>4, <2>1 DEF ShownInv
<1>6. CASE raw
  <2> DEFINE c == Append(ctl.cache, g)
             n == Len(ctl.cache) + 1
  <2>1. /\ DOMAIN c = 1 .. n /\ DOMAIN ctl.cache = 1 .. n - 1 /\ n \in Nat \ {0}
        /\ c[n] = g /\ \A i \in 1 .. n - 1 : c[i] = ctl.cache[i]
        /\ \A i \in 1 .. n - 1 : ctl.cache[i] \in Int
    <3>1. ctl.cache \in Seq(Frames) /\ g \in Frames
      BY <1>1, <1>5, <1>6
    <3>2. Len(ctl.cache) \in Nat /\ DOMAIN ctl.cache = 1 .. Len(ctl.cache)
          /\ \A i \in 1 .. Len(ctl.cache) : ctl.cache[i] \in Frames
      BY <3>1
    <3>3. n \in Nat \ {0} /\ n - 1 = Len(ctl.cache)
      BY <3>2
    <3>4. DOMAIN c = 1 .. n /\ c[n] = g
          /\ \A i \in 1 .. Len(ctl.cache) : c[i] = ctl.cache[i]
      <4> HIDE DEF g
      <4> QED
        BY <3>1
    <3>5. Frames \subseteq Int
      BY DEF Frames
    <3> HIDE DEF c, n, g
    <3> QED
      BY <3>2, <3>3, <3>4, <3>5
  <2>2. ctl'.cache = c
    BY <1>3, <1>6
  <2> HIDE DEF c
  <2>3. \A i \in 1 .. n : i = n \/ i \in 1 .. n - 1
    BY <2>1
  <2>4. CacheInv'
    <3>1. \A i \in 1 .. n : c[i] \in shown /\ image < c[i] /\ c[i] <= Taken + 1
      BY <1>1, <1>2, <1>5, <1>6, <2>1, <2>3 DEF CacheInv
    <3>2. ASSUME NEW i \in 1 .. n, NEW j \in 1 .. n, i < j PROVE c[i] < c[j]
      <4>1. i \in 1 .. n - 1
        BY <2>1, <2>3, <3>2
      <4>2. c[i] \in Int /\ c[i] <= Taken
        BY <1>1, <2>1, <4>1 DEF CacheInv
      <4> QED
        BY <1>1, <1>2, <2>1, <2>3, <3>2, <4>1, <4>2 DEF CacheInv
    <3>3. image <= Taken + 1
      BY <1>1, <1>2 DEF CacheInv
    <3> QED
      BY <1>2, <1>3, <2>1, <2>2, <3>1, <3>2, <3>3 DEF CacheInv
  <2>5. ShownInv'
    <3>1. ASSUME NEW f \in shown
          PROVE  \/ f <= image
                 \/ \E i \in DOMAIN c : c[i] = f
                 \/ \E v \in Ids : Waits(v, f)'
      <4>1. CASE f = g
        BY <2>1, <4>1
      <4>2. CASE f # g
        BY <1>1, <1>4, <2>1, <2>3, <4>2 DEF ShownInv
      <4> QED
        BY <4>1, <4>2
    <3> QED
      BY <1>1, <1>3, <1>4, <2>2, <3>1 DEF ShownInv
  <2>6. OutputReferencesExact'
    <3>1. ASSUME NEW f \in Frames PROVE outRefs'[f] = Holders(f)'
      <4>1. /\ Cardinality(CachedAt(f)) \in Nat /\ Cardinality(WaitingAt(f)) \in Nat
        BY <1>1, HoldersFinite
      <4>2. /\ f = g => Cardinality(CachedAt(f)') = Cardinality(CachedAt(f)) + 1
            /\ f # g => Cardinality(CachedAt(f)') = Cardinality(CachedAt(f))
        BY <1>1, <1>5, <1>6, <2>2, PlacesAppended DEF CachedAt, c
      <4>3. Holders(f)' = Holders(f)
        BY <1>3, <1>4, <1>6, <4>1, <4>2, HoldersIs
      <4> QED
        BY <1>1, <1>3, <4>3 DEF OutputReferencesExact
    <3> QED
      BY <3>1 DEF OutputReferencesExact
  <2> QED
    BY <2>4, <2>5, <2>6
<1>7. CASE ~raw
  <2>1. ctl'.cache = ctl.cache
    BY <1>3, <1>7
  <2>2. CacheInv'
    <3>1. \A i \in DOMAIN ctl.cache : ctl.cache[i] \in Int
      <4>1. \A i \in DOMAIN ctl.cache : ctl.cache[i] \in Frames
        BY <1>1
      <4> QED
        BY <4>1 DEF Frames
    <3> QED
      BY <1>1, <1>2, <1>3, <2>1, <3>1 DEF CacheInv
  <2>3. ShownInv'
    BY <1>1, <1>3, <1>4, <1>7, <2>1 DEF ShownInv
  <2>4. OutputReferencesExact'
    <3>1. ASSUME NEW f \in Frames PROVE outRefs'[f] = Holders(f)'
      <4>1. CachedAt(f)' = CachedAt(f)
        BY <2>1 DEF CachedAt
      <4>2. Holders(f)' = Holders(f)
        BY <1>3, <1>4, <1>7, <4>1, HoldersIs
      <4> QED
        BY <1>1, <1>3, <4>2 DEF OutputReferencesExact
    <3> QED
      BY <3>1 DEF OutputReferencesExact
  <2> QED
    BY <2>2, <2>3, <2>4
<1> QED
  BY <1>6, <1>7

LEMMA LastReleasedIs ==
  ASSUME TypeOK, LastReleased, NEW f \in Frames
  PROVE  /\ outRefs[f] \in Int
         /\ ctl.last_show_frame = f => outRefs'[f] = outRefs[f] - 1
         /\ ctl.last_show_frame # f => outRefs'[f] = outRefs[f]
<1>1. outRefs \in [Frames -> Int] /\ ctl.last_show_frame \in Frames \cup {NoFrame}
      /\ f # NoFrame
  BY ControlsAre DEF TypeOK, Frames, NoFrame
<1> QED
  BY <1>1 DEF LastReleased

\* The same when the application gets the frame.
LEMMA OutputOrder ==
  ASSUME CleanInv, OutputFrame, Take
  PROVE  CacheInv' /\ ShownInv' /\ OutputReferencesExact'
<1> DEFINE w == ctl.next_output
           g == workers[w].frame
           raw == HasRawFrame(workers[w])
<1>1. /\ TypeOK /\ RingInv /\ w \in Ids
      /\ CacheInv /\ ShownInv /\ OutputReferencesExact
      /\ shown \subseteq Frames /\ image \in Int
  <2>1. TypeOK
    BY DEF CleanInv, BaseInv
  <2>2. shown \subseteq Frames /\ image \in Int
    BY <2>1 DEF TypeOK, Frames, NoFrame
  <2> QED
    BY <2>1, <2>2, ControlsAre DEF CleanInv
<1>2. Taken \in Int /\ Taken' = Taken + 1 /\ g = Taken + 1
  BY <1>1, RingIs, TakeRing
<1>3. /\ raw => /\ LastReleased /\ ctl'.last_show_frame = g
                /\ image' = IF ctl'.need_resync THEN image ELSE g
      /\ ~raw => /\ UNCHANGED <<outRefs, image>>
                 /\ ctl'.last_show_frame = ctl.last_show_frame
      /\ ctl'.cache = ctl.cache /\ shown' = shown /\ at = "get"
  BY OutputFrameIs DEF CleanInv
<1>4. /\ \A v \in Ids, f \in Frames : Waits(v, f)' <=> Waits(v, f) /\ v # w
      /\ \A f \in Frames : Waits(w, f) <=> raw /\ f = g
      /\ \A f \in Frames :
           /\ raw /\ f = g => Cardinality(WaitingAt(f)') = Cardinality(WaitingAt(f)) - 1
           /\ ~(raw /\ f = g) => Cardinality(WaitingAt(f)') = Cardinality(WaitingAt(f))
  BY TakeWaiting
<1>5. ctl.cache = <<>> /\ DOMAIN ctl.cache = {}
  BY <1>1, <1>3 DEF RingInv
<1>6. ~ctl'.need_resync
  BY TakeKeeps
<1>7. CacheInv' /\ ShownInv'
  <2>1. image <= Taken
    BY <1>1 DEF CacheInv
  <2>2. CASE raw
    <3>1. image' = Taken + 1
      BY <1>2, <1>3, <1>6, <2>2
    <3>2. CacheInv'
      BY <1>2, <1>3, <1>5, <3>1 DEF CacheInv
    <3>3. ASSUME NEW f \in shown
          PROVE  f <= image' \/ \E v \in Ids : Waits(v, f)'
      <4>1. CASE f <= image
        BY <1>1, <1>2, <2>1, <3>1, <4>1 DEF Frames
      <4>2. CASE \E v \in Ids : Waits(v, f)
        BY <1>1, <1>2, <1>4, <3>1, <4>2
      <4> QED
        BY <1>1, <1>5, <4>1, <4>2 DEF ShownInv
    <3> QED
      BY <1>1, <1>3, <1>4, <3>2, <3>3 DEF ShownInv
  <2>3. CASE ~raw
    <3>1. image' = image
      BY <1>3, <2>3
    <3>2. CacheInv'
      BY <1>1, <1>2, <1>3, <1>5, <2>1, <3>1 DEF CacheInv
    <3>3. ShownInv'
      BY <1>1, <1>3, <1>4, <2>3, <3>1 DEF ShownInv
    <3> QED
      BY <3>2, <3>3
  <2> QED
    BY <2>2, <2>3
<1>8. OutputReferencesExact'
  <2>1. ASSUME NEW f \in Frames PROVE outRefs'[f] = Holders(f)'
    <3>1. /\ Cardinality(CachedAt(f)) \in Nat /\ Cardinality(WaitingAt(f)) \in Nat
          /\ CachedAt(f)' = CachedAt(f)
      BY <1>1, <1>3, HoldersFinite DEF CachedAt
    <3>2. outRefs[f] = Holders(f)
      BY <1>1 DEF OutputReferencesExact
    <3>3. CASE raw
      <4>1. /\ ctl.last_show_frame = f => outRefs'[f] = outRefs[f] - 1
            /\ ctl.last_show_frame # f => outRefs'[f] = outRefs[f]
        BY <1>1, <1>3, <3>3, LastReleasedIs
      <4>2. outRefs'[f] = Cardinality(CachedAt(f)) + Cardinality(WaitingAt(f))
        BY <3>1, <3>2, <4>1, HoldersIs
      <4>3. Holders(f)' = Cardinality(CachedAt(f)) + Cardinality(WaitingAt(f))
        BY <1>3, <1>4, <3>1, <3>3, HoldersIs
      <4> QED
        BY <4>2, <4>3
    <3>4. CASE ~raw
      BY <1>3, <1>4, <3>1, <3>2, <3>4, HoldersIs
    <3> QED
      BY <3>3, <3>4
  <2> QED
    BY <2>1 DEF OutputReferencesExact
<1> QED
  BY <1>7, <1>8

\* The loop passes a worker that holds no frame.
LEMMA PassKeeps ==
  ASSUME CleanInv, BaseInv', OutputFrame,
         ~workers[ctl.next_output].received_frame
  PROVE  CleanInv' /\ Held = 0 /\ Held' = 0 /\ image' = image
<1> DEFINE w == ctl.next_output
<1>1. /\ TypeOK /\ RingInv /\ WorkersInv /\ LaunchInv /\ w \in Ids
      /\ WorkerInv(workers[w]) /\ Held \in Int
  <2>1. TypeOK /\ RingInv /\ WorkersInv /\ LaunchInv /\ w \in Ids
    BY ControlsAre DEF CleanInv, BaseInv
  <2> QED
    BY <2>1, RingIs DEF WorkersInv
<1>2. ~HasRawFrame(workers[w])
  BY <1>1 DEF WorkerInv, HasRawFrame
<1>3. /\ Released(w) /\ workers[w].status = "idle" /\ SameSubmission
      /\ ctl'.next_output = NextId(w) /\ ctl'.cache = ctl.cache
      /\ ctl'.available_threads = ctl.available_threads
      /\ ctl'.need_resync = ctl.need_resync
      /\ UNCHANGED <<outRefs, image, shown>>
      /\ ctl'.last_show_frame = ctl.last_show_frame
      /\ at' = IF ctl'.next_output = ctl.next_submit THEN "ready" ELSE "get"
      /\ at = "get"
  BY <1>2, OutputFrameIs DEF CleanInv
<1>4. /\ Others(w) /\ workers'[w].received_frame = FALSE
      /\ workers'[w].ready_for_new_data = TRUE
      /\ workers'[w].frame = workers[w].frame /\ workers'[w].kind = workers[w].kind
      /\ workers' \in [Ids -> Workers]
      /\ ctl'.next_submit = ctl.next_submit /\ ctl'.submitted = ctl.submitted
  BY <1>3 DEF Released, SameSubmission
<1>5. Held = 0
  <2>1. Held \in 0 .. NumWorkers /\ Age(w) \in Int
    BY <1>1, RingIs
  <2>2. ~(Age(w) <= Held)
    BY <1>1 DEF RingInv
  <2>3. ~(Held > 0)
    BY <1>1, <2>1, <2>2 DEF RingInv
  <2> QED
    BY <2>1, <2>3
<1>6. Held' = Held /\ Taken' = Taken
  BY <1>3, <1>4 DEF Held, Taken
<1>7. \A v \in Ids : /\ ~workers[v].received_frame /\ ~workers'[v].received_frame
                     /\ workers'[v].frame = workers[v].frame
                     /\ workers'[v].kind = workers[v].kind
  <2>1. \A v \in Ids : ~workers[v].received_frame
    <3>1. \A v \in Ids : Age(v) \in 1 .. NumWorkers
      BY <1>1, RingIs
    <3> QED
      BY <1>1, <1>5, <3>1 DEF RingInv
  <2> QED
    BY <1>4, <2>1 DEF Others
<1>8. RingInv'
  <2>1. /\ ctl'.available_threads \in 0 .. NumWorkers /\ Held' <= ctl'.submitted
        /\ Held' = 0 /\ ctl'.cache = <<>>
    BY <1>1, <1>3, <1>4, <1>5, <1>6 DEF RingInv
  <2>2. \A v \in Ids : ~(AgeOf(ctl'.next_submit, v) <= 0)
    <3>1. \A v \in Ids : Age(v) \in 1 .. NumWorkers
      BY <1>1, RingIs
    <3> QED
      BY <1>4, <3>1 DEF Age
  <2>3. at' # "get" => ctl'.next_output = ctl'.next_submit
    BY <1>3, <1>4
  <2> QED
    BY <1>7, <2>1, <2>2, <2>3 DEF RingInv, Age
<1>9. WorkersInv' /\ LaunchInv'
  BY <1>1, <1>3, ReleasedKeeps
<1>10. FirstInv'
  BY <1>3, <1>6, <1>7 DEF CleanInv, FirstInv
<1>11. CacheInv'
  BY <1>3, <1>6 DEF CleanInv, CacheInv
<1>12. ShownInv'
  <2>1. \A v \in Ids, f \in Frames : ~Waits(v, f) /\ ~Waits(v, f)'
    BY <1>7 DEF Waits
  <2>2. shown \subseteq Frames
    BY <1>1 DEF TypeOK
  <2> QED
    BY <1>3, <2>1, <2>2 DEF CleanInv, ShownInv
<1>13. AvailableThreadsExact'
  <2>1. workers[w].received_frame = FALSE
    BY <1>1 DEF TypeOK, Workers
  <2>2. FreeThreads' = FreeThreads
    BY <1>1, <1>4, <2>1, FreeThreadsIs
  <2> QED
    BY <1>3, <2>2 DEF CleanInv, AvailableThreadsExact
<1>14. OutputReferencesExact'
  <2>1. ASSUME NEW f \in Frames PROVE outRefs'[f] = Holders(f)'
    <3>1. CachedAt(f)' = CachedAt(f)
      BY <1>3 DEF CachedAt
    <3>2. WaitingAt(f)' = WaitingAt(f)
      BY <1>2, <1>4 DEF WaitingAt, Others, HasRawFrame
    <3>3. Holders(f)' = Holders(f)
      BY <1>3, <3>1, <3>2, HoldersIs
    <3> QED
      BY <1>3, <3>3 DEF CleanInv, OutputReferencesExact
  <2> QED
    BY <2>1 DEF OutputReferencesExact
<1> QED
  BY <1>3, <1>5, <1>6, <1>8, <1>9, <1>10, <1>11, <1>12, <1>13, <1>14 DEF CleanInv

LEMMA CachedKeeps ==
  ASSUME CleanInv, BaseInv', GetCachedFrame
  PROVE  CleanInv'
<1> DEFINE c == ctl.cache
           g == Head(c)
<1>1. /\ TypeOK /\ RingInv /\ c \in Seq(Frames)
      /\ CacheInv /\ ShownInv /\ OutputReferencesExact
      /\ shown \subseteq Frames /\ image \in Int
  <2>1. TypeOK
    BY DEF CleanInv, BaseInv
  <2>2. shown \subseteq Frames /\ image \in Int
    BY <2>1 DEF TypeOK, Frames, NoFrame
  <2> QED
    BY <2>1, <2>2, ControlsAre DEF CleanInv
<1>2. /\ SameSubmission /\ ctl'.next_output = ctl.next_output
      /\ ctl'.available_threads = ctl.available_threads
      /\ ctl'.need_resync = ctl.need_resync
      /\ c # <<>> /\ g \in Frames /\ ctl'.last_show_frame = g
      /\ ~ctl.need_resync => ctl'.cache = Tail(c) /\ image' = g
      /\ at = "ready" /\ LastReleased /\ UNCHANGED <<workers, at, shown>>
  BY GetCachedFrameIs DEF CleanInv
<1>3. ~ctl.need_resync /\ ctl'.cache = Tail(c) /\ image' = g
  BY <1>2 DEF CleanInv, FirstInv
<1>4. /\ ctl'.si_h = ctl.si_h /\ ctl'.submitted = ctl.submitted
      /\ ctl'.next_submit = ctl.next_submit /\ ctl'.last_submit = ctl.last_submit
  BY <1>2 DEF SameSubmission
<1>5. Held' = Held /\ Taken' = Taken
  BY <1>2, <1>4 DEF Held, Taken
<1>6. RingInv'
  BY <1>1, <1>2, <1>4, <1>5 DEF RingInv, Age
<1>7. WorkersInv' /\ LaunchInv' /\ FirstInv'
  BY <1>2, <1>3, <1>4 DEF CleanInv, WorkersInv, LaunchInv, FirstInv
<1>8. AvailableThreadsExact'
  BY <1>2 DEF CleanInv, AvailableThreadsExact, FreeThreads
<1> DEFINE n == Len(c)
           t == Tail(c)
<1>9. /\ n \in Nat \ {0} /\ DOMAIN c = 1 .. n /\ DOMAIN t = 1 .. n - 1 /\ g = c[1]
      /\ \A i \in 1 .. n - 1 : t[i] = c[i + 1]
      /\ \A i \in 1 .. n : c[i] \in Frames
  <2> HIDE DEF c
  <2> QED
    BY <1>1, <1>2
<1>10. \A i \in 1 .. n : c[i] \in Int
  BY <1>9 DEF Frames
<1>11. CacheInv'
  <2>1. \A i \in 1 .. n - 1 : i \in 1 .. n /\ i + 1 \in 1 .. n /\ 1 < i + 1
    BY <1>9
  <2>2. 1 \in 1 .. n
    BY <1>9
  <2>3. \A i \in 1 .. n - 1 : t[i] \in shown /\ g < t[i] /\ t[i] <= Taken
    BY <1>1, <1>9, <2>1, <2>2 DEF CacheInv
  <2>4. ASSUME NEW i \in 1 .. n - 1, NEW j \in 1 .. n - 1, i < j PROVE t[i] < t[j]
    <3>1. i + 1 < j + 1
      BY <1>9, <2>4
    <3> QED
      BY <1>1, <1>9, <2>1, <3>1 DEF CacheInv
  <2>5. g <= Taken
    BY <1>1, <1>9, <2>2 DEF CacheInv
  <2> HIDE DEF t, n, g
  <2> QED
    BY <1>2, <1>3, <1>5, <1>9, <2>3, <2>4, <2>5 DEF CacheInv, t, g
<1>12. ShownInv'
  <2>1. \A v \in Ids, f \in Frames : Waits(v, f)' <=> Waits(v, f)
    BY <1>2 DEF Waits
  <2>2. ASSUME NEW f \in shown
        PROVE  \/ f <= g
               \/ \E i \in DOMAIN t : t[i] = f
               \/ \E v \in Ids : Waits(v, f)'
    <3>1. CASE f <= image
      <4>1. image < g
        BY <1>1, <1>9 DEF CacheInv
      <4> QED
        BY <1>1, <1>9, <1>10, <3>1, <4>1 DEF Frames
    <3>2. CASE \E i \in DOMAIN c : c[i] = f
      <4>1. PICK i \in 1 .. n : c[i] = f
        BY <1>9, <3>2
      <4>2. CASE i = 1
        BY <1>9, <1>10, <4>1, <4>2
      <4>3. CASE i # 1
        <5>1. i - 1 \in 1 .. n - 1 /\ t[i - 1] = c[i]
          BY <1>9, <4>3
        <5> QED
          BY <1>9, <4>1, <5>1
      <4> QED
        BY <4>2, <4>3
    <3> QED
      BY <1>1, <2>1, <3>1, <3>2 DEF ShownInv
  <2> QED
    BY <1>1, <1>2, <1>3, <2>1, <2>2 DEF ShownInv
<1>13. OutputReferencesExact'
  <2>1. ASSUME NEW f \in Frames PROVE outRefs'[f] = Holders(f)'
    <3>1. /\ Cardinality(CachedAt(f)) \in Nat /\ Cardinality(WaitingAt(f)) \in Nat
          /\ outRefs[f] = Holders(f) /\ WaitingAt(f)' = WaitingAt(f)
      BY <1>1, <1>2, HoldersFinite DEF WaitingAt, OutputReferencesExact
    <3>2. /\ f = g => Cardinality(CachedAt(f)') = Cardinality(CachedAt(f)) - 1
          /\ f # g => Cardinality(CachedAt(f)') = Cardinality(CachedAt(f))
      BY <1>1, <1>2, <1>3, PlacesOfTail DEF CachedAt
    <3>3. /\ ctl.last_show_frame = f => outRefs'[f] = outRefs[f] - 1
          /\ ctl.last_show_frame # f => outRefs'[f] = outRefs[f]
      BY <1>1, <1>2, LastReleasedIs
    <3>4. outRefs'[f] = Cardinality(CachedAt(f)) + Cardinality(WaitingAt(f))
      BY <3>1, <3>3, HoldersIs
    <3>5. Holders(f)' = Cardinality(CachedAt(f)) + Cardinality(WaitingAt(f))
      BY <1>2, <3>1, <3>2, HoldersIs
    <3> QED
      BY <3>4, <3>5
  <2> QED
    BY <2>1 DEF OutputReferencesExact
<1> QED
  BY <1>6, <1>7, <1>8, <1>11, <1>12, <1>13 DEF CleanInv

-----------------------------------------------------------------------------
(* Without failures: every step, and what follows *)

LEMMA CleanInit ==
  Init => CleanInv
<1> SUFFICES ASSUME Init PROVE CleanInv
  OBVIOUS
<1>1. BaseInv /\ TypeOK
  BY BaseInit DEF BaseInv
<1>2. NumWorkers \in Nat \ {0} /\ 0 \in Ids
  BY ControlAssumption DEF Ids
<1>3. /\ ctl.available_threads = NumWorkers /\ ctl.submitted = 0
      /\ ctl.next_submit = 0 /\ ctl.last_submit = 0 /\ ctl.next_output = 0
      /\ ctl.si_h = FALSE /\ ctl.cache = <<>> /\ ctl.last_show_frame = NoFrame
      /\ image = 0 /\ shown = {} /\ at = "ready"
      /\ \A f \in Frames : outRefs[f] = 0
  BY DEF Init, NoFrame
<1>4. \A w \in Ids : /\ workers[w].status = "idle" /\ workers[w].frame = NoFrame
                     /\ workers[w].ready_for_new_data = TRUE
                     /\ workers[w].frame_context_ready = FALSE
                     /\ workers[w].received_frame = FALSE
                     /\ workers[w].had_error = FALSE
  BY DEF Init
<1>5. Held = 0 /\ Taken = 0
  BY <1>2, <1>3 DEF Held, Taken
<1>6. RingInv
  <2>1. \A w \in Ids : ~(Age(w) <= 0)
    BY <1>2, <1>3, AgeOfIs DEF Age
  <2> QED
    BY <1>2, <1>3, <1>4, <1>5, <2>1 DEF RingInv
<1>7. WorkersInv
  BY <1>4 DEF WorkersInv, WorkerInv
<1>8. LaunchInv /\ FirstInv
  BY <1>3, <1>4, <1>5 DEF LaunchInv, FirstInv
<1>9. CacheInv /\ ShownInv
  <2>1. DOMAIN ctl.cache = {}
    BY <1>3
  <2> QED
    BY <1>3, <1>4, <1>5, <2>1 DEF CacheInv, ShownInv, Waits
<1>10. AvailableThreadsExact
  <2>1. {w \in Ids : workers[w].received_frame} = {}
    BY <1>4
  <2> QED
    BY <1>2, <1>3, <2>1, FS_EmptySet DEF AvailableThreadsExact, FreeThreads
<1>11. OutputReferencesExact
  <2>1. ASSUME NEW f \in Frames PROVE outRefs[f] = Holders(f)
    <3>1. CachedAt(f) = {} /\ WaitingAt(f) = {}
      BY <1>3, <1>4 DEF CachedAt, Places, WaitingAt, HasRawFrame
    <3>2. f # NoFrame
      BY DEF Frames, NoFrame
    <3>3. Holders(f) = (IF ctl.last_show_frame = f THEN 1 ELSE 0)
                       + Cardinality(CachedAt(f)) + Cardinality(WaitingAt(f))
      BY HoldersIs, Zenon
    <3>4. Cardinality(CachedAt(f)) = 0 /\ Cardinality(WaitingAt(f)) = 0
      BY <3>1, FS_EmptySet
    <3>5. ctl.last_show_frame # f /\ outRefs[f] = 0
      BY <1>3, <3>2
    <3>6. Holders(f) = 0
      BY <3>3, <3>4, <3>5
    <3> QED
      BY <3>5, <3>6
  <2> QED
    BY <2>1 DEF OutputReferencesExact
<1> QED
  BY <1>1, <1>6, <1>7, <1>8, <1>9, <1>10, <1>11 DEF CleanInv

\* When the cache takes a frame, the worker in line holds one.
LEMMA WaitTakes ==
  ASSUME CleanInv, WaitWorkerAndCacheFrame
  PROVE  Take
<1> DEFINE w == ctl.next_output
<1>1. TypeOK /\ RingInv
  BY DEF CleanInv, BaseInv
<1>2. /\ Released(w) /\ workers[w].status = "idle" /\ SameSubmission
      /\ ctl'.next_output = NextId(w)
      /\ ctl.available_threads = 0 /\ ctl'.available_threads = 1
      /\ ctl'.need_resync = StillResync(workers[w])
      /\ at = "decode" /\ at' = at
  BY WaitIs DEF CleanInv
<1>3. workers[w].received_frame
  <2>1. Held = NumWorkers /\ Held > 0 /\ w \in Ids
    BY <1>1, <1>2, RingIs, ControlAssumption
  <2>2. Age(w) = Held
    BY <1>1, <2>1 DEF RingInv
  <2> QED
    BY <1>1, <2>1, <2>2, RingIs DEF RingInv
<1> QED
  BY <1>2, <1>3 DEF Take

LEMMA OutputTakes ==
  ASSUME CleanInv, OutputFrame, workers[ctl.next_output].received_frame
  PROVE  Take
<1> DEFINE w == ctl.next_output
<1>1. /\ Released(w) /\ workers[w].status = "idle" /\ SameSubmission
      /\ ctl'.next_output = NextId(w) /\ ctl'.cache = ctl.cache
      /\ ctl'.available_threads = ctl.available_threads + 1
      /\ ctl'.need_resync = StillResync(workers[w])
      /\ at = "get"
  BY OutputFrameIs DEF CleanInv
<1>2. ctl.cache = <<>>
  BY <1>1 DEF CleanInv, RingInv
<1> QED
  BY <1>1, <1>2 DEF Take

LEMMA CleanStep ==
  ASSUME Sound, CleanInv, [Next]_vars
  PROVE  CleanInv'
<1>1. BaseInv /\ BaseInv' /\ WorkersInv /\ TypeOK
  BY BaseStep DEF CleanInv, BaseInv
<1>2. CASE (Call /\ ~GetCachedFrame) \/ DecodeFails \/ UNCHANGED vars
  BY <1>1, <1>2, QuietIs, QuietKeeps
<1>3. CASE GetCachedFrame
  BY <1>1, <1>3, CachedKeeps
<1>4. CASE WaitWorkerAndCacheFrame
  <2>1. Take
    BY <1>4, WaitTakes
  <2> QED
    BY <1>1, <1>4, <2>1, TakeRing, TakeKeeps, WaitOrder DEF CleanInv
<1>5. CASE DecodeOne
  BY <1>1, <1>5, LaunchKeeps
<1>6. CASE OutputFrame
  <2>1. CASE workers[ctl.next_output].received_frame
    <3>1. Take
      BY <1>6, <2>1, OutputTakes
    <3> QED
      BY <1>1, <1>6, <3>1, TakeRing, TakeKeeps, OutputOrder DEF CleanInv
  <2>2. CASE ~workers[ctl.next_output].received_frame
    BY <1>1, <1>6, <2>2, PassKeeps
  <2> QED
    BY <2>1, <2>2
<1>7. CASE ScratchFails
  BY <1>7 DEF ScratchFails, Sound
<1>8. CASE OutputFailed
  <2>1. ctl.next_output \in Ids
    BY <1>1, ControlsAre
  <2> QED
    BY <1>1, <1>8, <2>1, OutputFailedIs DEF WorkersInv, WorkerInv
<1>9. CASE \E w \in Ids : WorkerStep(w)
  <2>1. PICK w \in Ids : WorkerStep(w)
    BY <1>9
  <2>2. (\E early \in BOOLEAN : HeaderRead(w, early)) \/ Decoded(w, FALSE)
    BY <1>1, <2>1, SoundWorkerStep
  <2>3. CASE \E early \in BOOLEAN : HeaderRead(w, early)
    <3>1. PICK early \in BOOLEAN : HeaderRead(w, early)
      BY <2>3
    <3> QED
      BY <1>1, <3>1, HeaderReadKeeps
  <2>4. CASE Decoded(w, FALSE)
    BY <1>1, <2>4, DecodedKeeps
  <2> QED
    BY <2>2, <2>3, <2>4
<1> QED
  BY <1>2, <1>3, <1>4, <1>5, <1>6, <1>7, <1>8, <1>9 DEF Next, ControlStep

\* Without failures the free threads and the application's references are
\* counted exactly, for any number of workers and any size of the cache.
THEOREM AlwaysAccounted ==
  ASSUME Sound
  PROVE  Spec => []OutputAccounted
<1>1. CleanInv /\ [Next]_vars => CleanInv'
  BY CleanStep
<1>2. CleanInv => OutputAccounted
  BY DEF CleanInv, OutputAccounted
<1> QED
  BY CleanInit, <1>1, <1>2, PTL DEF Spec

\* What OutputInOrder says of a step, and FlushDrains.
NextInOrder ==
  image' # image =>
    /\ image' \in shown /\ image' > image
    /\ \A f \in shown : ~(image < f /\ f < image')

Drained ==
  at = "get" /\ at' = "ready" /\ image' = image /\ ctl.flushed =>
    /\ \A w \in Ids : ~workers'[w].received_frame
    /\ \A f \in shown : f <= image

LEMMA OutputStep ==
  ASSUME CleanInv, OutputFrame
  PROVE  NextInOrder /\ Drained
<1> DEFINE w == ctl.next_output
           g == workers[w].frame
           raw == HasRawFrame(workers[w])
<1>1. /\ TypeOK /\ RingInv /\ CacheInv /\ ShownInv /\ w \in Ids
      /\ shown \subseteq Frames /\ image \in Int
  <2>1. TypeOK
    BY DEF CleanInv, BaseInv
  <2>2. shown \subseteq Frames /\ image \in Int
    BY <2>1 DEF TypeOK, Frames, NoFrame
  <2> QED
    BY <2>1, <2>2, ControlsAre DEF CleanInv
<1>2. /\ Taken \in Int /\ ctl.submitted \in Int /\ Held \in Int
      /\ Taken = ctl.submitted - Held /\ \A v \in Ids : Age(v) \in 1 .. NumWorkers
      /\ NumWorkers \in Int
  BY <1>1, RingIs
<1>3. /\ raw => at' = "ready" /\ image' = IF ctl'.need_resync THEN image ELSE g
      /\ ~raw => /\ image' = image
                 /\ at' = IF ctl'.next_output = ctl.next_submit THEN "ready" ELSE "get"
      /\ at = "get"
  BY OutputFrameIs DEF CleanInv
<1>4. ctl.cache = <<>> /\ DOMAIN ctl.cache = {}
  BY <1>1, <1>3 DEF RingInv
<1>5. \A f \in shown : f <= image \/ \E v \in Ids : Waits(v, f)
  BY <1>1, <1>4 DEF ShownInv
<1>6. ASSUME NEW v \in Ids, NEW f \in Frames, Waits(v, f)
      PROVE  f > Taken
  <2>1. workers[v].received_frame /\ workers[v].frame = f
    BY <1>6 DEF Waits
  <2>2. Age(v) <= Held /\ f = ctl.submitted + 1 - Age(v) /\ Age(v) \in Int
    BY <1>1, <1>2, <2>1 DEF RingInv
  <2> QED
    BY <1>2, <2>2
<1>7. CASE ~workers[w].received_frame
  <2>1. WorkerInv(workers[w])
    BY <1>1 DEF CleanInv, WorkersInv
  <2>2. ~raw /\ Held = 0
    <3>1. ~raw
      BY <1>7, <2>1 DEF WorkerInv, HasRawFrame
    <3>2. ~(Held > 0)
      BY <1>1, <1>2, <1>7 DEF RingInv
    <3>3. Held >= 0
      BY <1>1, RingIs
    <3> QED
      BY <1>2, <3>1, <3>2, <3>3
  <2>3. \A v \in Ids : ~workers[v].received_frame
    BY <1>1, <1>2, <2>2 DEF RingInv
  <2>4. \A v \in Ids : ~workers'[v].received_frame
    <3>1. Others(w) /\ workers'[w].received_frame = FALSE
      BY OutputFrameIs DEF CleanInv, Released
    <3> QED
      BY <2>3, <3>1 DEF Others
  <2>5. \A f \in shown : f <= image
    BY <1>5, <2>3 DEF Waits
  <2> QED
    BY <1>3, <2>2, <2>4, <2>5 DEF NextInOrder, Drained
<1>8. CASE workers[w].received_frame
  <2>1. Take
    BY <1>8, OutputTakes
  <2>2. /\ g = Taken + 1 /\ ~ctl'.need_resync
        /\ ctl'.next_output = ctl.next_submit <=> Held = 1
    BY <2>1, TakeRing, TakeKeeps
  <2>3. \A f \in Frames : Waits(w, f) <=> raw /\ f = g
    BY <2>1, TakeWaiting
  <2>4. image <= Taken
    BY <1>1 DEF CacheInv
  <2>5. CASE raw
    <3>1. image' = g /\ image' > image
      BY <1>1, <1>2, <1>3, <2>2, <2>4, <2>5
    <3>2. g \in shown
      <4>1. g \in Frames
        BY <1>1, <2>5, RawFrameIs DEF CleanInv
      <4> QED
        BY <1>1, <2>3, <2>5, <4>1 DEF ShownInv
    <3>3. ASSUME NEW f \in shown, image < f PROVE ~(f < image')
      <4>1. PICK v \in Ids : Waits(v, f)
        BY <1>1, <1>5, <3>3 DEF Frames
      <4>2. f > Taken /\ f \in Int
        BY <1>1, <1>6, <4>1 DEF Frames
      <4> QED
        BY <1>2, <2>2, <3>1, <4>2
    <3>4. image' # image
      BY <1>1, <1>2, <3>1, <2>2
    <3> QED
      BY <3>1, <3>2, <3>3, <3>4 DEF NextInOrder, Drained
  <2>6. CASE ~raw
    <3>1. NextInOrder
      BY <1>3, <2>6 DEF NextInOrder
    <3>2. ASSUME at' = "ready"
          PROVE  /\ \A v \in Ids : ~workers'[v].received_frame
                 /\ \A f \in shown : f <= image
      <4>1. Held = 1
        BY <1>3, <2>2, <2>6, <3>2
      <4>2. \A v \in Ids : workers[v].received_frame => v = w
        <5>1. Age(w) = 1
          BY <1>1, <1>2, <1>8, <4>1 DEF RingInv
        <5>2. ASSUME NEW v \in Ids, workers[v].received_frame PROVE v = w
          <6>1. Age(v) = 1
            BY <1>1, <1>2, <4>1, <5>2 DEF RingInv
          <6> QED
            BY <1>1, <5>1, <6>1, RingIs, AgeOfIs DEF Age
        <5> QED
          BY <5>2
      <4>3. Others(w) /\ workers'[w].received_frame = FALSE
        BY OutputFrameIs DEF CleanInv, Released
      <4>4. \A v \in Ids : ~workers'[v].received_frame
        BY <4>2, <4>3 DEF Others
      <4>5. \A v \in Ids, f \in Frames : ~Waits(v, f)
        BY <2>3, <2>6, <4>2 DEF Waits
      <4> QED
        BY <1>1, <1>5, <4>4, <4>5
    <3> QED
      BY <3>1, <3>2 DEF Drained
  <2> QED
    BY <2>5, <2>6
<1> QED
  BY <1>7, <1>8

LEMMA OrderStep ==
  ASSUME Sound, CleanInv, [Next]_vars
  PROVE  NextInOrder /\ Drained
<1>1. BaseInv /\ TypeOK /\ WorkersInv
  BY DEF CleanInv, BaseInv
<1>2. CASE (Call /\ ~GetCachedFrame) \/ DecodeFails \/ UNCHANGED vars
  BY <1>1, <1>2, QuietIs DEF Quiet, NextInOrder, Drained
<1>3. CASE GetCachedFrame
  <2> DEFINE c == ctl.cache
  <2>1. /\ c # <<>> /\ (~ctl.need_resync => image' = Head(c))
        /\ at = "ready" /\ c \in Seq(Frames)
    BY <1>1, <1>3, GetCachedFrameIs, ControlsAre
  <2>2. image' = Head(c)
    BY <2>1 DEF CleanInv, FirstInv
  <2>3. /\ Len(c) \in Nat \ {0} /\ DOMAIN c = 1 .. Len(c) /\ Head(c) = c[1]
        /\ 1 \in DOMAIN c /\ \A i \in DOMAIN c : c[i] \in Frames
    <3> HIDE DEF c
    <3> QED
      BY <2>1
  <2>4. image' \in shown /\ image' > image /\ image' <= Taken /\ image' \in Int
    <3>1. image \in Int /\ c[1] \in Int
      BY <1>1, <2>3 DEF TypeOK, Frames, NoFrame
    <3> QED
      BY <2>2, <2>3, <3>1 DEF CleanInv, CacheInv
  <2>5. ASSUME NEW f \in shown, image < f PROVE ~(f < image')
    <3>1. f \in Frames /\ f \in Int /\ image \in Int
      BY <1>1 DEF TypeOK, Frames, NoFrame
    <3>2. CASE \E i \in DOMAIN c : c[i] = f
      <4>1. PICK i \in 1 .. Len(c) : c[i] = f
        BY <2>3, <3>2
      <4>2. i = 1 \/ 1 < i
        BY <2>3
      <4>3. 1 < i => c[1] < c[i]
        BY <2>3 DEF CleanInv, CacheInv
      <4>4. c[1] \in Int
        BY <2>2, <2>3, <2>4
      <4> QED
        BY <2>2, <2>3, <3>1, <4>1, <4>2, <4>3, <4>4
    <3>3. CASE \E v \in Ids : Waits(v, f)
      <4>1. PICK v \in Ids : Waits(v, f)
        BY <3>3
      <4>2. RingInv /\ workers[v].received_frame /\ workers[v].frame = f
        BY <4>1 DEF CleanInv, Waits
      <4>3. Age(v) <= Held /\ f = ctl.submitted + 1 - Age(v)
        BY <4>2 DEF RingInv
      <4>4. /\ Age(v) \in Int /\ Held \in Int /\ ctl.submitted \in Int
            /\ Taken = ctl.submitted - Held
        BY <1>1, <4>2, RingIs
      <4> QED
        BY <2>4, <4>3, <4>4
    <3> QED
      BY <2>5, <3>1, <3>2, <3>3 DEF CleanInv, ShownInv
  <2> QED
    BY <2>1, <2>4, <2>5 DEF NextInOrder, Drained
<1>4. CASE OutputFrame
  BY <1>4, OutputStep
<1>5. CASE WaitWorkerAndCacheFrame
  BY <1>5, WaitIs DEF CleanInv, NextInOrder, Drained
<1>6. CASE DecodeOne
  BY <1>6, DecodeOneIs DEF CleanInv, NextInOrder, Drained
<1>7. CASE ScratchFails
  BY <1>7 DEF ScratchFails, Sound
<1>8. CASE OutputFailed
  <2>1. ctl.next_output \in Ids
    BY <1>1, ControlsAre
  <2> QED
    BY <1>1, <1>8, <2>1, OutputFailedIs DEF WorkersInv, WorkerInv
<1>9. CASE \E w \in Ids : WorkerStep(w)
  BY <1>1, <1>9, WorkerStepIs DEF NextInOrder, Drained
<1> QED
  BY <1>2, <1>3, <1>4, <1>5, <1>6, <1>7, <1>8, <1>9 DEF Next, ControlStep

\* Without failures frames come out in the order they went in, and none that
\* is to be shown is left out.
THEOREM FramesComeInOrder ==
  ASSUME Sound
  PROVE  Spec => OutputInOrder
<1>1. CleanInv /\ [Next]_vars => CleanInv'
  BY CleanStep
<1>2. CleanInv /\ [Next]_vars => [NextInOrder]_vars
  BY OrderStep
<1>3. Spec => [][NextInOrder]_vars
  BY CleanInit, <1>1, <1>2, PTL DEF Spec
<1> QED
  BY <1>3 DEF OutputInOrder, NextInOrder

\* Without failures a call that returns nothing after a flush leaves nothing.
THEOREM FlushLeavesNothing ==
  ASSUME Sound
  PROVE  Spec => FlushDrains
<1>1. CleanInv /\ [Next]_vars => CleanInv'
  BY CleanStep
<1>2. CleanInv /\ [Next]_vars => [Drained]_vars
  BY OrderStep
<1>3. Spec => [][Drained]_vars
  BY CleanInit, <1>1, <1>2, PTL DEF Spec
<1> QED
  BY <1>3 DEF FlushDrains, Drained

\* What FramesNotOverwritten says of a step.
NothingOverwritten ==
  \A w \in Ids : workers'[w].frame # workers[w].frame => ~HasRawFrame(workers[w])

LEMMA OverwriteStep ==
  ASSUME Sound, CleanInv, [Next]_vars
  PROVE  NothingOverwritten
<1>1. /\ BaseInv /\ TypeOK /\ WorkersInv
      /\ ctl.next_output \in Ids /\ ctl.next_submit \in Ids
  BY ControlsAre DEF CleanInv, BaseInv
<1>2. CASE Call \/ DecodeFails \/ UNCHANGED vars
  BY <1>1, <1>2, CallIs DEF DecodeFails, vars, NothingOverwritten
<1>3. CASE WaitWorkerAndCacheFrame
  BY <1>1, <1>3, WaitIs DEF Released, Others, NothingOverwritten
<1>4. CASE DecodeOne
  <2>1. WorkerInv(workers[ctl.next_submit]) /\ ~workers[ctl.next_submit].received_frame
    BY <1>1, <1>4, LaunchRing DEF WorkersInv
  <2>2. ~HasRawFrame(workers[ctl.next_submit])
    BY <2>1 DEF WorkerInv, HasRawFrame
  <2>3. Others(ctl.next_submit)
    BY <1>1, <1>4, DecodeOneIs
  <2> QED
    BY <2>2, <2>3 DEF Others, NothingOverwritten
<1>5. CASE OutputFrame
  BY <1>1, <1>5, OutputFrameIs DEF Released, Others, NothingOverwritten
<1>6. CASE ScratchFails
  BY <1>6 DEF ScratchFails, Sound
<1>7. CASE OutputFailed
  BY <1>1, <1>7, OutputFailedIs DEF WorkersInv, WorkerInv
<1>8. CASE \E w \in Ids : WorkerStep(w)
  BY <1>1, <1>8, WorkerStepIs DEF Others, SameFrame, NothingOverwritten
<1> QED
  BY <1>2, <1>3, <1>4, <1>5, <1>6, <1>7, <1>8 DEF Next, ControlStep

\* Without failures no frame is launched over one that was not taken.
THEOREM FramesAreNotOverwritten ==
  ASSUME Sound
  PROVE  Spec => FramesNotOverwritten
<1>1. CleanInv /\ [Next]_vars => CleanInv'
  BY CleanStep
<1>2. CleanInv /\ [Next]_vars => [NothingOverwritten]_vars
  BY OverwriteStep
<1>3. Spec => [][NothingOverwritten]_vars
  BY CleanInit, <1>1, <1>2, PTL DEF Spec
<1> QED
  BY <1>3 DEF FramesNotOverwritten, NothingOverwritten
=============================================================================
