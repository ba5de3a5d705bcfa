--------------------------- MODULE SerialDecoder ---------------------------
(***************************************************************************)
(* The VP9 decoder without frame-parallel mode: one VP9Decoder that the    *)
(* application's thread runs through decoder_decode() and                  *)
(* decoder_get_frame() (vp9/vp9_dx_iface.c), and the life of its frame     *)
(* buffers (vp9/decoder/vp9_decoder.c and vp9_decodeframe.c).  A frame is  *)
(* decoded in phases, each of which the bitstream can make fail: that is   *)
(* the longjmp out of vp9_decode_frame().                                  *)
(*                                                                         *)
(* A frame is what its header says of references: an intra frame that      *)
(* refreshes some slots, an inter frame that also reads some, or an order  *)
(* to show a slot again.  Pixels, sizes and entropy contexts are left out. *)
(***************************************************************************)
EXTENDS FrameBufferPool, TLC

CONSTANT FailPhases  \* where a frame of this run's streams may be damaged

ASSUME FailPhasesAssumption ==
  FailPhases \subseteq {"header", "allocated", "mapped"}

VARIABLES
  pool,                \* BufferPool
  phase,               \* how far vp9_receive_compressed_data() is
  ref_frame_map,       \* VP9_COMMON
  next_ref_frame_map,
  new_fb_idx,
  frame_refs,          \* the set of buffers the frame's references name, or -1
  refresh_frame_flags, \* VP9Decoder, as the set of refreshed slots
  hold_ref_buf,
  show_existing_frame,
  show_frame,
  need_resync,         \* VP9Decoder.need_resync
  ready_for_new_data,
  had_error,           \* the frame worker's had_error
  si_h,                \* vpx_codec_alg_priv.si.h # 0: a first frame was seen
  ctx_need_resync,     \* vpx_codec_alg_priv.need_resync
  intra,               \* frame_type = KEY_FRAME or intra_only of the last frame
  image,               \* the buffer the application was last shown, or none
  damage               \* observes the phases in which frames have failed

decoderVars == <<ref_frame_map, next_ref_frame_map, new_fb_idx, frame_refs,
                 refresh_frame_flags, hold_ref_buf, show_existing_frame,
                 show_frame, need_resync, intra>>
apiVars == <<ready_for_new_data, had_error, si_h, ctx_need_resync, image>>
vars == <<pool, phase, decoderVars, apiVars, damage>>

Phases == {"ready", "header", "allocated", "mapped", "decoded"}

TypeOK ==
  /\ pool \in Pools
  /\ phase \in Phases
  /\ ref_frame_map \in [Slots -> BufIdx]
  /\ next_ref_frame_map \in [Slots -> BufIdx]
  /\ new_fb_idx \in BufIdx
  /\ frame_refs \subseteq BufIdx
  /\ refresh_frame_flags \subseteq Slots
  /\ {hold_ref_buf, show_existing_frame, show_frame, need_resync,
      ready_for_new_data, had_error, si_h, ctx_need_resync, intra}
       \subseteq BOOLEAN
  /\ image \in BufIdx
  /\ damage \subseteq Phases

\* vp9_decoder_create(), init_decoder() and init_buffer_callbacks().
Init ==
  /\ pool = EmptyPool
  /\ phase = "ready"
  /\ ref_frame_map = NoReferences
  /\ next_ref_frame_map = NoReferences
  /\ new_fb_idx = INVALID_IDX
  /\ frame_refs = {}
  /\ refresh_frame_flags = {}
  /\ hold_ref_buf = FALSE
  /\ show_existing_frame = FALSE
  /\ show_frame = FALSE
  /\ need_resync = TRUE
  /\ ready_for_new_data = TRUE
  /\ had_error = FALSE
  /\ si_h = FALSE
  /\ ctx_need_resync = TRUE
  /\ intra = TRUE
  /\ image = INVALID_IDX
  /\ damage = {}

-----------------------------------------------------------------------------
(* vp9_receive_compressed_data() *)

\* Mutants of WithoutLastFrame: the memory is never given back, or always.
KeepLastFrame(p) == p

ReleaseLastFrame(p) ==
  IF new_fb_idx # INVALID_IDX THEN ReleaseFbCb(p, new_fb_idx) ELSE p

\* The memory of a frame that no slot references stays until the next frame.
WithoutLastFrame(p) ==
  IF new_fb_idx # INVALID_IDX /\ p.ref_count[new_fb_idx] = 0
    THEN ReleaseFbCb(p, new_fb_idx) ELSE p

\* decode_one() and the start of vp9_receive_compressed_data(); the image the
\* application was given is its own until it calls decoder_decode() again.
DecodeOne ==
  LET p == WithoutLastFrame(pool)
  IN /\ phase = "ready"
     /\ FreeBufs(p) # {}
     /\ pool' = GetFreeFb(p)
     /\ new_fb_idx' = FreeFb(p)
     /\ phase' = "header"
     /\ ready_for_new_data' = FALSE
     /\ hold_ref_buf' = FALSE
     /\ had_error' = FALSE
     /\ image' = INVALID_IDX
     /\ UNCHANGED <<ref_frame_map, next_ref_frame_map, frame_refs,
                    refresh_frame_flags, show_existing_frame, show_frame,
                    need_resync, intra, si_h, ctx_need_resync>>

\* The longjmp handler and the end of frame_worker_hook().
Fail(p) ==
  LET freed == IF hold_ref_buf
                 THEN DropHolds(p, ref_frame_map, refresh_frame_flags) ELSE p
  IN /\ pool' = DecreaseRefCount(freed, new_fb_idx, 1)
     /\ hold_ref_buf' = FALSE
     /\ need_resync' = TRUE
     /\ had_error' = TRUE
     /\ ready_for_new_data' = TRUE
     /\ phase' = "ready"
     /\ UNCHANGED <<ref_frame_map, next_ref_frame_map, new_fb_idx,
                    show_frame, ctx_need_resync, image>>

\* A frame may name a slot that holds none, in a stream that has lost frames.
\* The code does not look: the sizes and the format that it then compares are
\* whatever lies before frame_bufs[], and it notices that the reference is of no
\* use while it reads the header, while it decodes, or not at all.
NamesMissing ==
  \/ /\ phase = "header" /\ FailPhases # {} /\ ~need_resync
     /\ \E s \in Slots : ref_frame_map[s] = INVALID_IDX
  \/ phase = "mapped" /\ INVALID_IDX \in frame_refs

\* A damaged frame, at the phase where the damage is noticed, or a get callback
\* that has no memory to give.
Damaged ==
  /\ \/ phase \in FailPhases
     \/ NamesMissing
     \/ phase = "header" /\ FreeMemory(pool) = {}
  /\ Fail(pool)
  /\ si_h' = TRUE
  /\ UNCHANGED <<frame_refs, refresh_frame_flags, show_existing_frame, intra>>

-----------------------------------------------------------------------------
(* read_uncompressed_header() *)

\* show_existing_frame of a slot that holds a frame.
ShowExisting(s) ==
  LET shown == ref_frame_map[s]
  IN /\ phase = "header"
     /\ si_h
     /\ shown # INVALID_IDX
     /\ pool.ref_count[shown] > 0
     /\ pool' = RefCntFb(pool, new_fb_idx, shown)
     /\ new_fb_idx' = shown
     /\ show_existing_frame' = TRUE
     /\ show_frame' = TRUE
     /\ refresh_frame_flags' = {}
     /\ phase' = "decoded"
     /\ UNCHANGED <<ref_frame_map, next_ref_frame_map, frame_refs,
                    hold_ref_buf, need_resync, intra, apiVars>>

\* show_existing_frame of a slot that holds none.
ShowMissing(s) ==
  /\ phase = "header"
  /\ "header" \in FailPhases
  /\ si_h
  /\ ref_frame_map[s] # INVALID_IDX => pool.ref_count[ref_frame_map[s]] < 1
  /\ show_existing_frame' = TRUE
  /\ Fail(pool)
  /\ UNCHANGED <<frame_refs, refresh_frame_flags, intra, si_h>>

\* setup_frame_size(): the new buffer gets its memory.
Allocate ==
  /\ \E mem \in FreeMemory(pool) : pool' = GetFrameBuffer(pool, new_fb_idx, mem)
  /\ phase' = "allocated"

\* A key frame refreshes every slot, an intra-only frame (never shown) some.
\* Only such a frame is let through decode_one() first.
IntraFrame(refresh, show) ==
  /\ phase = "header"
  /\ Allocate
  /\ show => refresh = Slots
  /\ refresh_frame_flags' = refresh
  /\ frame_refs' = {}
  /\ ref_frame_map' = IF need_resync THEN NoReferences ELSE ref_frame_map
  /\ need_resync' = FALSE
  /\ intra' = TRUE
  /\ show_existing_frame' = FALSE
  /\ show_frame' = show
  /\ si_h' = TRUE
  /\ UNCHANGED <<next_ref_frame_map, new_fb_idx, hold_ref_buf,
                 ready_for_new_data, had_error, ctx_need_resync, image>>

\* An inter frame; of an undamaged stream it names slots that hold frames.
InterFrame(refs, refresh, show) ==
  /\ phase = "header"
  /\ ~need_resync
  /\ FailPhases = {} => \A s \in refs : ref_frame_map[s] # INVALID_IDX
  /\ Allocate
  /\ refresh_frame_flags' = refresh
  /\ frame_refs' = {ref_frame_map[s] : s \in refs}
  /\ intra' = FALSE
  /\ show_existing_frame' = FALSE
  /\ show_frame' = show
  /\ UNCHANGED <<ref_frame_map, next_ref_frame_map, new_fb_idx, hold_ref_buf,
                 need_resync, apiVars>>

\* An inter frame while need_resync is set: "Keyframe / intra-only frame
\* required to reset decoder state".
InterFrameRefused ==
  /\ phase = "header"
  /\ "header" \in FailPhases
  /\ si_h
  /\ need_resync
  /\ intra' = FALSE
  /\ show_existing_frame' = FALSE
  /\ Fail(pool)
  /\ UNCHANGED <<frame_refs, refresh_frame_flags, si_h>>

\* "Generate next_ref_frame_map."
GenerateRefMap ==
  /\ phase = "allocated"
  /\ next_ref_frame_map' = NextRefFrameMap(ref_frame_map, refresh_frame_flags,
                                           new_fb_idx)
  /\ pool' = TakeHolds(pool, ref_frame_map, refresh_frame_flags, new_fb_idx)
  /\ hold_ref_buf' = TRUE
  /\ phase' = "mapped"
  /\ UNCHANGED <<ref_frame_map, new_fb_idx, frame_refs, refresh_frame_flags,
                 show_existing_frame, show_frame, need_resync, intra, apiVars>>

DecodeTiles ==
  /\ phase = "mapped"
  /\ phase' = "decoded"
  /\ UNCHANGED <<pool, decoderVars, apiVars>>

-----------------------------------------------------------------------------

\* check_resync(), at the end of decode_one().
CheckResync ==
  ctx_need_resync' = (ctx_need_resync /\ ~(~need_resync /\ intra))

\* Mutant of SwapFrameBuffers: the new buffer's memory goes with the decoder's
\* reference to it.
SwapAndRelease ==
  /\ phase = "decoded"
  /\ LET p == IF show_existing_frame THEN pool
              ELSE DropHolds(pool, ref_frame_map, refresh_frame_flags)
     IN pool' = DecreaseRefCount(p, new_fb_idx, 1)
  /\ ref_frame_map' = IF show_existing_frame THEN ref_frame_map
                      ELSE next_ref_frame_map
  /\ hold_ref_buf' = FALSE
  /\ frame_refs' = {}
  /\ phase' = "ready"
  /\ CheckResync
  /\ UNCHANGED <<next_ref_frame_map, new_fb_idx, refresh_frame_flags,
                 show_existing_frame, show_frame, need_resync, intra,
                 ready_for_new_data, had_error, si_h, image>>

\* swap_frame_buffers() and the return to the application.  The decoder's own
\* reference to the new buffer goes without handing its memory back.
SwapFrameBuffers ==
  /\ phase = "decoded"
  /\ LET p == IF show_existing_frame THEN pool
              ELSE DropHolds(pool, ref_frame_map, refresh_frame_flags)
     IN pool' = [p EXCEPT !.ref_count[new_fb_idx] = @ - 1]
  /\ ref_frame_map' = IF show_existing_frame THEN ref_frame_map
                      ELSE next_ref_frame_map
  /\ hold_ref_buf' = FALSE
  /\ frame_refs' = {}
  /\ phase' = "ready"
  /\ CheckResync
  /\ UNCHANGED <<next_ref_frame_map, new_fb_idx, refresh_frame_flags,
                 show_existing_frame, show_frame, need_resync, intra,
                 ready_for_new_data, had_error, si_h, image>>

\* decoder_get_frame(): sync() of the worker says whether the last frame
\* failed; vp9_get_raw_frame() gives a frame out once.
GetFrame ==
  /\ phase = "ready"
  /\ si_h
  /\ IF had_error
       THEN /\ ctx_need_resync' = TRUE
            /\ UNCHANGED <<ready_for_new_data, image>>
       ELSE /\ ready_for_new_data' = TRUE
            /\ CheckResync
            /\ image' = IF ~ready_for_new_data /\ show_frame /\ ~ctx_need_resync'
                          THEN new_fb_idx ELSE image
  /\ UNCHANGED <<pool, phase, decoderVars, had_error, si_h>>

Step ==
  \/ DecodeOne
  \/ Damaged
  \/ \E s \in Slots : ShowExisting(s) \/ ShowMissing(s)
  \/ \E refresh \in SUBSET Slots, show \in BOOLEAN :
       \/ IntraFrame(refresh, show)
       \/ \E refs \in SUBSET Slots \ {{}} : InterFrame(refs, refresh, show)
  \/ InterFrameRefused
  \/ GenerateRefMap
  \/ DecodeTiles
  \/ SwapFrameBuffers
  \/ GetFrame

Next ==
  /\ Step
  /\ damage' = IF had_error' /\ phase # phase' THEN damage \cup {phase} ELSE damage

Spec == Init /\ [][Next]_vars

-----------------------------------------------------------------------------
(* Properties *)

\* The assertion of get_free_fb(): there is a slot for every frame.
FrameBufferAvailable ==
  phase = "ready" => FreeBufs(WithoutLastFrame(pool)) # {}

\* And memory: an application that offers one buffer more than there are
\* references is never asked for another, because the last frame's memory is
\* given back before the next frame asks for its own.
MemoryAvailable == phase = "header" => FreeMemory(pool) # {}

\* The references that the decoder's state names: the map's, the holds of the
\* frame in progress, and the frame's own on the buffer it decodes into.
Owed(b) ==
  References(ref_frame_map, b)
  + (IF hold_ref_buf
       THEN References(ref_frame_map, b)
            + (IF b = new_fb_idx THEN Cardinality(refresh_frame_flags) ELSE 0)
       ELSE 0)
  + (IF phase # "ready" /\ b = new_fb_idx THEN 1 ELSE 0)

\* No reference count is ever off by one, at any point of any sequence of
\* undamaged frames: a count too high leaks a slot, one too low frees a live
\* picture.
RefCountsExact == damage = {} => \A b \in Bufs : pool.ref_count[b] = Owed(b)

\* The buffers that must have memory: those in use, and the last frame until
\* the next one, but not the new one of a frame whose header is not read.
Owners ==
  LET headerOnly == phase = "header" \/ (phase = "ready" /\ had_error)
  IN (Live(pool) \cup {new_fb_idx})
       \ ({INVALID_IDX} \cup (IF headerOnly THEN {new_fb_idx} ELSE {}))

\* Memory is given back exactly when its last user is gone: no leak, and no
\* two pictures in the same memory.  That is so after damaged frames, too, if
\* the damage was noticed before the reference map was generated and after the
\* frame had its memory.
MemoryExact == damage \subseteq {"allocated"} =>
  /\ pool.in_use = {pool.priv[b] : b \in Owners}
  /\ \A b, c \in Owners : pool.priv[b] = pool.priv[c] => b = c

\* A frame is decoded from pictures that are still there and not over them, as
\* far as the slots that it names hold pictures (ReferencesPresent).
ReferencesIntact ==
  phase = "mapped" =>
    \A b \in frame_refs \ {INVALID_IDX} :
      /\ pool.ref_count[b] > 0
      /\ pool.priv[b] \in pool.in_use
      /\ pool.priv[b] # pool.priv[new_fb_idx]

\* A frame is decoded only when every slot that it names holds a picture, as one
\* that is to be shown again must: "Buffer %d does not contain a decoded frame".
ReferencesPresent == phase = "mapped" => INVALID_IDX \notin frame_refs

\* The image the application was given keeps its memory until it decodes again.
ImageIntact ==
  image # INVALID_IDX /\ damage \subseteq {"allocated"} =>
    /\ pool.priv[image] \in pool.in_use
    /\ \A b \in Live(pool) \ {image} : pool.priv[b] # pool.priv[image]

\* "This callback is invoked by the decoder when the frame buffer is not
\* referenced by any other buffers": a buffer that the map names, or that is
\* being decoded into memory, has not had its memory handed back.
ReleasedUnreferenced ==
  \A b \in Owners : pool.ref_count[b] > 0 => pool.priv[b] \in pool.in_use

\* The release callback is only given memory that is in use.
ReleasedOnce == ~pool.returnedTwice

MemorySymmetry == Permutations(Memory)
=============================================================================
