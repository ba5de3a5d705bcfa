----------------------------- MODULE Vp9Encoder -----------------------------
(***************************************************************************)
(* The VP9 encoder from the image that the application sends to the packet *)
(* that it gets, in one pass at a variable bitrate: encoder_encode()       *)
(* (vp9/vp9_cx_iface.c), the lookahead, vp9_get_compressed_data(), the     *)
(* rate control's choice of key, golden and alternate reference frames,    *)
(* and the references (vp9/encoder/vp9_encoder.c, vp9_ratectrl.c,          *)
(* vp9_bitstream.c), with the references of a decoder of the packets.      *)
(*                                                                         *)
(* Image n is encoded to picture n, and to picture -n when it is encoded   *)
(* ahead of its turn, as the hidden alternate reference frame (ARF).       *)
(***************************************************************************)
EXTENDS Vp9Lookahead, Sequences

CONSTANTS
  DEFAULT_GF_INTERVAL,  \* the longest distance of two golden frames
  KeyFreq,              \* oxcf.key_freq
  AutoArf,              \* oxcf.enable_auto_arf
  FRAME_BUFFERS,        \* buffers of the pool
  ForcesKeyFrames,      \* the application sends VPX_EFLAG_FORCE_KF,
  ForcedUpdates,        \* and flags that update these sets of references
  CxDataSize,           \* ctx->cx_data_sz, the size of the output buffer
  FrameSizes            \* sizes that an encoded frame may have

Refs == {"last", "golden", "alt"}

ASSUME EncoderAssumptions ==
  /\ DEFAULT_GF_INTERVAL \in Nat \ {0} /\ KeyFreq \in Nat
  /\ FRAME_BUFFERS \in Nat /\ FRAME_BUFFERS >= 4
  /\ AutoArf \in BOOLEAN /\ ForcesKeyFrames \in BOOLEAN
  /\ ForcedUpdates \subseteq SUBSET Refs

\* The buffer holds two raw frames, and there are frames that it has room for
\* whenever the encoder is called.
ASSUME OutputAssumptions ==
  /\ CxDataSize \in Nat /\ FrameSizes \subseteq Nat \ {0}
  /\ \E size \in FrameSizes : size <= CxDataSize \div 2

VARIABLES
  call,      \* the call of encoder_encode() in progress: "none", with an
             \* image in "frame", without one in "flush"
  cx_data_sz,          \* what the call has left of the output buffer,
  pending_cx_data_sz,  \* and the hidden frames that wait have taken of it
  pkt_list,            \* the call has a packet for the application
  received,  \* images the application has sent
  started,   \* current_video_frame > 0
  rc,        \* frames_to_key, frames_till_gf_update_due and
             \* source_alt_ref_pending
  alt_ref_source,  \* the entry of the lookahead that was encoded as the ARF
  ext,       \* the update that vp9_apply_encoding_flags() left pending, if any
  refs,      \* the slots of the references, ref_frame_map, the pool's
             \* ref_count and pictures, and new_fb_idx
  pendingFrames,  \* pending_cx_data: hidden frames that wait for a shown one
  decoded    \* ref_frame_map of the decoder, as pictures

output == <<call, cx_data_sz, pending_cx_data_sz, pkt_list>>
encoder == <<received, started, rc, alt_ref_source, ext, refs, pendingFrames,
             decoded>>
vars == <<lookahead, output, encoder>>

RefSlots == 0 .. 2
Bufs == 0 .. FRAME_BUFFERS - 1
Pictures == -MaxImages .. MaxImages

Least(S) == CHOOSE x \in S : \A y \in S : x <= y

TypeOK ==
  /\ LookaheadType
  /\ call \in {"none", "frame", "flush"}
  /\ cx_data_sz \in 0 .. CxDataSize
  /\ pending_cx_data_sz \in 0 .. CxDataSize
  /\ pkt_list \in BOOLEAN
  /\ received \in 0 .. MaxImages
  /\ started \in BOOLEAN
  /\ rc \in [frames_to_key : -MaxImages .. KeyFreq,
             frames_till_gf_update_due : Int,
             source_alt_ref_pending : BOOLEAN]
  /\ alt_ref_source \in Indexes \cup {NULL}
  /\ ext \in {{}} \cup {{s} : s \in SUBSET Refs}
  /\ refs \in [idx : [Refs -> RefSlots],
               map : [RefSlots -> Bufs \cup {NULL}],
               ref_count : [Bufs -> Nat],
               pic : [Bufs -> Pictures],
               new : Bufs \cup {NULL}]
  /\ decoded \in [RefSlots -> Pictures]

Init ==
  /\ LookaheadInit
  /\ call = "none"
  /\ cx_data_sz = 0 /\ pending_cx_data_sz = 0
  /\ pkt_list = FALSE
  /\ received = 0
  /\ started = FALSE
  /\ rc = [frames_to_key |-> 0, frames_till_gf_update_due |-> 0,
           source_alt_ref_pending |-> FALSE]
  /\ alt_ref_source = NULL
  /\ ext = {}
  /\ refs = [idx |-> [last |-> 0, golden |-> 1, alt |-> 2],
             map |-> [s \in RefSlots |-> NULL],
             ref_count |-> [b \in Bufs |-> 0],
             pic |-> [b \in Bufs |-> 0],
             new |-> NULL]
  /\ pendingFrames = <<>>
  /\ decoded = [s \in RefSlots |-> 0]

-----------------------------------------------------------------------------
(* The application *)

\* "cx_data_sz >= ctx->cx_data_sz / 2"
HasRoom(size) == size >= CxDataSize \div 2

\* The hidden frames that wait leave too little of the buffer to encode the
\* frame that is to take them along.
Jammed == ~HasRoom(CxDataSize - pending_cx_data_sz)

\* encoder_encode() before its loop: the list of packets is emptied, and the
\* hidden frames that wait move to the start of the buffer.  It returns with
\* "Compressed data buffer too small" when they leave too little of it.
Begin(c) ==
  /\ pkt_list' = FALSE
  /\ IF Jammed THEN call' = "none" /\ cx_data_sz' = 0
     ELSE call' = c /\ cx_data_sz' = CxDataSize - pending_cx_data_sz
  /\ UNCHANGED pending_cx_data_sz

\* cx_data_sz is a local of the call.
End == call' = "none" /\ cx_data_sz' = 0 /\ UNCHANGED <<pending_cx_data_sz, pkt_list>>

Flags == {FALSE} \cup {k \in {TRUE} : ForcesKeyFrames}

\* encoder_encode() with an image, up to its loop.  The update that the flags
\* ask for is kept for the next frame encoded, whichever image that is.  That
\* the lookahead refuses the image is not reported.
SendImage ==
  /\ call = "none"
  /\ received < MaxImages
  /\ \E key \in Flags, upd \in {{}} \cup {{u} : u \in ForcedUpdates} :
       /\ Push([image |-> received + 1, key |-> key])
       /\ ext' = IF upd = {} THEN ext ELSE upd
  /\ received' = received + 1
  /\ Begin("frame")
  /\ UNCHANGED <<started, rc, alt_ref_source, refs, pendingFrames, decoded>>

\* The same when the lookahead cannot store the image.
SendLargeImage ==
  /\ call = "none"
  /\ received < MaxImages
  /\ PushWithoutMemory
  /\ received' = received + 1
  /\ Begin("frame")
  /\ UNCHANGED <<started, rc, alt_ref_source, ext, refs, pendingFrames, decoded>>

\* encoder_encode() without an image, up to its loop.
Flush ==
  /\ call = "none"
  /\ Begin("flush")
  /\ UNCHANGED <<lookahead, encoder>>

-----------------------------------------------------------------------------
(* What is decided about a frame *)

is_altref_enabled == AutoArf /\ Lag > 0

\* get_arf_src_index()
arf_src_index ==
  IF is_altref_enabled /\ rc.source_alt_ref_pending
  THEN rc.frames_till_gf_update_due ELSE 0

\* The entry to encode as an ARF now.
ArfSource == IF arf_src_index = 0 THEN NULL ELSE Peek(arf_src_index)

\* The defaults that vp9_get_compressed_data() sets for a frame of an entry of
\* the lookahead, shown or not; check_src_altref() for one that is shown.
Defaults(entry, show) ==
  [entry |-> entry,
   show |-> show,
   overlay |-> show /\ alt_ref_source # NULL /\ entry = alt_ref_source,
   refresh |-> IF ~show THEN {"alt"}
               ELSE IF entry = alt_ref_source THEN {} ELSE {"last"}]

\* vp9_rc_get_one_pass_vbr_params(): is it a key frame?
IsKey(f) ==
  /\ "alt" \notin f.refresh
  /\ ~started \/ buf[f.entry].key \/ rc.frames_to_key = 0

FramesToKey(key) == IF key THEN KeyFreq ELSE rc.frames_to_key

\* Mutant of Interval: a group may outlast the key frame interval.
IntervalUnconstrained(to_key) == DEFAULT_GF_INTERVAL

\* "frames_till_gf_update_due must be <= frames_to_key"
Interval(to_key) ==
  IF DEFAULT_GF_INTERVAL > to_key THEN to_key ELSE DEFAULT_GF_INTERVAL

\* The references that the frame becomes: set_ext_overrides() replaces what
\* the rate control decided, and a key frame replaces both.
Refreshed(f, key, golden) ==
  IF key THEN Refs
  ELSE IF ext # {} THEN UNION ext
  ELSE f.refresh \cup (IF golden THEN {"golden"} ELSE {})

\* Mutant of StillPending: an ARF that was made is not taken off.
AlwaysPending == rc.source_alt_ref_pending

\* The ARF that was pending is no longer, once it was made or its image was
\* not found in the lookahead.
StillPending == rc.source_alt_ref_pending /\ arf_src_index = 0

\* vp9_rc_get_one_pass_vbr_params() and vp9_rc_postencode_update().
UpdateRateControl(f, key, golden, refresh) ==
  LET due == IF golden THEN Interval(FramesToKey(key))
             ELSE rc.frames_till_gf_update_due
      arf == is_altref_enabled /\ "alt" \in refresh /\ ~key
      counts == ~arf /\ ("golden" \in refresh \/ "alt" \notin refresh)
  IN [frames_to_key |-> FramesToKey(key) - (IF f.show THEN 1 ELSE 0),
      frames_till_gf_update_due |-> IF counts /\ due > 0 THEN due - 1 ELSE due,
      source_alt_ref_pending |-> (golden \/ StillPending) /\ ~arf]

-----------------------------------------------------------------------------
(* The references *)

\* vp9_get_compressed_data() drops the new buffer's own reference.
ReleaseNew(r) ==
  IF r.new = NULL THEN r ELSE [r EXCEPT !.ref_count[r.new] = @ - 1]

\* get_free_fb(), and the picture that will be encoded into the buffer.
GetFreeFb(r, picture) ==
  LET b == Least({c \in Bufs : r.ref_count[c] = 0})
  IN [r EXCEPT !.ref_count[b] = 1, !.pic[b] = picture, !.new = b]

\* ref_cnt_fb(), for each of these slots: it becomes the new buffer.
RefCntFb(r, slots) ==
  [r EXCEPT
     !.map = [s \in RefSlots |-> IF s \in slots THEN r.new ELSE r.map[s]],
     !.ref_count =
       [b \in Bufs |-> r.ref_count[b] - Cardinality({s \in slots : r.map[s] = b})
                       + IF b = r.new THEN Cardinality(slots) ELSE 0]]

\* vp9_preserve_existing_gf(): the golden frame is to become the alternate
\* reference.
PreserveExistingGf(overlay, refresh) == overlay /\ "golden" \in refresh

\* Mutant of RefreshMask: the golden frame goes where golden is.
RefreshMaskUnswapped(overlay, refresh) == {refs.idx[x] : x \in refresh}

\* get_refresh_mask(): the slots that the decoder is told to refresh.
RefreshMask(overlay, refresh) ==
  IF PreserveExistingGf(overlay, refresh)
  THEN {refs.idx[x] : x \in refresh \cap {"last"}} \cup {refs.idx["alt"]}
  ELSE {refs.idx[x] : x \in refresh}

\* vp9_update_reference_frames()
UpdateReferenceFrames(r, key, overlay, refresh) ==
  IF ~key /\ PreserveExistingGf(overlay, refresh)
  THEN [RefCntFb(r, {refs.idx[x] : x \in {"alt"} \cup (refresh \cap {"last"})})
          EXCEPT !.idx["golden"] = refs.idx["alt"],
                 !.idx["alt"] = refs.idx["golden"]]
  ELSE RefCntFb(r, {refs.idx[x] : x \in refresh})

\* What a decoder's references are after these frames: a key frame replaces
\* every one.
Decode(map, frames) ==
  [s \in RefSlots |->
     LET hits == {i \in DOMAIN frames : frames[i].key \/ s \in frames[i].mask}
     IN IF hits = {} THEN map[s]
        ELSE frames[CHOOSE i \in hits : \A j \in hits : j <= i].pic]

-----------------------------------------------------------------------------
(* The encoder *)

\* Mutant of MayEncode: a buffer half full is too full.
MayEncodeBeyondHalf == cx_data_sz > CxDataSize \div 2

\* The loop of encoder_encode() goes on.
MayEncode == HasRoom(cx_data_sz)

\* A frame is written to the output buffer.  One that is shown makes a packet
\* with the hidden frames before it; a hidden one leaves its bytes pending.
Write(show) ==
  \E size \in FrameSizes :
    /\ size <= cx_data_sz
    /\ cx_data_sz' = cx_data_sz - size
    /\ pending_cx_data_sz' = IF show THEN 0 ELSE pending_cx_data_sz + size
    /\ pkt_list' = (show \/ pkt_list)

\* A hidden frame is kept for the packet of the next shown frame.
Emit(frame, show) ==
  IF show
  THEN /\ decoded' = Decode(decoded, Append(pendingFrames, frame))
       /\ pendingFrames' = <<>>
  ELSE /\ pendingFrames' = Append(pendingFrames, frame)
       /\ UNCHANGED decoded

\* The rest of vp9_get_compressed_data(), and what its caller does with the
\* frame.
EncodeFrame(f) ==
  LET key == IsKey(f)
      golden == rc.frames_till_gf_update_due = 0
      refresh == Refreshed(f, key, golden)
      n == buf[f.entry].image
      picture == IF f.show THEN n ELSE -n
      new == GetFreeFb(ReleaseNew(refs), picture)
  IN /\ rc' = UpdateRateControl(f, key, golden, refresh)
     /\ refs' = UpdateReferenceFrames(new, key, f.overlay, refresh)
     /\ Emit([key |-> key, mask |-> RefreshMask(f.overlay, refresh),
              pic |-> picture], f.show)
     /\ Write(f.show)
     /\ ext' = {}

\* An image that waits in the lookahead is encoded ahead of its turn.
EncodeArf ==
  /\ call # "none"
  /\ MayEncode
  /\ ArfSource # NULL
  /\ EncodeFrame(Defaults(ArfSource, FALSE))
  /\ alt_ref_source' = ArfSource
  /\ UNCHANGED <<lookahead, call, received, started>>

\* The next image is taken and encoded.
EncodeImage ==
  /\ call # "none"
  /\ MayEncode
  /\ ArfSource = NULL
  /\ MayPop(call = "flush")
  /\ Pop
  /\ EncodeFrame(Defaults(read_idx, TRUE))
  /\ alt_ref_source' = IF read_idx = alt_ref_source THEN NULL ELSE alt_ref_source
  /\ started' = TRUE
  /\ UNCHANGED <<call, received>>

\* vp9_get_compressed_data() finds nothing to encode: encoder_encode() returns.
Return ==
  /\ call # "none"
  /\ MayEncode
  /\ ArfSource = NULL
  /\ ~MayPop(call = "flush")
  /\ End
  /\ rc' = [rc EXCEPT !.source_alt_ref_pending = StillPending]
  /\ UNCHANGED <<lookahead, received, started, alt_ref_source, ext, refs,
                 pendingFrames, decoded>>

\* Less than half of the output buffer is left: encoder_encode() returns,
\* whatever waits.
ReturnFull ==
  /\ call # "none"
  /\ ~MayEncode
  /\ End
  /\ UNCHANGED <<lookahead, encoder>>

Encode == EncodeArf \/ EncodeImage \/ Return \/ ReturnFull

Next == SendImage \/ Flush \/ Encode

Spec == Init /\ [][Next]_vars

\* The application repeats the call without an image, as vpx/vpx_encoder.h tells
\* it to.
FairSpec == Spec /\ WF_vars(Encode) /\ WF_vars(Flush)

\* With images that the lookahead has no memory for.
LargeImagesSpec == Init /\ [][Next \/ SendLargeImage]_vars

-----------------------------------------------------------------------------
(* Properties *)

\* The application never gets ahead of the encoder: whenever it may send an
\* image, the lookahead has an entry for it, unless a hidden frame has taken
\* more than half of the output buffer.  The code relies on it: nobody is told
\* of an image that vp9_lookahead_push() refuses.
NeverRefused == call = "none" /\ ~Jammed => ~PushRefused

\* Whatever the application forces, and however golden and alternate reference
\* are exchanged for an overlay, a decoder that has decoded what was encoded so
\* far has the encoder's pictures in the slots of its references.
DecoderAgrees ==
  started => Decode(decoded, pendingFrames)
               = [s \in RefSlots |-> refs.pic[refs.map[s]]]

\* Every buffer of the pool is counted once for each reference that it is, and
\* once while it is the new frame's: no buffer leaks or is taken while in use.
RefCountsExact ==
  \A b \in Bufs :
    refs.ref_count[b] = Cardinality({s \in RefSlots : refs.map[s] = b})
                        + IF refs.new = b THEN 1 ELSE 0

\* A hidden frame that waits for a packet, over any number of calls, has a shown
\* one to come that can take it along: an image waits in the lookahead, and no
\* second hidden frame is made before it is encoded (the index of a superframe
\* has room for eight frames).  Only such a frame takes of the next call's buffer.
HiddenHasImage ==
  /\ pendingFrames # <<>> => Len(pendingFrames) = 1 /\ sz > 0
  /\ pendingFrames = <<>> => pending_cx_data_sz = 0

\* assert(arf_src_index <= rc->frames_to_key), in vp9_get_compressed_data():
\* no ARF is made of an image beyond the next key frame.
ArfBeforeKeyFrame == call # "none" => arf_src_index <= rc.frames_to_key

\* An application that repeats the call without an image gets every image and
\* every hidden frame, unless a hidden frame has taken more than half of the
\* output buffer.
FlushEmpties ==
  (call = "flush") ~> \/ Jammed
                      \/ call = "none" /\ sz = 0 /\ pendingFrames = <<>>

FlushReturns == call = "flush" /\ call' = "none"

\* The application may stop at the first call without an image that gives it no
\* packet: nothing waits any more, in the lookahead or for a packet, unless a
\* hidden frame has taken more than half of the output buffer.
FlushIsComplete ==
  [][FlushReturns /\ ~pkt_list /\ ~Jammed => sz = 0 /\ pendingFrames = <<>>]_vars

\* "Encoding is complete when vpx_codec_encode() is called and
\* vpx_codec_get_cx_data() returns no data", in vpx/vpx_encoder.h.
NoDataMeansComplete ==
  [][FlushReturns /\ ~pkt_list => sz = 0 /\ pendingFrames = <<>>]_vars

\* "Current frame is an ARF overlay frame": when an inter frame was encoded as
\* the overlay of an ARF, the alternate reference was that ARF.
OverlayHasItsArf ==
  [][LET f == Defaults(read_idx, TRUE)
     IN EncodeImage /\ f.overlay /\ ~IsKey(f)
          => refs.pic[refs.map[refs.idx["alt"]]] = -buf[read_idx].image]_vars

Queue == INSTANCE FrameQueue WITH
  Capacity <- Depth,
  Entries <- Images,
  Nothing <- [image |-> 0, key |-> FALSE],
  sent <- received,
  queue <- [i \in 1 .. sz |-> buf[Peek(i - 1)]],
  previous <- IF started THEN buf[Peek(-1)] ELSE [image |-> 0, key |-> FALSE],
  draining <- call = "flush",
  jammed <- Jammed

\* The ring is a queue: images are encoded once each, in the order in which
\* they were sent, only when the lookahead is full or flushed; one is lost only
\* when a hidden frame has taken more than half of the output buffer; and the
\* image encoded last can be read with a peek at -1 until the next one is taken.
ImplementsQueue == Queue!Spec
=============================================================================
