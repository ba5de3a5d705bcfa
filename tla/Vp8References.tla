--------------------------- MODULE Vp8References ---------------------------
(***************************************************************************)
(* The reference frames of VP8, in an encoder and in a decoder that get    *)
(* the same frames.  Both keep pictures in NUM_YV12_BUFFERS buffers that   *)
(* the last, golden and alternate references share: the encoder marks      *)
(* every buffer with the references it is (vp8/encoder/onyx_if.c), the     *)
(* decoder counts them (vp8/decoder/onyxd_if.c).                           *)
(*                                                                         *)
(* A picture is a number; a frame is decoded to the encoder's picture if   *)
(* every reference it uses holds what the encoder's held.  One frame is on *)
(* its way at a time; it may be lost, cut short or damaged.                *)
(***************************************************************************)
EXTENDS Naturals, FiniteSets

CONSTANTS
  NumBuffers,     \* NUM_YV12_BUFFERS
  MaxPictures,    \* bound of the model: pictures made in a behaviour
  Resilient,      \* oxcf.error_resilient_mode # 0
  Faults          \* what may happen to a frame: "lost", "cut", "damaged"

ASSUME ReferenceAssumptions ==
  /\ NumBuffers \in Nat /\ NumBuffers >= 4
  /\ MaxPictures \in Nat
  /\ Resilient \in BOOLEAN

VARIABLES
  enc,     \* the encoder: the flags of its buffers, the indexes lst_fb_idx,
           \* gld_fb_idx and alt_fb_idx, the pictures, and their size
  dec,     \* the decoder: fb_idx_ref_cnt, the indexes, the pictures, and
           \* the size in ctx->si, which is 0 until decoder_init
  out,     \* the decoder's output: frame_to_show (as a buffer), show_frame,
           \* ready_for_new_data; and whether that frame was a hidden one
  decoded_key_frame,
  packet,  \* the frame on its way
  made,    \* the pictures made so far
  astray,  \* the references in which a loss or damage may show
  image    \* what the application has not fetched yet

vars == <<enc, dec, out, decoded_key_frame, packet, made, astray, image>>

Refs == {"last", "golden", "alt"}
Bufs == 0 .. NumBuffers - 1
Garbage == 0  \* a picture that no encoder made
Pictures == 0 .. MaxPictures
None == MaxPictures + 1  \* no image
Sizes == {1, 2}

NoFrame == [uses |-> {}]

\* Where a reference's next picture comes from: a reference or the new one.
Source(f, r) ==
  IF r \in f.refresh THEN "new"
  ELSE IF r = "alt" /\ f.copy_arf # "none" THEN f.copy_arf
  ELSE r

Lowest(S) == CHOOSE b \in S : \A c \in S : b <= c

-----------------------------------------------------------------------------
(* The encoder *)

FreeMarked(e) == {b \in Bufs : e.flags[b] = {}}

\* Marks the buffer as the reference and takes the mark from the old one.
Mark(e, r, b) ==
  LET marked == [e.flags EXCEPT ![b] = @ \cup {r}]
      moved == [marked EXCEPT ![e.idx[r]] = @ \ {r}]
  IN [e EXCEPT !.flags = moved, !.idx[r] = b]

\* "we copy the old GF over to the ARF buffer"
CopyBufferToArf(refresh) ==
  IF ~Resilient /\ "golden" \in refresh THEN "golden" ELSE "none"

\* Mutant of UpdateReferenceFrames: golden first.
UpdateGoldenFirst(e, f, new) ==
  LET golden == IF "golden" \in f.refresh THEN Mark(e, "golden", new) ELSE e
      alt == IF "alt" \in f.refresh THEN Mark(golden, "alt", new)
             ELSE IF f.copy_arf # "none" /\ golden.idx["alt"] # golden.idx[f.copy_arf]
             THEN Mark(golden, "alt", golden.idx[f.copy_arf])
             ELSE golden
  IN IF "last" \in f.refresh THEN Mark(alt, "last", new) ELSE alt

\* update_reference_frames(): the alternate reference first, then golden and
\* last.  This encoder never sets copy_buffer_to_gf.
UpdateReferenceFrames(e, f, new) ==
  LET alt == IF "alt" \in f.refresh THEN Mark(e, "alt", new)
             ELSE IF f.copy_arf # "none" /\ e.idx["alt"] # e.idx[f.copy_arf]
             THEN Mark(e, "alt", e.idx[f.copy_arf])
             ELSE e
      golden == IF "golden" \in f.refresh THEN Mark(alt, "golden", new) ELSE alt
  IN IF "last" \in f.refresh THEN Mark(golden, "last", new) ELSE golden

\* vp8_alloc_frame_buffers() in the encoder: no buffer is marked.
NewEncoderBuffers ==
  [flags |-> [b \in Bufs |-> {}],
   idx |-> [last |-> 1, golden |-> 2, alt |-> 3],
   pic |-> [b \in Bufs |-> Garbage],
   size |-> enc.size]

\* A frame.  Of a key frame all but its size is given; the application and the
\* encoder choose what an inter frame uses and refreshes, and the alternate
\* reference frame is hidden.  (An inter frame that uses nothing is left out.)
KeyFrames ==
  [key : {TRUE}, refresh : {Refs}, uses : {{}}, show : {TRUE}, size : Sizes]

InterFrames ==
  [key : {FALSE}, refresh : SUBSET Refs, uses : SUBSET Refs \ {{}},
   show : {TRUE}, size : {enc.size}]
  \cup
  [key : {FALSE}, refresh : {{"alt"}}, uses : SUBSET Refs \ {{}},
   show : {FALSE}, size : {enc.size}]

Written(f, e) ==
  [key |-> f.key, refresh |-> f.refresh, uses |-> f.uses, show |-> f.show,
   size |-> f.size, pic |-> made + 1,
   copy_arf |-> IF f.key \/ "alt" \in f.refresh THEN "none"
                ELSE CopyBufferToArf(f.refresh),
   copy_gf |-> "none",
   from |-> [r \in Refs |-> e.pic[e.idx[r]]]]

\* encode_frame_to_data_rate() of a frame that is not dropped.  The first frame
\* is a key frame; another size may or may not need other buffers.
Encode(f, realloc) ==
  /\ packet = NoFrame
  /\ made < MaxPictures
  /\ made = 0 => f.key
  /\ realloc => f.size # enc.size
  /\ LET e == IF realloc THEN NewEncoderBuffers ELSE enc
         new == Lowest(FreeMarked(e))
         coded == [flags |-> e.flags, idx |-> e.idx,
                   pic |-> [e.pic EXCEPT ![new] = made + 1], size |-> f.size]
     IN /\ FreeMarked(e) # {}
        /\ packet' = Written(f, enc)
        /\ enc' = UpdateReferenceFrames(coded, packet', new)
  /\ made' = made + 1
  /\ UNCHANGED <<dec, out, decoded_key_frame, astray, image>>

-----------------------------------------------------------------------------
(* The decoder *)

FreeBuffers(d) == {b \in Bufs : d.cnt[b] = 0}

\* Mutant of RefCntFb: the old buffer is not given back.
RefCntFbKeep(d, r, b) ==
  [d EXCEPT !.cnt = [@ EXCEPT ![b] = @ + 1], !.idx[r] = b]

\* One reference less, if there is one.
Fewer(cnt, b) == IF cnt[b] > 0 THEN [cnt EXCEPT ![b] = @ - 1] ELSE cnt

\* ref_cnt_fb()
RefCntFb(d, r, b) ==
  LET less == Fewer(d.cnt, d.idx[r])
  IN [cnt |-> [less EXCEPT ![b] = @ + 1], idx |-> [d.idx EXCEPT ![r] = b],
      pic |-> d.pic, size |-> d.size]

\* The buffer of a copy: an invalid flag leaves new_fb at 0.
CopySource(d, c) == IF c = "invalid" THEN 0 ELSE d.idx[c]

\* Mutant of SwapFrameBuffers: golden is refreshed before it is copied.
SwapGoldenFirst(d, f, new) ==
  LET golden == IF "golden" \in f.refresh THEN RefCntFb(d, "golden", new) ELSE d
      arf == IF f.copy_arf = "none" THEN golden
             ELSE RefCntFb(golden, "alt", CopySource(golden, f.copy_arf))
      gf == IF f.copy_gf = "none" THEN arf
            ELSE RefCntFb(arf, "golden", CopySource(arf, f.copy_gf))
      alt == IF "alt" \in f.refresh THEN RefCntFb(gf, "alt", new) ELSE gf
      last == IF "last" \in f.refresh THEN RefCntFb(alt, "last", new) ELSE alt
  IN [last EXCEPT !.cnt[new] = @ - 1]

\* swap_frame_buffers()
SwapFrameBuffers(d, f, new) ==
  LET arf == IF f.copy_arf = "none" THEN d
             ELSE RefCntFb(d, "alt", CopySource(d, f.copy_arf))
      gf == IF f.copy_gf = "none" THEN arf
            ELSE RefCntFb(arf, "golden", CopySource(arf, f.copy_gf))
      golden == IF "golden" \in f.refresh THEN RefCntFb(gf, "golden", new) ELSE gf
      alt == IF "alt" \in f.refresh THEN RefCntFb(golden, "alt", new) ELSE golden
      last == IF "last" \in f.refresh THEN RefCntFb(alt, "last", new) ELSE alt
  IN [last EXCEPT !.cnt[new] = @ - 1]

\* Mutant of FrameToShow: the last reference, also if it was not refreshed.
FrameToShowLast(d, f, new) == d.idx["last"]

\* The end of swap_frame_buffers()
FrameToShow(d, f, new) == IF "last" \in f.refresh THEN d.idx["last"] ELSE new

\* vp8_decode() when a key frame has another size: vp8_alloc_frame_buffers(), and
\* buffer 0 is freed "to get past the first get_free_fb() call".
Resized(f) ==
  IF ~f.key \/ f.size = dec.size THEN dec
  ELSE [cnt |-> [b \in Bufs |-> IF b \in 1 .. 3 THEN 1 ELSE 0],
        idx |-> [last |-> 1, golden |-> 2, alt |-> 3],
        pic |-> [b \in Bufs |-> Garbage],
        size |-> f.size]

Result(d, f) ==
  IF \A r \in f.uses : d.pic[d.idx[r]] = f.from[r] THEN f.pic ELSE Garbage

\* An inter frame is decoded after a complete key frame only.
MayDecode(f) == f.key \/ decoded_key_frame

\* vp8dx_receive_compressed_data() of a frame that is decoded to a picture.
\* After an invalid copy flag the references have changed but the frame does
\* not become the one to fetch.
Receive(f, pic) ==
  LET d == Resized(f)
      new == Lowest(FreeBuffers(d))
      started == [d EXCEPT !.cnt[new] = 1, !.pic[new] = pic]
      failed == "invalid" \in {f.copy_arf, f.copy_gf}
  IN /\ FreeBuffers(d) # {}
     /\ dec' = SwapFrameBuffers(started, f, new)
     /\ out' = [frame |-> FrameToShow(dec', f, new), show |-> f.show,
                ready |-> out.ready /\ failed, hidden |-> ~f.show]
     /\ image' = IF f.show /\ ~failed THEN pic ELSE None
     /\ decoded_key_frame' = TRUE

\* Mutant of ReceiveNothing: the error handler keeps the new buffer.
ReceiveAndKeep(f, show) ==
  LET d == Resized(f)
      new == Lowest(FreeBuffers(d))
  IN /\ FreeBuffers(d) # {}
     /\ dec' = [d EXCEPT !.cnt[new] = 1, !.pic[new] = Garbage]
     /\ out' = [out EXCEPT !.show = show]
     /\ image' = None
     /\ UNCHANGED decoded_key_frame

\* The same when vp8_decode_frame() fails or refuses: the new buffer is free
\* again, and show_frame is the one of the header if that was read.
ReceiveNothing(f, show) ==
  LET d == Resized(f)
  IN /\ FreeBuffers(d) # {}
     /\ dec' = [d EXCEPT !.pic[Lowest(FreeBuffers(d))] = Garbage]
     /\ out' = [out EXCEPT !.show = show]
     /\ image' = None
     /\ UNCHANGED decoded_key_frame

Deliver ==
  /\ packet # NoFrame
  /\ MayDecode(packet)
  /\ Receive(packet, Result(Resized(packet), packet))
  /\ astray' = {r \in Refs :
                  IF Source(packet, r) = "new" THEN packet.uses \cap astray # {}
                  ELSE Source(packet, r) \in astray}
  /\ packet' = NoFrame
  /\ UNCHANGED <<enc, made>>

\* What a frame uses makes no difference when it is not decoded: the model
\* loses, cuts and damages only frames that use the last reference or none.
Plain(f) == f.uses \subseteq {"last"}

\* The references that only a decoder without this frame still has.
Missed(f) == astray \cup {r \in Refs : Source(f, r) # r}

\* Without a size there is no decoder: vp8_decode() returns an error.
Lose ==
  /\ packet # NoFrame
  /\ ("lost" \in Faults /\ Plain(packet)) \/ (dec.size = 0 /\ ~packet.key)
  /\ astray' = Missed(packet)
  /\ packet' = NoFrame
  /\ UNCHANGED <<enc, dec, out, decoded_key_frame, made, image>>

Cut ==
  /\ packet # NoFrame
  /\ dec.size # 0 \/ packet.key
  /\ ("cut" \in Faults /\ Plain(packet)) \/ ~MayDecode(packet)
  /\ \E show \in {out.show, packet.show} : ReceiveNothing(packet, show)
  /\ astray' = Missed(packet)
  /\ packet' = NoFrame
  /\ UNCHANGED <<enc, made>>

\* What the header of a damaged frame may say: any flags, also invalid ones; a
\* copy flag is read only where the reference is not refreshed.
DamagedFrames ==
  {f \in [key : {FALSE}, refresh : SUBSET Refs, show : BOOLEAN, size : {dec.size},
          copy_arf : {"none", "last", "golden", "invalid"},
          copy_gf : {"none", "last", "alt", "invalid"}] :
     /\ "alt" \in f.refresh => f.copy_arf = "none"
     /\ "golden" \in f.refresh => f.copy_gf = "none"}
  \cup
  [key : {TRUE}, refresh : {Refs}, show : BOOLEAN, size : Sizes,
   copy_arf : {"none"}, copy_gf : {"none"}]

Damage ==
  /\ packet # NoFrame
  /\ "damaged" \in Faults /\ Plain(packet)
  /\ \E f \in DamagedFrames : MayDecode(f) /\ Receive(f, Garbage)
  /\ astray' = Refs
  /\ packet' = NoFrame
  /\ UNCHANGED <<enc, made>>

Fetchable == ~out.ready /\ out.show

\* vp8dx_get_raw_frame()
GetFrame ==
  /\ Fetchable
  /\ out' = [out EXCEPT !.ready = TRUE]
  /\ image' = None
  /\ UNCHANGED <<enc, dec, decoded_key_frame, packet, made, astray>>

\* vp8_set_reference() writes into the reference's buffer, vp8dx_set_reference()
\* into a free one.
SetReference(r) ==
  /\ packet = NoFrame
  /\ made < MaxPictures
  /\ dec.size # 0 /\ dec.size = enc.size
  /\ FreeBuffers(dec) # {}
  /\ enc' = [enc EXCEPT !.pic[enc.idx[r]] = made + 1]
  /\ LET b == Lowest(FreeBuffers(dec))
     IN dec' = [RefCntFb(dec, r, b) EXCEPT !.pic[b] = made + 1]
  /\ made' = made + 1
  /\ astray' = astray \ {r}
  /\ UNCHANGED <<out, decoded_key_frame, packet, image>>

-----------------------------------------------------------------------------
Init ==
  /\ enc = [flags |-> [b \in Bufs |-> {}],
            idx |-> [last |-> 1, golden |-> 2, alt |-> 3],
            pic |-> [b \in Bufs |-> Garbage], size |-> 0]
  /\ dec = [cnt |-> [b \in Bufs |-> 0],
            idx |-> [last |-> 0, golden |-> 0, alt |-> 0],
            pic |-> [b \in Bufs |-> Garbage], size |-> 0]
  /\ out = [frame |-> 0, show |-> FALSE, ready |-> TRUE, hidden |-> FALSE]
  /\ decoded_key_frame = FALSE
  /\ packet = NoFrame
  /\ made = 0
  /\ astray = Refs
  /\ image = None

Next ==
  \/ \E f \in KeyFrames \cup InterFrames, z \in BOOLEAN : Encode(f, z)
  \/ Deliver \/ Lose \/ Cut \/ Damage
  \/ GetFrame

Spec == Init /\ [][Next]_vars

\* The same when the application uses VP8_SET_REFERENCE on both sides.
SetReferencesSpec == Init /\ [][Next \/ \E r \in Refs : SetReference(r)]_vars

-----------------------------------------------------------------------------
(* Properties *)

Index == [Refs -> Bufs]

TypeOK ==
  /\ enc \in [flags : [Bufs -> SUBSET Refs], idx : Index, pic : [Bufs -> Pictures],
              size : Sizes \cup {0}]
  /\ dec \in [cnt : [Bufs -> 0 .. 3], idx : Index, pic : [Bufs -> Pictures],
              size : Sizes \cup {0}]
  /\ out \in [frame : Bufs, show : BOOLEAN, ready : BOOLEAN, hidden : BOOLEAN]
  /\ decoded_key_frame \in BOOLEAN
  /\ made \in Pictures
  /\ astray \subseteq Refs
  /\ image \in Pictures \cup {None}

\* Between the calls both sides account for exactly the references they have,
\* whatever the frames say, so that one of four buffers is always free:
\* get_free_fb() and the search of the encoder assert it.
BuffersAccounted ==
  /\ made > 0 => \A b \in Bufs : enc.flags[b] = {r \in Refs : enc.idx[r] = b}
  /\ dec.size # 0 =>
       \A b \in Bufs : dec.cnt[b] = Cardinality({r \in Refs : dec.idx[r] = b})
  /\ FreeMarked(enc) # {} /\ FreeBuffers(dec) # {}

EncoderPicture(r) == enc.pic[enc.idx[r]]
DecoderPicture(r) == dec.pic[dec.idx[r]]

\* The decoder predicts from what the encoder predicted from, but where a lost
\* or damaged frame may show: the order in which the two sides move their
\* references is the same, and a key frame, or frames that only use sound
\* references, repair what was lost.
Agreement ==
  \A r \in Refs \ astray :
    DecoderPicture(r) = IF packet = NoFrame THEN EncoderPicture(r)
                        ELSE packet.from[r]

\* "The list of available frames becomes valid upon completion of the
\* vpx_codec_decode call, and remains valid until the next call to
\* vpx_codec_decode" (vpx/vpx_decoder.h:233).
ImageIntact == image # None => Fetchable /\ dec.pic[out.frame] = image

\* A frame that is "decoded but will not be shown" (vpx/vpx_encoder.h:130) is
\* never handed to the application.
HiddenNotShown == Fetchable => ~out.hidden

\* Encoder and decoder implement three references by value.
Values == INSTANCE Vp8ReferenceValues
  WITH enc <- [r \in Refs |-> EncoderPicture(r)],
       dec <- [r \in Refs |-> DecoderPicture(r)]
ImplementsValues == Values!Spec
=============================================================================
