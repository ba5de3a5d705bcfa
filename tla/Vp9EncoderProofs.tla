-------------------------- MODULE Vp9EncoderProofs --------------------------
(***************************************************************************)
(* The VP9 encoder's lookahead, its rate control and its references, for   *)
(* every lag, key frame interval, golden frame interval, size of the pool  *)
(* and number of images.                                                   *)
(***************************************************************************)
EXTENDS Vp9Encoder, FiniteSetTheorems, SequenceTheorems, TLAPS

-----------------------------------------------------------------------------
(* The lookahead is a queue *)

\* The entry i places behind the oldest one.
Ring(i) == IF i + read_idx >= max_sz THEN i + read_idx - max_sz ELSE i + read_idx

\* The entry given back last.
Behind == IF read_idx = 0 THEN max_sz - 1 ELSE read_idx - 1

\* The images that wait, as they would be encoded.
Waiting == [i \in 1 .. sz |-> buf[Ring(i - 1)]]

\* The entries between the two indexes are those counted.  There is room for one
\* more between two calls, unless no frame can be encoded any more; in a call, as
\* soon as it has a packet.
LookaheadInv ==
  /\ LookaheadType
  /\ call \in {"none", "frame", "flush"}
  /\ received \in 0 .. MaxImages
  /\ started \in BOOLEAN
  /\ sz <= Depth
  /\ call = "none" /\ ~Jammed => sz < Depth
  /\ call = "frame" /\ pkt_list => sz < Depth
  /\ call = "flush" => sz < Depth
  /\ write_idx = Ring(sz)

\* Until it has a packet a call has all of the output buffer but what the hidden
\* frames have taken; it never has more.
OutputInv ==
  /\ cx_data_sz \in 0 .. CxDataSize
  /\ pending_cx_data_sz \in 0 .. CxDataSize
  /\ cx_data_sz + pending_cx_data_sz <= CxDataSize
  /\ pkt_list \in BOOLEAN
  /\ call # "none" /\ ~pkt_list => cx_data_sz = CxDataSize - pending_cx_data_sz

LEMMA OutputInvInit == Init => OutputInv
<1> SUFFICES ASSUME Init PROVE OutputInv
  OBVIOUS
<1>1. call = "none" /\ cx_data_sz = 0 /\ pending_cx_data_sz = 0 /\ pkt_list \in BOOLEAN
  BY DEF Init
<1> QED BY <1>1, OutputAssumptions DEF OutputInv

LEMMA OutputInvStep == OutputInv /\ [Next]_vars => OutputInv'
<1> SUFFICES ASSUME OutputInv, [Next]_vars PROVE OutputInv'
  OBVIOUS
<1>1. ASSUME NEW c, Begin(c) PROVE OutputInv'
  <2>1. /\ pkt_list' \in BOOLEAN /\ pending_cx_data_sz' = pending_cx_data_sz
        /\ \/ call' = "none" /\ cx_data_sz' = 0
           \/ cx_data_sz' = CxDataSize - pending_cx_data_sz
    BY <1>1 DEF Begin
  <2> QED BY <2>1, OutputAssumptions DEF OutputInv
<1>2. ASSUME End PROVE OutputInv'
  BY <1>2, OutputAssumptions DEF End, OutputInv
<1>3. ASSUME NEW show \in BOOLEAN, Write(show), call' = call PROVE OutputInv'
  <2>1. PICK size \in FrameSizes :
          /\ size <= cx_data_sz
          /\ cx_data_sz' = cx_data_sz - size
          /\ pending_cx_data_sz' = IF show THEN 0 ELSE pending_cx_data_sz + size
          /\ pkt_list' = (show \/ pkt_list)
    BY <1>3 DEF Write
  <2>2. size \in Nat \ {0} /\ CxDataSize \in Nat BY OutputAssumptions
  <2>3. CASE show
    <3>1. /\ pkt_list' = TRUE /\ pending_cx_data_sz' = 0
      BY <2>1, <2>3
    <3> QED BY <3>1, <2>1, <2>2 DEF OutputInv
  <2>4. CASE ~show
    <3>1. /\ pkt_list' = pkt_list /\ pending_cx_data_sz' = pending_cx_data_sz + size
      BY <2>1, <2>4 DEF OutputInv
    <3> QED BY <3>1, <2>1, <2>2, <1>3 DEF OutputInv
  <2> QED BY <2>3, <2>4
<1>4. CASE SendImage
  BY <1>4, <1>1 DEF SendImage
<1>5. CASE Flush
  BY <1>5, <1>1 DEF Flush
<1>6. CASE EncodeArf
  <2>1. Write(FALSE) /\ call' = call
    BY <1>6 DEF EncodeArf, EncodeFrame, Defaults
  <2> QED BY <2>1, <1>3
<1>7. CASE EncodeImage
  <2>1. Write(TRUE) /\ call' = call
    BY <1>7 DEF EncodeImage, EncodeFrame, Defaults
  <2> QED BY <2>1, <1>3
<1>8. CASE Return
  BY <1>8, <1>2 DEF Return
<1>9. CASE ReturnFull
  BY <1>9, <1>2 DEF ReturnFull
<1>10. CASE UNCHANGED vars
  BY <1>10 DEF vars, output, OutputInv
<1> QED BY <1>4, <1>5, <1>6, <1>7, <1>8, <1>9, <1>10 DEF Next, Encode

\* A call that ends with too little of the buffer left, and with no packet, has
\* left a hidden frame that takes more than half of it.
LEMMA FullWithoutPacket ==
  ASSUME OutputInv, ReturnFull, ~pkt_list
  PROVE  Jammed
  BY DEF OutputInv, ReturnFull, MayEncode, Jammed

\* While frames can be encoded in a call, what waits leaves room for them.
LEMMA RoomMeansNotJammed ==
  ASSUME OutputInv, MayEncode
  PROVE  ~Jammed
<1>1. CxDataSize \div 2 \in Int
  BY OutputAssumptions
<1>2. CxDataSize - pending_cx_data_sz >= cx_data_sz
  BY OutputAssumptions DEF OutputInv
<1> QED BY <1>1, <1>2, OutputAssumptions DEF OutputInv, MayEncode, HasRoom, Jammed

\* The bytes that wait change only when a frame is encoded.
LEMMA JammedStays ==
  ASSUME UNCHANGED pending_cx_data_sz
  PROVE  Jammed' = Jammed
  BY DEF Jammed, HasRoom

\* clamp() gives the lookahead at least one entry.
LEMMA DepthType == Depth \in Nat \ {0}
  BY LagAssumption, LagBuffersAssumption DEF Depth

\* vp9_lookahead_push() with room stores the image behind the others, where it
\* overwrites none of them, nor the one given back last.
LEMMA PushAppends ==
  ASSUME LookaheadInv, sz < Depth, NEW entry \in Images, Push(entry)
  PROVE  /\ LookaheadType'
         /\ sz' = sz + 1
         /\ write_idx' = Ring(sz)'
         /\ Waiting' = Append(Waiting, entry)
         /\ Behind' = Behind
         /\ buf'[Behind] = buf[Behind]
<1>1. Depth \in Nat \ {0} BY DepthType
<1>2. /\ sz' = sz + 1
      /\ write_idx' = After(write_idx)
      /\ buf' = [buf EXCEPT ![write_idx] = entry]
      /\ read_idx' = read_idx
  BY <1>1 DEF Push, PushRefused, max_sz, MAX_PRE_FRAMES, LookaheadInv, LookaheadType,
     Indexes
<1>3. LookaheadType' /\ write_idx' = Ring(sz)' /\ Behind' = Behind
  BY <1>1, <1>2 DEF LookaheadInv, LookaheadType, max_sz, MAX_PRE_FRAMES, Indexes,
     Ring, After, Behind
<1>4. Behind \in Indexes /\ Behind # write_idx
  BY <1>1 DEF LookaheadInv, LookaheadType, max_sz, MAX_PRE_FRAMES, Indexes, Ring,
     Behind
<1>5. buf'[Behind] = buf[Behind]
  BY <1>2, <1>4 DEF LookaheadInv, LookaheadType
<1>6. \A i \in 0 .. sz - 1 : /\ Ring(i)' = Ring(i) /\ Ring(i) \in Indexes
                             /\ Ring(i) # write_idx
  BY <1>1, <1>2 DEF LookaheadInv, LookaheadType, max_sz, MAX_PRE_FRAMES, Indexes, Ring
<1>7. /\ Ring(sz) = write_idx
      /\ \A i \in 0 .. sz : Ring(i)' = Ring(i)
      /\ write_idx \in Indexes
  BY <1>1, <1>2 DEF LookaheadInv, LookaheadType, max_sz, MAX_PRE_FRAMES, Indexes, Ring
<1>8. Waiting \in Seq(Images) /\ Len(Waiting) = sz
  BY <1>6 DEF Waiting, LookaheadInv, LookaheadType
<1>9. \A i \in 1 .. sz : buf'[Ring(i - 1)'] = buf[Ring(i - 1)]
  <2> TAKE i \in 1 .. sz
  <2>1. i - 1 \in 0 .. sz - 1 BY DEF LookaheadInv, LookaheadType
  <2> QED BY <1>2, <1>6, <2>1 DEF LookaheadInv, LookaheadType
<1>10. buf'[Ring(sz)] = entry
  BY <1>2, <1>7 DEF LookaheadInv, LookaheadType
<1>11. Waiting' = [i \in 1 .. sz + 1 |-> IF i = sz + 1 THEN entry ELSE Waiting[i]]
  <2>1. sz \in Nat BY DEF LookaheadInv, LookaheadType, max_sz
  <2>2. Waiting' = [i \in 1 .. sz + 1 |-> buf'[Ring(i - 1)']]
    BY <1>2 DEF Waiting, Ring, max_sz
  <2>3. \A i \in 1 .. sz + 1 :
          buf'[Ring(i - 1)'] = IF i = sz + 1 THEN entry ELSE Waiting[i]
    <3> TAKE i \in 1 .. sz + 1
    <3>1. CASE i = sz + 1
      <4>1. i - 1 = sz /\ sz \in 0 .. sz BY <2>1, <3>1
      <4>2. Ring(i - 1)' = Ring(i - 1) BY <4>1, <1>7
      <4> QED BY <4>1, <4>2, <3>1, <1>10
    <3>2. CASE i # sz + 1
      <4>1. i \in 1 .. sz BY <2>1, <3>2
      <4> QED BY <4>1, <3>2, <1>9 DEF Waiting
    <3> QED BY <3>1, <3>2
  <2> QED BY <2>2, <2>3
<1>12. Waiting' = Append(Waiting, entry)
  <2>1. sz \in Nat BY DEF LookaheadInv, LookaheadType, max_sz
  <2>2. /\ Append(Waiting, entry) \in Seq(Images)
        /\ Len(Append(Waiting, entry)) = sz + 1
        /\ \A i \in 1 .. sz : Append(Waiting, entry)[i] = Waiting[i]
        /\ Append(Waiting, entry)[sz + 1] = entry
    BY <1>8, <2>1, AppendProperties
  <2>3. /\ Waiting' \in Seq(Images)
        /\ Len(Waiting') = sz + 1
    BY <1>8, <1>11, <2>1, LenProperties
  <2>4. \A i \in 1 .. sz + 1 : Waiting'[i] = Append(Waiting, entry)[i]
    BY <1>11, <2>1, <2>2
  <2> QED BY <2>2, <2>3, <2>4, SeqEqual
<1> QED BY <1>2, <1>3, <1>5, <1>12

\* vp9_lookahead_pop() gives the oldest image, which is then the one behind.
LEMMA PopTakes ==
  ASSUME LookaheadInv, sz # 0, Pop
  PROVE  /\ LookaheadType'
         /\ sz' = sz - 1
         /\ write_idx' = Ring(sz)'
         /\ Waiting # <<>>
         /\ Len(Waiting) = sz
         /\ Waiting' = Tail(Waiting)
         /\ Behind' = read_idx
         /\ buf'[Behind'] = Head(Waiting)
<1>1. Depth \in Nat \ {0} BY DepthType
<1>2. /\ read_idx' = After(read_idx)
      /\ sz' = sz - 1
      /\ buf' = buf
      /\ write_idx' = write_idx
  BY DEF Pop
<1>3. /\ LookaheadType'
      /\ write_idx' = Ring(sz)'
      /\ Behind' = read_idx
  BY <1>1, <1>2 DEF LookaheadInv, LookaheadType, max_sz, MAX_PRE_FRAMES, Indexes,
     Ring, After, Behind
<1>4. sz \in Nat \ {0} BY <1>1 DEF LookaheadInv, LookaheadType, max_sz, MAX_PRE_FRAMES
<1>5. \A i \in 0 .. sz - 1 : Ring(i) \in Indexes
  BY <1>1 DEF LookaheadInv, LookaheadType, max_sz, MAX_PRE_FRAMES, Indexes, Ring
<1>6. Waiting \in Seq(Images) /\ Len(Waiting) = sz /\ Waiting # <<>>
  BY <1>4, <1>5 DEF Waiting, LookaheadInv, LookaheadType
<1>7. Ring(0) = read_idx
  BY <1>1 DEF LookaheadInv, LookaheadType, max_sz, MAX_PRE_FRAMES, Indexes, Ring
<1>8. Head(Waiting) = buf[read_idx]
  BY <1>4, <1>6, <1>7 DEF Waiting
<1>9. \A i \in 1 .. sz - 1 : Ring(i - 1)' = Ring(i)
  BY <1>1, <1>2 DEF LookaheadInv, LookaheadType, max_sz, MAX_PRE_FRAMES, Indexes,
     Ring, After
<1>10. Waiting' = [i \in 1 .. sz - 1 |-> Waiting[i + 1]]
  <2>1. Waiting' = [i \in 1 .. sz - 1 |-> buf[Ring(i - 1)']]
    BY <1>2 DEF Waiting, Ring, max_sz
  <2>2. \A i \in 1 .. sz - 1 : Waiting[i + 1] = buf[Ring(i)]
    BY <1>4 DEF Waiting
  <2> QED BY <2>1, <2>2, <1>9
<1>11. Waiting' = Tail(Waiting)
  <2>1. /\ Tail(Waiting) \in Seq(Images)
        /\ Len(Tail(Waiting)) = sz - 1
        /\ \A i \in 1 .. sz - 1 : Tail(Waiting)[i] = Waiting[i + 1]
    BY <1>4, <1>6, HeadTailProperties
  <2>2. /\ Waiting' \in Seq(Images)
        /\ Len(Waiting') = sz - 1
    <3>1. \A i \in 1 .. sz - 1 : Waiting[i + 1] \in Images
      BY <1>4, <1>6, ElementOfSeq
    <3> QED BY <1>4, <1>10, <3>1
  <2> QED BY <1>4, <1>10, <2>1, <2>2, SeqEqual
<1> QED BY <1>2, <1>3, <1>6, <1>8, <1>11

\* What the application sends is an image.
LEMMA ImagesType ==
  ASSUME received \in 0 .. MaxImages, received < MaxImages, NEW key \in Flags
  PROVE  [image |-> received + 1, key |-> key] \in Images
<1>1. key \in BOOLEAN BY DEF Flags
<1>2. received + 1 \in 1 .. MaxImages BY MaxImagesAssumption
<1> QED BY <1>1, <1>2 DEF Images

LEMMA LookaheadInvInit == Init => LookaheadInv
<1> SUFFICES ASSUME Init PROVE LookaheadInv
  OBVIOUS
<1>1. [image |-> 1, key |-> FALSE] \in Images
  BY MaxImagesAssumption DEF Images
<1>2. LookaheadType
  BY <1>1, DepthType DEF Init, LookaheadInit, LookaheadType, Indexes, max_sz,
     MAX_PRE_FRAMES
<1>3. write_idx = Ring(sz)
  BY DepthType DEF Init, LookaheadInit, Ring, max_sz, MAX_PRE_FRAMES
<1>4. started \in BOOLEAN /\ call = "none"
  BY DEF Init
<1>5. received \in 0 .. MaxImages /\ sz <= Depth /\ sz < Depth
  BY DepthType, MaxImagesAssumption DEF Init, LookaheadInit
<1> QED BY <1>2, <1>3, <1>4, <1>5 DEF LookaheadInv

\* encoder_encode() with an image: it is added, or the lookahead is full because
\* no frame can be encoded any more.
LEMMA SendStep ==
  ASSUME LookaheadInv, SendImage
  PROVE  \/ /\ sz < Depth
            /\ \E key \in Flags : Push([image |-> received + 1, key |-> key])
         \/ Jammed /\ sz = Depth /\ UNCHANGED lookahead
<1>1. PICK key \in Flags : Push([image |-> received + 1, key |-> key])
  BY DEF SendImage
<1>2. CASE sz < Depth
  BY <1>1, <1>2
<1>3. CASE ~(sz < Depth)
  <2>1. sz = Depth /\ Jammed
    BY <1>3, DepthType DEF SendImage, LookaheadInv, LookaheadType, max_sz, MAX_PRE_FRAMES
  <2>2. PushRefused
    BY <2>1, DepthType DEF PushRefused, max_sz, MAX_PRE_FRAMES
  <2> QED BY <2>1, <2>2, <1>1 DEF Push
<1> QED BY <1>2, <1>3

LEMMA LookaheadInvStep == LookaheadInv /\ OutputInv /\ [Next]_vars => LookaheadInv'
<1> SUFFICES ASSUME LookaheadInv, OutputInv, [Next]_vars
             PROVE  LookaheadInv'
  OBVIOUS
<1> USE DepthType
<1>1. CASE SendImage
  <2>1. /\ started' = started /\ pkt_list' = FALSE
        /\ received' = received + 1 /\ received + 1 \in 0 .. MaxImages
        /\ call' = (IF Jammed THEN "none" ELSE "frame") /\ Jammed' = Jammed
    BY <1>1, MaxImagesAssumption, JammedStays DEF SendImage, Begin, LookaheadInv
  <2>2. CASE sz < Depth /\ \E key \in Flags : Push([image |-> received + 1, key |-> key])
    <3>1. PICK key \in Flags : Push([image |-> received + 1, key |-> key])
      BY <2>2
    <3>2. [image |-> received + 1, key |-> key] \in Images
      BY <1>1, ImagesType DEF SendImage, LookaheadInv
    <3>3. LookaheadType' /\ sz' = sz + 1 /\ write_idx' = Ring(sz)'
      BY <2>2, <3>1, <3>2, PushAppends
    <3>4. sz' <= Depth
      BY <2>2, <3>3 DEF LookaheadInv, LookaheadType, max_sz
    <3> QED BY <2>1, <3>3, <3>4 DEF LookaheadInv
  <2>3. CASE Jammed /\ sz = Depth /\ UNCHANGED lookahead
    <3>1. LookaheadType' /\ write_idx' = Ring(sz)' /\ sz' = sz
      BY <2>3 DEF lookahead, LookaheadInv, LookaheadType, Ring, Indexes, max_sz
    <3> QED BY <2>1, <2>3, <3>1 DEF LookaheadInv
  <2> QED BY <1>1, <2>2, <2>3, SendStep
<1>2. ASSUME UNCHANGED lookahead
      PROVE  LookaheadType' /\ write_idx' = Ring(sz)' /\ sz' = sz
  BY <1>2 DEF lookahead, LookaheadInv, LookaheadType, Ring, Indexes, max_sz
<1>3. CASE Flush
  <2>1. /\ UNCHANGED lookahead /\ received' = received /\ started' = started
        /\ call' = (IF Jammed THEN "none" ELSE "flush") /\ Jammed' = Jammed
        /\ call = "none"
    BY <1>3, JammedStays DEF Flush, Begin, encoder
  <2> QED BY <2>1, <1>2 DEF LookaheadInv
<1>4. CASE EncodeArf
  <2>1. /\ UNCHANGED lookahead /\ received' = received /\ started' = started
        /\ call' = call /\ call # "none" /\ pkt_list' = pkt_list
    BY <1>4 DEF EncodeArf, EncodeFrame, Defaults, Write, OutputInv
  <2> QED BY <2>1, <1>2 DEF LookaheadInv
<1>5. CASE EncodeImage
  <2>1. LookaheadType' /\ sz' = sz - 1 /\ write_idx' = Ring(sz)'
    BY <1>5, PopTakes DEF EncodeImage, MayPop
  <2>2. sz' < Depth
    BY <2>1 DEF LookaheadInv, LookaheadType, max_sz
  <2>3. call' = call /\ received' = received /\ started' = TRUE
    BY <1>5 DEF EncodeImage
  <2> QED BY <2>1, <2>2, <2>3 DEF LookaheadInv, LookaheadType
<1>6. CASE Return
  <2>1. /\ UNCHANGED lookahead /\ received' = received /\ started' = started
        /\ call' = "none"
    BY <1>6 DEF Return, End
  <2>2. sz < Depth
    BY <1>6 DEF Return, MayPop, LookaheadInv, LookaheadType, max_sz, MAX_PRE_FRAMES
  <2> QED BY <2>1, <2>2, <1>2 DEF LookaheadInv
<1>7. CASE ReturnFull
  <2>1. /\ UNCHANGED lookahead /\ received' = received /\ started' = started
        /\ call' = "none" /\ call # "none" /\ Jammed' = Jammed
    BY <1>7, JammedStays DEF ReturnFull, End, encoder
  <2>2. sz < Depth \/ Jammed
    BY <1>7, <2>1, FullWithoutPacket DEF LookaheadInv
  <2> QED BY <2>1, <2>2, <1>2 DEF LookaheadInv
<1>8. CASE UNCHANGED vars
  <2>1. /\ UNCHANGED lookahead /\ received' = received /\ started' = started
        /\ call' = call /\ pkt_list' = pkt_list /\ Jammed' = Jammed
    BY <1>8, JammedStays DEF vars, output, encoder
  <2> QED BY <2>1, <1>2 DEF LookaheadInv
<1> QED BY <1>1, <1>3, <1>4, <1>5, <1>6, <1>7, <1>8 DEF Next, Encode

LEMMA LookaheadInvariant == Spec => [](LookaheadInv /\ OutputInv)
  BY LookaheadInvInit, LookaheadInvStep, OutputInvInit, OutputInvStep, PTL DEF Spec

\* No image is refused while frames can be encoded: encoder_encode() returns when
\* nothing more can be taken from the lookahead, or when it is full of packets,
\* whose images have left room; or else a hidden frame has taken more than half
\* of the output buffer, and no call encodes anything any more.
THEOREM NoImageIsRefused == Spec => []NeverRefused
<1>1. LookaheadInv => NeverRefused
  BY DepthType DEF LookaheadInv, LookaheadType, NeverRefused, PushRefused, max_sz,
     MAX_PRE_FRAMES
<1> QED BY <1>1, LookaheadInvariant, PTL

NoImage == [image |-> 0, key |-> FALSE]
Previous == IF started THEN buf[Behind] ELSE NoImage

\* What vp9_lookahead_peek() finds, for every index that it is called with.
PeekFinds ==
  /\ Peek(-1) = Behind
  /\ \A i \in 0 .. sz - 1 : Peek(i) = Ring(i)
  /\ [i \in 1 .. sz |-> buf[Peek(i - 1)]] = Waiting
  /\ (IF started THEN buf[Peek(-1)] ELSE NoImage) = Previous

LEMMA PeekFindsAlways == LookaheadInv => PeekFinds
<1> SUFFICES ASSUME LookaheadInv PROVE PeekFinds
  OBVIOUS
<1>1. Peek(-1) = Behind
  <2>1. read_idx \in Int /\ max_sz \in Int /\ read_idx >= 0
    BY DepthType DEF LookaheadInv, LookaheadType, Indexes, max_sz, MAX_PRE_FRAMES
  <2>2. Peek(-1) = IF -1 + read_idx < 0 THEN -1 + read_idx + max_sz
                   ELSE -1 + read_idx
    BY DEF Peek, MAX_PRE_FRAMES
  <2> QED BY <2>1, <2>2 DEF Behind
<1>2. \A i \in 0 .. sz - 1 : Peek(i) = Ring(i)
  BY DEF LookaheadInv, LookaheadType, Peek, Ring, max_sz
<1>3. \A i \in 1 .. sz : i - 1 \in 0 .. sz - 1
  BY DEF LookaheadInv, LookaheadType
<1>4. [i \in 1 .. sz |-> buf[Peek(i - 1)]] = [i \in 1 .. sz |-> buf[Ring(i - 1)]]
  BY <1>2, <1>3
<1> QED BY <1>1, <1>2, <1>4 DEF PeekFinds, Previous, Waiting

\* The ring implements the queue of FrameQueue, for every lag.
THEOREM RingIsAQueue == Spec => ImplementsQueue
<1> DEFINE queue == [i \in 1 .. sz |-> buf[Peek(i - 1)]]
           previous == IF started THEN buf[Peek(-1)] ELSE NoImage
           draining == call = "flush"
<1>3. Init => Queue!Init
  <2> SUFFICES ASSUME Init PROVE Queue!Init
    OBVIOUS
  <2>1. queue = <<>>
    <3>1. sz = 0 BY DEF Init, LookaheadInit
    <3>2. 1 .. sz = {} BY <3>1
    <3> QED BY <3>2
  <2>2. Jammed = FALSE
    <3>1. pending_cx_data_sz = 0 BY DEF Init
    <3>2. CxDataSize \in Nat /\ CxDataSize - 0 >= CxDataSize \div 2
      BY OutputAssumptions
    <3> QED BY <3>1, <3>2 DEF Jammed, HasRoom
  <2> QED BY <2>1, <2>2 DEF Init, Queue!Init
<1>4. /\ LookaheadInv /\ OutputInv /\ PeekFinds /\ PeekFinds'
      /\ [Next]_vars
      => [Queue!Next]_(Queue!vars)
  <2> SUFFICES ASSUME LookaheadInv, OutputInv, PeekFinds, PeekFinds', [Next]_vars
               PROVE  [Queue!Next]_(Queue!vars)
    OBVIOUS
  <2>0. /\ queue = Waiting /\ previous = Previous
        /\ queue' = Waiting' /\ previous' = Previous'
    BY DEF PeekFinds
  <2>a. Len(Waiting) = sz
    BY DEF Waiting, LookaheadInv, LookaheadType, max_sz
  <2>1. CASE SendImage
    <3>0. /\ call = "none" /\ (call' = "none" \/ call' = "frame")
          /\ started' = started /\ received' = received + 1 /\ Jammed' = Jammed
      BY <2>1, JammedStays DEF SendImage, Begin
    <3>1. draining' = draining
      BY <3>0
    <3>2. CASE sz < Depth /\ \E key \in Flags : Push([image |-> received + 1, key |-> key])
      <4>1. PICK key \in Flags : Push([image |-> received + 1, key |-> key])
        BY <3>2
      <4> DEFINE e == [image |-> received + 1, key |-> key]
      <4>2. e \in Images /\ e.image = received + 1
        BY <2>1, ImagesType DEF SendImage, LookaheadInv
      <4>3. Waiting' = Append(Waiting, e) /\ buf'[Behind'] = buf[Behind]
        BY <3>2, <4>1, <4>2, PushAppends
      <4>4. Previous' = Previous
        BY <3>0, <4>3 DEF Previous
      <4>5. Queue!Add(e)
        BY <2>0, <2>a, <3>0, <3>1, <3>2, <4>2, <4>3, <4>4 DEF Queue!Add, NoImage
      <4> QED BY <4>2, <4>5 DEF Queue!Next
    <3>3. CASE Jammed /\ sz = Depth /\ UNCHANGED lookahead
      <4>1. queue' = queue /\ previous' = previous
        BY <3>0, <3>3 DEF lookahead, Peek, max_sz
      <4>2. Queue!Refuse
        BY <2>0, <2>a, <3>0, <3>1, <3>3, <4>1 DEF Queue!Refuse
      <4> QED BY <4>2 DEF Queue!Next
    <3> QED BY <2>1, <3>2, <3>3, SendStep
  <2>2. ASSUME UNCHANGED <<lookahead, received, started>>, Jammed' = Jammed
        PROVE  Queue!StartOrStopDraining
    <3>1. queue' = queue /\ previous' = previous
      BY <2>2 DEF lookahead, Peek, max_sz
    <3> QED BY <2>2, <3>1 DEF Queue!StartOrStopDraining
  <2>3. CASE Flush
    <3>1. UNCHANGED <<lookahead, received, started>> /\ Jammed' = Jammed
      BY <2>3, JammedStays DEF Flush, Begin, encoder
    <3> QED BY <3>1, <2>2 DEF Queue!Next
  <2>4. CASE EncodeArf
    <3>1. UNCHANGED <<lookahead, received, started, call>> /\ ~Jammed
      BY <2>4, RoomMeansNotJammed DEF EncodeArf
    <3>2. queue' = queue /\ previous' = previous /\ draining' = draining
      BY <3>1 DEF lookahead, Peek, max_sz
    <3>3. CASE Jammed' = FALSE
      <4>1. Jammed' = Jammed BY <3>1, <3>3 DEF Jammed
      <4> QED BY <3>1, <3>2, <4>1 DEF Queue!vars
    <3>4. CASE Jammed' = TRUE
      <4>1. Queue!Jam
        BY <3>1, <3>2, <3>4 DEF Queue!Jam
      <4> QED BY <4>1 DEF Queue!Next
    <3> QED BY <3>3, <3>4 DEF Jammed
  <2>5. CASE EncodeImage
    <3>1. /\ sz # 0 /\ Pop /\ (call = "flush" \/ sz = Depth)
          /\ started' = TRUE /\ call' = call /\ received' = received
      BY <2>5, DepthType DEF EncodeImage, MayPop, max_sz, MAX_PRE_FRAMES
    <3>2. /\ Waiting # <<>> /\ Len(Waiting) = sz
          /\ Waiting' = Tail(Waiting)
          /\ Previous' = Head(Waiting)
      BY <3>1, PopTakes DEF Previous
    <3>3. ~Jammed
      BY <2>5, RoomMeansNotJammed DEF EncodeImage
    <3>4. ~Jammed'
      <4>1. pending_cx_data_sz' = 0
        BY <2>5 DEF EncodeImage, EncodeFrame, Defaults, Write
      <4>2. CxDataSize \in Nat /\ CxDataSize - 0 >= CxDataSize \div 2
        BY OutputAssumptions
      <4> QED BY <4>1, <4>2 DEF Jammed, HasRoom
    <3>5. Jammed' = Jammed
      BY <3>3, <3>4 DEF Jammed
    <3>6. Queue!Take
      BY <2>0, <3>1, <3>2, <3>3, <3>5 DEF Queue!Take, NoImage
    <3> QED BY <3>6 DEF Queue!Next
  <2>6. CASE Return
    <3>1. UNCHANGED <<lookahead, received, started>> /\ Jammed' = Jammed
      BY <2>6, JammedStays DEF Return, End
    <3> QED BY <3>1, <2>2 DEF Queue!Next
  <2>7. CASE ReturnFull
    <3>1. UNCHANGED <<lookahead, received, started>> /\ Jammed' = Jammed
      BY <2>7, JammedStays DEF ReturnFull, End, encoder
    <3> QED BY <3>1, <2>2 DEF Queue!Next
  <2>8. CASE UNCHANGED vars
    <3>1. /\ UNCHANGED <<lookahead, received, started, call>> /\ Jammed' = Jammed
      BY <2>8, JammedStays DEF vars, output, encoder
    <3>2. queue' = queue /\ previous' = previous /\ draining' = draining
      BY <3>1 DEF lookahead, Peek, max_sz
    <3> QED BY <3>1, <3>2 DEF Queue!vars
  <2> QED BY <2>1, <2>3, <2>4, <2>5, <2>6, <2>7, <2>8 DEF Next, Encode
<1> QED
  BY <1>3, <1>4, LookaheadInvariant, PeekFindsAlways, PTL DEF Spec, ImplementsQueue, Queue!Spec

-----------------------------------------------------------------------------
(* The rate control plans no ARF beyond the next key frame *)

RateControlRecord(r) ==
  r = [frames_to_key |-> r.frames_to_key,
       frames_till_gf_update_due |-> r.frames_till_gf_update_due,
       source_alt_ref_pending |-> r.source_alt_ref_pending]

\* A pending ARF lies within the interval to the key frame.  Without a key
\* frame interval frames_to_key counts down from 0 and none of this holds.
RateControlInv ==
  /\ RateControlRecord(rc)
  /\ rc.frames_to_key \in 0 .. KeyFreq
  /\ rc.frames_till_gf_update_due \in Nat
  /\ rc.source_alt_ref_pending \in BOOLEAN
  /\ is_altref_enabled /\ rc.source_alt_ref_pending
       => rc.frames_till_gf_update_due <= rc.frames_to_key

LEMMA RateControlInit == Init => RateControlInv
  BY EncoderAssumptions DEF Init, RateControlInv, RateControlRecord

\* An ARF is only made while one is pending, of an image that waits; it is then
\* pending no more, and no golden frame is due.
LEMMA ArfStep ==
  ASSUME RateControlInv, LookaheadType, EncodeArf
  PROVE  /\ rc.source_alt_ref_pending
         /\ sz > 0
         /\ RateControlInv'
         /\ rc'.source_alt_ref_pending = FALSE
<1> DEFINE f == Defaults(ArfSource, FALSE)
           golden == rc.frames_till_gf_update_due = 0
           refresh == Refreshed(f, IsKey(f), golden)
<1>1. ArfSource # NULL /\ rc' = UpdateRateControl(f, IsKey(f), golden, refresh)
  BY DEF EncodeArf, EncodeFrame
<1>2. arf_src_index # 0 BY <1>1 DEF ArfSource
<1>3. /\ is_altref_enabled /\ rc.source_alt_ref_pending
      /\ arf_src_index = rc.frames_till_gf_update_due
  BY <1>2 DEF arf_src_index
<1>4. arf_src_index \in Nat /\ arf_src_index > 0 /\ ~golden
  BY <1>2, <1>3 DEF RateControlInv
<1>5. sz > 0
  BY <1>1, <1>4 DEF ArfSource, Peek, LookaheadType, max_sz
<1>6. IsKey(f) = FALSE /\ f.show = FALSE
  BY DEF IsKey, Defaults
<1>7. StillPending = FALSE
  BY <1>2 DEF StillPending
<1>8. /\ rc'.frames_to_key = rc.frames_to_key
      /\ rc'.frames_till_gf_update_due \in Nat
      /\ rc'.source_alt_ref_pending = FALSE
  <2> DEFINE due == rc.frames_till_gf_update_due
             arf == is_altref_enabled /\ "alt" \in refresh /\ ~FALSE
             counts == ~arf /\ ("golden" \in refresh \/ "alt" \notin refresh)
  <2>1. rc' = UpdateRateControl(f, FALSE, FALSE, refresh)
    BY <1>1, <1>4, <1>6
  <2> HIDE DEF refresh
  <2>2. rc'.frames_till_gf_update_due = IF counts /\ due > 0 THEN due - 1 ELSE due
    BY <2>1 DEF UpdateRateControl
  <2> HIDE DEF counts, f
  <2>3. /\ rc'.frames_to_key = rc.frames_to_key - 0
        /\ rc'.source_alt_ref_pending = FALSE
    BY <2>1, <1>6, <1>7 DEF UpdateRateControl, FramesToKey
  <2> QED BY <2>2, <2>3 DEF RateControlInv
<1>9. RateControlRecord(rc')
  <2> HIDE DEF f, golden, refresh
  <2> QED BY <1>1 DEF UpdateRateControl, RateControlRecord
<1> QED BY <1>3, <1>5, <1>8, <1>9 DEF RateControlInv

\* An image that is shown brings the key frame one nearer.  A golden frame
\* starts a group that ends no later than the key frame, and counts as its
\* first; so does an ARF, but then none is pending.
LEMMA ImageStep ==
  ASSUME RateControlInv, KeyFreq # 0, EncodeImage
  PROVE  RateControlInv'
<1> DEFINE f == Defaults(read_idx, TRUE)
           key == IsKey(f)
           golden == rc.frames_till_gf_update_due = 0
           refresh == Refreshed(f, key, golden)
           to_key == FramesToKey(key)
           due == IF golden THEN Interval(to_key) ELSE rc.frames_till_gf_update_due
           arf == is_altref_enabled /\ "alt" \in refresh /\ ~key
           counts == ~arf /\ ("golden" \in refresh \/ "alt" \notin refresh)
<1>1. rc' = UpdateRateControl(f, key, golden, refresh) /\ ArfSource = NULL
  BY DEF EncodeImage, EncodeFrame
<1>2. f.show = TRUE /\ "alt" \notin f.refresh
  BY DEF Defaults
<1>3. to_key \in 1 .. KeyFreq
  <2>1. KeyFreq \in Nat BY EncoderAssumptions
  <2>2. ~key => rc.frames_to_key # 0
    BY <1>2 DEF IsKey
  <2> HIDE DEF key
  <2> QED BY <2>1, <2>2 DEF FramesToKey, RateControlInv
<1>4. /\ rc'.frames_to_key = to_key - 1
      /\ rc'.frames_till_gf_update_due = IF counts /\ due > 0 THEN due - 1 ELSE due
      /\ rc'.source_alt_ref_pending = ((golden \/ StillPending) /\ ~arf)
  BY <1>1, <1>2 DEF UpdateRateControl
<1>5. due \in Nat /\ (golden => due > 0 /\ due <= to_key)
  <2> HIDE DEF to_key
  <2>1. Interval(to_key) \in 1 .. to_key
    BY <1>3, EncoderAssumptions DEF Interval
  <2> QED BY <1>3, <2>1, EncoderAssumptions DEF RateControlInv
<1>6. key => refresh = Refs
  BY DEF Refreshed
<1>7. ASSUME is_altref_enabled, (golden \/ StillPending) /\ ~arf
      PROVE  golden /\ counts
  <2>1. counts
    <3>1. CASE key
      BY <3>1, <1>6, <1>7 DEF Refs
    <3>2. CASE ~key
      BY <3>2, <1>7
    <3> QED BY <3>1, <3>2
  <2>2. golden
    <3>1. StillPending => arf_src_index = 0 /\ rc.source_alt_ref_pending
      BY DEF StillPending
    <3>2. StillPending => golden
      BY <3>1, <1>7 DEF arf_src_index
    <3> QED BY <3>2, <1>7
  <2> QED BY <2>1, <2>2
<1>8. /\ rc'.frames_to_key \in 0 .. KeyFreq
      /\ rc'.frames_till_gf_update_due \in Nat
  <2> HIDE DEF to_key, due, counts
  <2>1. rc'.frames_to_key \in 0 .. KeyFreq
    BY <1>3, <1>4, EncoderAssumptions
  <2>2. rc'.frames_till_gf_update_due \in Nat
    BY <1>4, <1>5
  <2> QED BY <2>1, <2>2
<1>9. rc'.source_alt_ref_pending \in BOOLEAN
  BY <1>4
<1>10. ASSUME is_altref_enabled, rc'.source_alt_ref_pending
       PROVE  rc'.frames_till_gf_update_due <= rc'.frames_to_key
  <2>1. golden /\ counts BY <1>4, <1>7, <1>10
  <2>2. due \in Nat /\ due > 0 /\ due <= to_key BY <1>5, <2>1
  <2> HIDE DEF to_key, due, counts, golden
  <2>3. rc'.frames_till_gf_update_due = due - 1 BY <1>4, <2>1, <2>2
  <2> QED BY <1>3, <1>4, <2>2, <2>3
<1>11. is_altref_enabled' = is_altref_enabled
  BY DEF is_altref_enabled
<1>12. RateControlRecord(rc')
  <2> HIDE DEF f, key, golden, refresh
  <2> QED BY <1>1 DEF UpdateRateControl, RateControlRecord
<1> QED BY <1>8, <1>9, <1>10, <1>11, <1>12 DEF RateControlInv

LEMMA RateControlStep ==
  ASSUME KeyFreq # 0
  PROVE  LookaheadInv /\ RateControlInv /\ [Next]_vars => RateControlInv'
<1> SUFFICES ASSUME LookaheadInv, RateControlInv, [Next]_vars
             PROVE  RateControlInv'
  OBVIOUS
<1>1. CASE SendImage
  BY <1>1 DEF SendImage, RateControlInv, is_altref_enabled
<1>2. CASE Flush
  BY <1>2 DEF Flush, encoder, RateControlInv, is_altref_enabled
<1>3. CASE EncodeArf
  BY <1>3, ArfStep DEF LookaheadInv
<1>4. CASE EncodeImage
  BY <1>4, ImageStep
<1>5. CASE Return
  <2>1. /\ rc'.frames_to_key = rc.frames_to_key
        /\ rc'.frames_till_gf_update_due = rc.frames_till_gf_update_due
        /\ rc'.source_alt_ref_pending = StillPending
        /\ RateControlRecord(rc')
    BY <1>5 DEF Return, RateControlInv, RateControlRecord
  <2>2. StillPending \in BOOLEAN /\ (StillPending => rc.source_alt_ref_pending)
    BY DEF StillPending, RateControlInv
  <2> QED BY <2>1, <2>2 DEF RateControlInv, is_altref_enabled
<1>6. CASE ReturnFull
  BY <1>6 DEF ReturnFull, encoder, RateControlInv, is_altref_enabled
<1>7. CASE UNCHANGED vars
  BY <1>7 DEF vars, encoder, RateControlInv, is_altref_enabled
<1> QED BY <1>1, <1>2, <1>3, <1>4, <1>5, <1>6, <1>7 DEF Next, Encode

LEMMA RateControlInvariant ==
  ASSUME KeyFreq # 0
  PROVE  Spec => [](LookaheadInv /\ OutputInv /\ RateControlInv)
<1>1. LookaheadInv /\ RateControlInv /\ [Next]_vars => RateControlInv'
  BY RateControlStep
<1> QED BY <1>1, LookaheadInvariant, RateControlInit, PTL DEF Spec

\* The assertion of vp9_get_compressed_data() holds whenever the rate control
\* has a key frame interval, for every length of the golden frame groups and
\* whatever updates and key frames the application forces.
THEOREM ArfIsBeforeKeyFrame ==
  ASSUME KeyFreq # 0
  PROVE  Spec => []ArfBeforeKeyFrame
<1>1. RateControlInv => ArfBeforeKeyFrame
  BY EncoderAssumptions DEF RateControlInv, ArfBeforeKeyFrame, arf_src_index
<1> QED BY <1>1, RateControlInvariant, PTL

-----------------------------------------------------------------------------
(* A hidden frame has its packet *)

\* While a hidden frame waits no other one is pending.
HiddenInv ==
  /\ pendingFrames # <<>> => /\ Len(pendingFrames) = 1
                             /\ sz > 0
                             /\ ~rc.source_alt_ref_pending
  /\ pendingFrames = <<>> => pending_cx_data_sz = 0

LEMMA HiddenStep ==
  ASSUME KeyFreq # 0
  PROVE  LookaheadInv /\ RateControlInv /\ HiddenInv /\ [Next]_vars => HiddenInv'
<1> SUFFICES ASSUME LookaheadInv, RateControlInv, HiddenInv, [Next]_vars
             PROVE  HiddenInv'
  OBVIOUS
<1>1. CASE SendImage
  <2>1. sz' = sz \/ sz' = sz + 1
    BY <1>1 DEF SendImage, Push, lookahead, LookaheadInv, LookaheadType, max_sz
  <2>2. /\ pendingFrames' = pendingFrames /\ rc' = rc
        /\ pending_cx_data_sz' = pending_cx_data_sz
    BY <1>1 DEF SendImage, Begin
  <2>3. sz \in Nat
    BY DepthType DEF LookaheadInv, LookaheadType, max_sz
  <2> QED BY <2>1, <2>2, <2>3 DEF HiddenInv
<1>2. CASE Flush
  BY <1>2 DEF Flush, Begin, lookahead, encoder, HiddenInv
<1>3. CASE EncodeArf
  <2>1. rc.source_alt_ref_pending /\ sz > 0 /\ ~rc'.source_alt_ref_pending
    BY <1>3, ArfStep DEF LookaheadInv
  <2>2. pendingFrames = <<>> BY <2>1 DEF HiddenInv
  <2>3. \E frame : pendingFrames' = Append(pendingFrames, frame)
    BY <1>3 DEF EncodeArf, EncodeFrame, Emit, Defaults
  <2>4. Len(pendingFrames') = 1 BY <2>2, <2>3
  <2>5. sz' = sz BY <1>3 DEF EncodeArf, lookahead
  <2> QED BY <2>1, <2>4, <2>5 DEF HiddenInv
<1>4. CASE EncodeImage
  <2>1. pendingFrames' = <<>> /\ pending_cx_data_sz' = 0
    BY <1>4 DEF EncodeImage, EncodeFrame, Emit, Write, Defaults
  <2> QED BY <2>1 DEF HiddenInv
<1>5. CASE Return
  <2>1. /\ sz' = sz /\ pendingFrames' = pendingFrames
        /\ pending_cx_data_sz' = pending_cx_data_sz
    BY <1>5 DEF Return, End, lookahead
  <2>2. rc'.source_alt_ref_pending = StillPending
    BY <1>5 DEF Return, RateControlInv, RateControlRecord
  <2>3. StillPending => rc.source_alt_ref_pending
    BY DEF StillPending
  <2> QED BY <2>1, <2>2, <2>3 DEF HiddenInv
<1>6. CASE ReturnFull
  BY <1>6 DEF ReturnFull, End, lookahead, encoder, HiddenInv
<1>7. CASE UNCHANGED vars
  BY <1>7 DEF vars, output, encoder, lookahead, HiddenInv
<1> QED BY <1>1, <1>2, <1>3, <1>4, <1>5, <1>6, <1>7 DEF Next, Encode

LEMMA HiddenInvariant ==
  ASSUME KeyFreq # 0
  PROVE  Spec => [](LookaheadInv /\ OutputInv /\ RateControlInv /\ HiddenInv)
<1>1. Init => HiddenInv
  BY DEF Init, HiddenInv
<1>2. LookaheadInv /\ RateControlInv /\ HiddenInv /\ [Next]_vars => HiddenInv'
  BY HiddenStep
<1> QED BY <1>1, <1>2, RateControlInvariant, PTL DEF Spec

\* A hidden frame that waits, over however many calls, has an image behind it
\* and no second hidden frame, for every lag, every forced flag and every size of
\* the frames; without one the next call has the whole output buffer.
THEOREM HiddenFramesHaveImages ==
  ASSUME KeyFreq # 0
  PROVE  Spec => []HiddenHasImage
<1>1. HiddenInv => HiddenHasImage
  BY DEF HiddenInv, HiddenHasImage
<1> QED BY <1>1, HiddenInvariant, PTL

\* A call without an image that gives no packet, and whose hidden frames leave
\* room to go on, has left nothing: one that ends because the output buffer is
\* full has a packet in it.
THEOREM FlushWithoutPacketIsComplete ==
  ASSUME KeyFreq # 0
  PROVE  Spec => FlushIsComplete
<1>1. /\ LookaheadInv /\ OutputInv /\ HiddenInv /\ [Next]_vars
      => (FlushReturns /\ ~pkt_list /\ ~Jammed => sz = 0 /\ pendingFrames = <<>>)
  <2> SUFFICES ASSUME LookaheadInv, OutputInv, HiddenInv, Next,
                      call = "flush", call' = "none", ~pkt_list, ~Jammed
               PROVE  sz = 0 /\ pendingFrames = <<>>
    BY DEF FlushReturns, vars, output
  <2>1. Return \/ ReturnFull
    BY DEF Next, Encode, SendImage, Flush, EncodeArf, EncodeImage
  <2>2. ~ReturnFull
    BY FullWithoutPacket
  <2>3. sz = 0
    BY <2>1, <2>2 DEF Return, MayPop
  <2> QED BY <2>3 DEF HiddenInv
<1> QED BY <1>1, HiddenInvariant, PTL DEF Spec, FlushIsComplete

-----------------------------------------------------------------------------
(* The references *)

\* How often b is counted: once for each slot, and once as the new buffer.
Holds(r, b) ==
  (IF r.map[0] = b THEN 1 ELSE 0) + (IF r.map[1] = b THEN 1 ELSE 0)
  + (IF r.map[2] = b THEN 1 ELSE 0)

RefsType(r) ==
  /\ r \in [idx : [Refs -> RefSlots],
            map : [RefSlots -> Bufs \cup {NULL}],
            ref_count : [Bufs -> Nat],
            pic : [Bufs -> Pictures],
            new : Bufs \cup {NULL}]
  \* last stays in slot 0; golden and alt share the other two.
  /\ r.idx["last"] = 0
  /\ \/ r.idx["golden"] = 1 /\ r.idx["alt"] = 2
     \/ r.idx["golden"] = 2 /\ r.idx["alt"] = 1

Counted(r) ==
  \A b \in Bufs : r.ref_count[b] = Holds(r, b) + IF r.new = b THEN 1 ELSE 0

\* Cardinality of a set of slots.
LEMMA SlotsCardinality ==
  ASSUME NEW T \in SUBSET RefSlots
  PROVE  Cardinality(T) = (IF 0 \in T THEN 1 ELSE 0) + (IF 1 \in T THEN 1 ELSE 0)
                          + (IF 2 \in T THEN 1 ELSE 0)
<1>1. IsFiniteSet(T)
  <2>1. 0 \in Int /\ 2 \in Int OBVIOUS
  <2>2. IsFiniteSet(0 .. 2) BY <2>1, FS_Interval
  <2> QED BY <2>2, FS_Subset DEF RefSlots
<1>2. /\ IsFiniteSet(T \ {0})
      /\ Cardinality(T \ {0}) = IF 0 \in T THEN Cardinality(T) - 1 ELSE Cardinality(T)
  BY <1>1, FS_RemoveElement
<1> DEFINE A == T \ {0}
           B == A \ {1}
           C == B \ {2}
<1>3. /\ IsFiniteSet(B)
      /\ Cardinality(B) = IF 1 \in A THEN Cardinality(A) - 1 ELSE Cardinality(A)
  BY <1>2, FS_RemoveElement
<1>4. Cardinality(C) = IF 2 \in B THEN Cardinality(B) - 1 ELSE Cardinality(B)
  BY <1>3, FS_RemoveElement
<1>5. C = {} BY DEF RefSlots
<1>6. Cardinality(C) = 0 BY <1>5, FS_EmptySet
<1>7. Cardinality(T) \in Nat /\ Cardinality(A) \in Nat /\ Cardinality(B) \in Nat
  BY <1>1, <1>2, <1>3, FS_CardinalityType
<1>8. (1 \in A <=> 1 \in T) /\ (2 \in B <=> 2 \in T)
  OBVIOUS
<1> QED
  <2> HIDE DEF A, B, C
  <2>1. Cardinality(A) = IF 0 \in T THEN Cardinality(T) - 1 ELSE Cardinality(T)
    BY <1>2 DEF A
  <2> QED BY <2>1, <1>3, <1>4, <1>6, <1>7, <1>8

\* The property's count is this one.
LEMMA HoldsIsCardinality ==
  ASSUME NEW r, NEW b
  PROVE  Cardinality({s \in RefSlots : r.map[s] = b}) = Holds(r, b)
<1> DEFINE T == {s \in RefSlots : r.map[s] = b}
<1>1. 0 \in RefSlots /\ 1 \in RefSlots /\ 2 \in RefSlots
  BY DEF RefSlots
<1>2. /\ 0 \in T <=> r.map[0] = b
      /\ 1 \in T <=> r.map[1] = b
      /\ 2 \in T <=> r.map[2] = b
  BY <1>1
<1>3. T \in SUBSET RefSlots
  OBVIOUS
<1> HIDE DEF T
<1>4. Cardinality(T) = Holds(r, b)
  BY <1>2, <1>3, SlotsCardinality DEF Holds
<1> QED BY <1>4 DEF T

\* vp9_get_compressed_data() releases the last frame's buffer and finds a free
\* one, whose picture none of the references shows: three slots cannot hold
\* four buffers.
LEMMA NewBuffer ==
  ASSUME NEW r, RefsType(r), Counted(r), NEW picture \in Pictures,
         NEW n, n = GetFreeFb(ReleaseNew(r), picture)
  PROVE  /\ RefsType(n) /\ Counted(n)
         /\ n.new \in Bufs
         /\ n.map = r.map /\ n.idx = r.idx
         /\ \A s \in RefSlots : r.map[s] # n.new
         /\ n.pic[n.new] = picture
         /\ \A b \in Bufs : b # n.new => n.pic[b] = r.pic[b]
<1>1. PICK q : q = ReleaseNew(r)
  OBVIOUS
<1>2. /\ q.map = r.map /\ q.idx = r.idx /\ q.pic = r.pic
      /\ \A b \in Bufs : q.ref_count[b] = Holds(r, b)
      /\ q \in [idx : [Refs -> RefSlots],
               map : [RefSlots -> Bufs \cup {NULL}],
               ref_count : [Bufs -> Nat],
               pic : [Bufs -> Pictures],
               new : Bufs \cup {NULL}]
  <2>0. NULL \notin Bufs
    BY DEF NULL, Bufs
  <2>1. CASE r.new = NULL
    <3>1. q = r BY <1>1, <2>1 DEF ReleaseNew
    <3>2. \A b \in Bufs : r.new # b BY <2>0, <2>1
    <3>3. \A b \in Bufs : Holds(r, b) + 0 = Holds(r, b) BY DEF Holds
    <3> QED BY <3>1, <3>2, <3>3 DEF RefsType, Counted
  <2>2. CASE r.new # NULL
    <3>1. q = [r EXCEPT !.ref_count = [r.ref_count EXCEPT ![r.new] = @ - 1]]
      BY <1>1, <2>2 DEF ReleaseNew
    <3>2. r.new \in Bufs BY <2>2 DEF RefsType
    <3>3. \A b \in Bufs : Holds(r, b) \in Nat BY DEF Holds
    <3>4. \A b \in Bufs : q.ref_count[b] = Holds(r, b)
      BY <3>1, <3>2, <3>3 DEF RefsType, Counted
    <3>5. q.ref_count \in [Bufs -> Nat]
      <4>1. DOMAIN q.ref_count = Bufs BY <3>1 DEF RefsType
      <4>2. q.ref_count = [b \in Bufs |-> q.ref_count[b]] BY <3>1 DEF RefsType
      <4> QED BY <3>3, <3>4, <4>2
    <3> QED BY <3>1, <3>4, <3>5 DEF RefsType
  <2> QED BY <2>1, <2>2
<1> DEFINE free == {c \in Bufs : q.ref_count[c] = 0}
           b == Least(free)
<1>3. 0 \in Bufs /\ 1 \in Bufs /\ 2 \in Bufs /\ 3 \in Bufs
  BY EncoderAssumptions DEF Bufs
<1>4. 0 \in free \/ 1 \in free \/ 2 \in free \/ 3 \in free
  BY <1>2, <1>3 DEF Holds
<1>5. b \in free
  <2>1. free \in SUBSET Nat BY DEF Bufs
  <2>2. \E x \in free : \A y \in free : x <= y
    <3> HIDE DEF free
    <3>1. CASE 0 \in free BY <3>1, <2>1
    <3>2. CASE 0 \notin free /\ 1 \in free BY <3>2, <2>1
    <3>3. CASE 0 \notin free /\ 1 \notin free /\ 2 \in free BY <3>3, <2>1
    <3>4. CASE 0 \notin free /\ 1 \notin free /\ 2 \notin free /\ 3 \in free
      BY <3>4, <2>1
    <3> QED BY <1>4, <3>1, <3>2, <3>3, <3>4
  <2> HIDE DEF free
  <2> QED BY <2>2 DEF Least
<1> HIDE DEF b
<1>6. b \in Bufs /\ Holds(r, b) = 0
  BY <1>2, <1>5
<1>7. n = [q EXCEPT !.ref_count[b] = 1, !.pic[b] = picture, !.new = b]
  BY <1>1 DEF GetFreeFb, b
<1>8. /\ n.map = r.map /\ n.idx = r.idx /\ n.new = b
      /\ n.ref_count = [q.ref_count EXCEPT ![b] = 1]
      /\ n.pic = [q.pic EXCEPT ![b] = picture]
  BY <1>2, <1>7
<1>9. \A s \in RefSlots : r.map[s] # b
  BY <1>6 DEF Holds, RefSlots
<1>10. RefsType(n)
  <2>1. n.ref_count \in [Bufs -> Nat] /\ n.pic \in [Bufs -> Pictures]
    BY <1>2, <1>6, <1>8
  <2> QED BY <1>2, <1>6, <1>7, <1>8, <2>1 DEF RefsType
<1>11. Counted(n)
  <2>1. \A c \in Bufs : Holds(n, c) = Holds(r, c)
    BY <1>8 DEF Holds
  <2>2. \A c \in Bufs : n.ref_count[c] = IF c = b THEN 1 ELSE Holds(r, c)
    BY <1>2, <1>6, <1>8
  <2>3. \A c \in Bufs : Holds(r, c) + 0 = Holds(r, c)
    BY DEF Holds
  <2> QED BY <1>6, <1>8, <2>1, <2>2, <2>3 DEF Counted
<1> QED BY <1>2, <1>6, <1>8, <1>9, <1>10, <1>11

\* ref_cnt_fb() for some slots: they become the new buffer, and the counts are
\* those of the slots again.
LEMMA RefCntFbCounts ==
  ASSUME NEW r, RefsType(r), Counted(r), r.new \in Bufs,
         \A s \in RefSlots : r.map[s] # r.new,
         NEW slots \in SUBSET RefSlots,
         NEW q, q = RefCntFb(r, slots)
  PROVE  /\ RefsType(q) /\ Counted(q)
         /\ q.idx = r.idx /\ q.pic = r.pic /\ q.new = r.new
         /\ \A s \in RefSlots : q.map[s] = IF s \in slots THEN r.new ELSE r.map[s]
<1> DEFINE Map == [s \in RefSlots |-> IF s \in slots THEN r.new ELSE r.map[s]]
           Left(b) == {s \in slots : r.map[s] = b}
           Count == [b \in Bufs |->
                       r.ref_count[b] - Cardinality(Left(b))
                       + IF b = r.new THEN Cardinality(slots) ELSE 0]
<1>1. q = [r EXCEPT !.map = Map, !.ref_count = Count]
  BY DEF RefCntFb
<1>2. /\ q.idx = r.idx /\ q.pic = r.pic /\ q.new = r.new
      /\ q.map = Map /\ q.ref_count = Count
  BY <1>1 DEF RefsType
<1>3. \A s \in RefSlots : q.map[s] = IF s \in slots THEN r.new ELSE r.map[s]
  BY <1>2
<1>4. 0 \in RefSlots /\ 1 \in RefSlots /\ 2 \in RefSlots
  BY DEF RefSlots
<1>5. \A b \in Bufs : q.ref_count[b] = Holds(q, b) + IF q.new = b THEN 1 ELSE 0
  <2> TAKE b \in Bufs
  <2>1. Cardinality(Left(b)) = (IF 0 \in Left(b) THEN 1 ELSE 0)
          + (IF 1 \in Left(b) THEN 1 ELSE 0) + (IF 2 \in Left(b) THEN 1 ELSE 0)
    <3>1. Left(b) \in SUBSET RefSlots OBVIOUS
    <3> HIDE DEF Left
    <3> QED BY <3>1, SlotsCardinality
  <2>2. Cardinality(slots) = (IF 0 \in slots THEN 1 ELSE 0)
          + (IF 1 \in slots THEN 1 ELSE 0) + (IF 2 \in slots THEN 1 ELSE 0)
    BY SlotsCardinality
  <2>3. /\ 0 \in Left(b) <=> 0 \in slots /\ r.map[0] = b
        /\ 1 \in Left(b) <=> 1 \in slots /\ r.map[1] = b
        /\ 2 \in Left(b) <=> 2 \in slots /\ r.map[2] = b
    OBVIOUS
  <2>4. q.ref_count[b] = r.ref_count[b] - Cardinality(Left(b))
                         + IF b = r.new THEN Cardinality(slots) ELSE 0
    BY <1>2
  <2>5. r.ref_count[b] = Holds(r, b) + IF r.new = b THEN 1 ELSE 0
    BY DEF Counted
  <2>6. /\ q.map[0] = IF 0 \in slots THEN r.new ELSE r.map[0]
        /\ q.map[1] = IF 1 \in slots THEN r.new ELSE r.map[1]
        /\ q.map[2] = IF 2 \in slots THEN r.new ELSE r.map[2]
    BY <1>3, <1>4
  <2>7. r.map[0] # r.new /\ r.map[1] # r.new /\ r.map[2] # r.new
    BY <1>4
  <2> HIDE DEF Left
  <2>8. CASE b = r.new
    BY <2>1, <2>2, <2>3, <2>4, <2>5, <2>6, <2>7, <2>8, <1>2 DEF Holds
  <2>9. CASE b # r.new
    BY <2>1, <2>3, <2>4, <2>5, <2>6, <2>9, <1>2 DEF Holds
  <2> QED BY <2>8, <2>9
<1>6. RefsType(q)
  <2>1. Map \in [RefSlots -> Bufs \cup {NULL}]
    BY DEF RefsType
  <2>2. \A b \in Bufs : q.ref_count[b] \in Nat
    <3>1. \A b \in Bufs : Holds(q, b) \in Nat BY DEF Holds
    <3> QED BY <1>5, <3>1
  <2>3. q.ref_count \in [Bufs -> Nat]
    <3>1. Count = [b \in Bufs |-> Count[b]] OBVIOUS
    <3> HIDE DEF Count
    <3> QED BY <1>2, <2>2, <3>1
  <2> HIDE DEF Map, Count
  <2> QED BY <1>1, <1>2, <2>1, <2>3 DEF RefsType
<1> QED BY <1>2, <1>3, <1>5, <1>6 DEF Counted

\* The slots whose picture a frame replaces.
Replaced(key, overlay, refresh) ==
  IF key THEN RefSlots ELSE RefreshMask(overlay, refresh)

\* vp9_update_reference_frames(): the slots that the decoder is told to refresh
\* are those that become the new picture, also when golden and alternate
\* reference change places.
LEMMA UpdateReplaces ==
  ASSUME NEW r, RefsType(r), Counted(r), r.new \in Bufs,
         \A s \in RefSlots : r.map[s] # r.new, r.idx = refs.idx,
         NEW key \in BOOLEAN, NEW overlay \in BOOLEAN, NEW refresh \in SUBSET Refs,
         key => refresh = Refs,
         NEW q, q = UpdateReferenceFrames(r, key, overlay, refresh)
  PROVE  /\ RefsType(q) /\ Counted(q)
         /\ q.pic = r.pic /\ q.new = r.new
         /\ Replaced(key, overlay, refresh) \in SUBSET RefSlots
         /\ \A s \in RefSlots :
              q.map[s] = IF s \in Replaced(key, overlay, refresh)
                         THEN r.new ELSE r.map[s]
<1> DEFINE slots == Replaced(key, overlay, refresh)
           swap == ~key /\ PreserveExistingGf(overlay, refresh)
<1>1. slots \in SUBSET RefSlots
  BY DEF Replaced, RefreshMask, RefsType, Refs, RefSlots
<1>2. CASE swap
  <2>1. slots = {refs.idx[x] : x \in {"alt"} \cup (refresh \cap {"last"})}
    BY <1>2 DEF Replaced, RefreshMask
  <2>2. PICK p : p = RefCntFb(r, slots)
    OBVIOUS
  <2>3. q = [p EXCEPT !.idx["golden"] = refs.idx["alt"],
                      !.idx["alt"] = refs.idx["golden"]]
    BY <1>2, <2>1, <2>2 DEF UpdateReferenceFrames
  <2>4. /\ RefsType(p) /\ Counted(p)
        /\ p.idx = r.idx /\ p.pic = r.pic /\ p.new = r.new
        /\ \A s \in RefSlots : p.map[s] = IF s \in slots THEN r.new ELSE r.map[s]
    BY <1>1, <2>2, RefCntFbCounts
  <2>5. /\ q.map = p.map /\ q.ref_count = p.ref_count /\ q.pic = p.pic
        /\ q.new = p.new
        /\ q.idx = [p.idx EXCEPT !["golden"] = refs.idx["alt"],
                                !["alt"] = refs.idx["golden"]]
    BY <2>3, <2>4 DEF RefsType
  <2>6. /\ q.idx \in [Refs -> RefSlots]
        /\ q.idx["last"] = 0
        /\ q.idx["golden"] = p.idx["alt"] /\ q.idx["alt"] = p.idx["golden"]
    BY <2>4, <2>5 DEF RefsType, Refs
  <2>7. RefsType(q)
    <3>1. q = [p EXCEPT !.idx = q.idx]
      BY <2>3, <2>4 DEF RefsType
    <3>2. PICK idx : idx = q.idx
      OBVIOUS
    <3>3. q = [p EXCEPT !.idx = idx] /\ idx \in [Refs -> RefSlots]
      BY <3>1, <3>2, <2>6
    <3>4. q \in [idx : [Refs -> RefSlots],
                map : [RefSlots -> Bufs \cup {NULL}],
                ref_count : [Bufs -> Nat],
                pic : [Bufs -> Pictures],
                new : Bufs \cup {NULL}]
      BY <3>3, <2>4 DEF RefsType
    <3>5. \/ q.idx["golden"] = 1 /\ q.idx["alt"] = 2
          \/ q.idx["golden"] = 2 /\ q.idx["alt"] = 1
      <4>1. \/ p.idx["golden"] = 1 /\ p.idx["alt"] = 2
            \/ p.idx["golden"] = 2 /\ p.idx["alt"] = 1
        BY <2>4 DEF RefsType
      <4> QED BY <4>1, <2>6
    <3> QED BY <3>4, <3>5, <2>6 DEF RefsType
  <2>8. Counted(q)
    BY <2>4, <2>5 DEF Counted, Holds
  <2> QED BY <1>1, <2>4, <2>5, <2>7, <2>8
<1>3. CASE ~swap
  <2>1. slots = {refs.idx[x] : x \in refresh}
    <3>1. CASE key
      <4>1. {refs.idx[x] : x \in Refs} = RefSlots
        BY DEF RefsType, Refs, RefSlots
      <4> QED BY <3>1, <4>1 DEF Replaced
    <3>2. CASE ~key
      BY <1>3, <3>2 DEF Replaced, RefreshMask
    <3> QED BY <3>1, <3>2
  <2>2. q = RefCntFb(r, slots)
    BY <1>3, <2>1 DEF UpdateReferenceFrames
  <2> QED BY <1>1, <2>2, RefCntFbCounts
<1> QED BY <1>2, <1>3

\* What a packet says of a frame to the decoder.
Frames == [key : BOOLEAN, mask : SUBSET RefSlots, pic : Pictures]

\* A decoder's references after one frame more.
After1(map, fr) ==
  [s \in RefSlots |-> IF fr.key \/ s \in fr.mask THEN fr.pic ELSE map[s]]

LEMMA DecodeNothing ==
  ASSUME NEW map \in [RefSlots -> Pictures]
  PROVE  Decode(map, <<>>) = map
  BY DEF Decode

LEMMA DecodeAppend ==
  ASSUME NEW map, NEW frames \in Seq(Frames), Len(frames) <= 1, NEW fr \in Frames
  PROVE  Decode(map, Append(frames, fr)) = After1(Decode(map, frames), fr)
<1> DEFINE n == Len(frames)
           more == Append(frames, fr)
           Hit(fs, s) == {i \in DOMAIN fs : fs[i].key \/ s \in fs[i].mask}
           Last(h) == CHOOSE i \in h : \A j \in h : j <= i
<1>1. n \in Nat /\ DOMAIN frames = 1 .. n
  BY LenProperties
<1>2. /\ DOMAIN more = 1 .. n + 1
      /\ \A i \in 1 .. n : more[i] = frames[i]
      /\ more[n + 1] = fr
  <2>1. /\ more \in Seq(Frames) /\ Len(more) = n + 1
        /\ \A i \in 1 .. n : more[i] = frames[i]
        /\ more[n + 1] = fr
    BY AppendProperties
  <2> QED BY <2>1, LenProperties
<1> HIDE DEF n, more
<1>3. \A s \in RefSlots :
        (IF Hit(more, s) = {} THEN map[s] ELSE more[Last(Hit(more, s))].pic)
        = IF fr.key \/ s \in fr.mask THEN fr.pic
          ELSE IF Hit(frames, s) = {} THEN map[s] ELSE frames[Last(Hit(frames, s))].pic
  <2> TAKE s \in RefSlots
  <2>1. CASE fr.key \/ s \in fr.mask
    <3>1. n + 1 \in Hit(more, s) /\ Hit(more, s) \in SUBSET (1 .. n + 1)
      BY <1>1, <1>2, <2>1
    <3> HIDE DEF Hit
    <3>2. Last(Hit(more, s)) = n + 1
      BY <1>1, <3>1
    <3> QED BY <1>2, <2>1, <3>1, <3>2
  <2>2. CASE ~(fr.key \/ s \in fr.mask)
    <3>1. Hit(more, s) = Hit(frames, s)
      <4>1. Hit(more, s) \in SUBSET (1 .. n)
        BY <1>1, <1>2, <2>2
      <4> QED BY <1>1, <1>2, <4>1
    <3>2. Hit(frames, s) \in SUBSET {1}
      BY <1>1 DEF n
    <3>3. CASE Hit(frames, s) = {}
      BY <2>2, <3>1, <3>3
    <3>4. CASE Hit(frames, s) # {}
      <4>1. Hit(frames, s) = {1} BY <3>2, <3>4
      <4>2. 1 \in 1 .. n BY <4>1, <1>1
      <4>3. Last(Hit(frames, s)) = 1
        <5> HIDE DEF Hit
        <5> QED BY <4>1
      <4>4. more[1] = frames[1] BY <1>2, <4>2
      <4> HIDE DEF Hit, Last
      <4> QED BY <2>2, <3>1, <3>4, <4>3, <4>4
    <3> QED BY <3>3, <3>4
  <2> QED BY <2>1, <2>2
<1>4. Decode(map, more) =
        [s \in RefSlots |-> IF Hit(more, s) = {} THEN map[s]
                            ELSE more[Last(Hit(more, s))].pic]
  BY DEF Decode
<1>5. Decode(map, frames) =
        [s \in RefSlots |-> IF Hit(frames, s) = {} THEN map[s]
                            ELSE frames[Last(Hit(frames, s))].pic]
  BY DEF Decode
<1>6. \A s \in RefSlots :
        Decode(map, frames)[s] = IF Hit(frames, s) = {} THEN map[s]
                                 ELSE frames[Last(Hit(frames, s))].pic
  BY <1>5
<1> HIDE DEF Hit, Last
<1> QED BY <1>3, <1>4, <1>6 DEF After1, more

\* The pictures of the slots, and what the decoder will have in them.
Shown == [s \in RefSlots |-> refs.pic[refs.map[s]]]

RefsInv ==
  /\ RefsType(refs)
  /\ Counted(refs)
  /\ pendingFrames \in Seq(Frames)
  /\ decoded \in [RefSlots -> Pictures]
  /\ ext \in {{}} \cup {{s} : s \in SUBSET Refs}
  /\ alt_ref_source \in Indexes \cup {NULL}
  /\ ~started => ~rc.source_alt_ref_pending
  /\ started => /\ \A s \in RefSlots : refs.map[s] \in Bufs
                /\ Decode(decoded, pendingFrames) = Shown

\* Whatever a frame refreshes, the decoder follows.
LEMMA EncodeFrameAgrees ==
  ASSUME LookaheadInv, HiddenInv, RefsInv,
         NEW f, f.entry \in Indexes, f.show \in BOOLEAN, f.overlay \in BOOLEAN,
         f.refresh \in SUBSET Refs, ~started => IsKey(f),
         EncodeFrame(f)
  PROVE  /\ RefsType(refs') /\ Counted(refs')
         /\ pendingFrames' \in Seq(Frames)
         /\ decoded' \in [RefSlots -> Pictures]
         /\ ext' = {}
         /\ \A s \in RefSlots : refs'.map[s] \in Bufs
         /\ Decode(decoded', pendingFrames') = Shown'
<1>1. PICK key \in BOOLEAN : key = IsKey(f)
  BY DEF IsKey
<1>2. PICK refresh : refresh = Refreshed(f, key, rc.frames_till_gf_update_due = 0)
  OBVIOUS
<1>3. PICK picture :
        picture = IF f.show THEN buf[f.entry].image ELSE -buf[f.entry].image
  OBVIOUS
<1>4. PICK r : r = GetFreeFb(ReleaseNew(refs), picture)
  OBVIOUS
<1>5. PICK fr : fr = [key |-> key, mask |-> RefreshMask(f.overlay, refresh),
                      pic |-> picture]
  OBVIOUS
<1>6. /\ refs' = UpdateReferenceFrames(r, key, f.overlay, refresh)
      /\ Emit(fr, f.show)
      /\ ext' = {}
  BY <1>1, <1>2, <1>3, <1>4, <1>5 DEF EncodeFrame
<1>7. refresh \in SUBSET Refs /\ (key => refresh = Refs)
  <2>1. UNION ext \in SUBSET Refs
    BY DEF RefsInv
  <2> QED BY <1>2, <2>1 DEF Refreshed, Refs
<1>8. picture \in Pictures
  <2>1. buf[f.entry].image \in 1 .. MaxImages
    BY DEF LookaheadInv, LookaheadType, Images
  <2> QED BY <1>3, <2>1, MaxImagesAssumption DEF Pictures
<1>9. /\ RefsType(r) /\ Counted(r) /\ r.new \in Bufs
      /\ r.map = refs.map /\ r.idx = refs.idx
      /\ \A s \in RefSlots : r.map[s] # r.new
      /\ r.pic[r.new] = picture
      /\ \A b \in Bufs : b # r.new => r.pic[b] = refs.pic[b]
  <2>1. RefsType(refs) /\ Counted(refs) BY DEF RefsInv
  <2> QED BY <1>4, <1>8, <2>1, NewBuffer
<1> DEFINE slots == Replaced(key, f.overlay, refresh)
<1>10. /\ RefsType(refs') /\ Counted(refs')
       /\ refs'.pic = r.pic /\ refs'.new = r.new
       /\ slots \in SUBSET RefSlots
       /\ \A s \in RefSlots :
            refs'.map[s] = IF s \in slots THEN r.new ELSE r.map[s]
  BY <1>6, <1>7, <1>9, UpdateReplaces
<1>11. ASSUME ~started
       PROVE  slots = RefSlots
  BY <1>1, <1>11 DEF Replaced
<1>12. \A s \in RefSlots : refs'.map[s] \in Bufs
  BY <1>9, <1>10, <1>11 DEF RefsInv
<1>13. fr \in Frames
  <2>1. RefreshMask(f.overlay, refresh) \in SUBSET RefSlots
    <3>1. refs.idx \in [Refs -> RefSlots] BY DEF RefsInv, RefsType
    <3> QED BY <1>7, <3>1 DEF RefreshMask, Refs
  <2> QED BY <1>5, <1>8, <2>1 DEF Frames
<1>14. pendingFrames \in Seq(Frames) /\ Len(pendingFrames) <= 1
  <2>1. pendingFrames \in Seq(Frames) BY DEF RefsInv
  <2>2. CASE pendingFrames = <<>>
    <3>1. Len(pendingFrames) = 0 BY <2>2
    <3> QED BY <2>1, <3>1
  <2>3. CASE pendingFrames # <<>>
    <3>1. Len(pendingFrames) = 1 BY <2>3 DEF HiddenInv
    <3> QED BY <2>1, <3>1
  <2> QED BY <2>2, <2>3
<1> DEFINE before == Decode(decoded, pendingFrames)
<1>15. Decode(decoded, Append(pendingFrames, fr)) = After1(before, fr)
  BY <1>13, <1>14, DecodeAppend
<1>16. After1(before, fr) = Shown'
  <2>1. \A s \in RefSlots :
          (IF fr.key \/ s \in fr.mask THEN fr.pic ELSE before[s])
          = refs'.pic[refs'.map[s]]
    <3> TAKE s \in RefSlots
    <3>1. (fr.key \/ s \in fr.mask) <=> s \in slots
      BY <1>5 DEF Replaced
    <3>2. CASE s \in slots
      BY <3>1, <3>2, <1>5, <1>9, <1>10
    <3>3. CASE s \notin slots
      <4>1. started BY <1>11, <3>3
      <4>2. before[s] = refs.pic[refs.map[s]] BY <4>1 DEF RefsInv, Shown
      <4>3. refs.map[s] \in Bufs BY <4>1 DEF RefsInv
      <4>4. refs'.pic[refs'.map[s]] = r.pic[refs.map[s]] BY <3>3, <1>9, <1>10
      <4> HIDE DEF before, slots
      <4> QED BY <3>1, <3>3, <4>2, <4>3, <4>4, <1>9
    <3> QED BY <3>2, <3>3
  <2> HIDE DEF before
  <2> QED BY <2>1 DEF After1, Shown
<1>17. Shown' \in [RefSlots -> Pictures]
  BY <1>10, <1>12 DEF RefsType, Shown
<1>18. CASE f.show
  <2>1. decoded' = Shown' /\ pendingFrames' = <<>>
    BY <1>6, <1>15, <1>16, <1>18 DEF Emit
  <2>2. Decode(decoded', <<>>) = decoded'
    BY <1>17, <2>1, DecodeNothing
  <2>3. <<>> \in Seq(Frames) BY EmptySeq
  <2> QED BY <1>6, <1>10, <1>12, <1>17, <2>1, <2>2, <2>3
<1>19. CASE ~f.show
  <2>1. decoded' = decoded /\ pendingFrames' = Append(pendingFrames, fr)
    BY <1>6, <1>19 DEF Emit
  <2>2. pendingFrames' \in Seq(Frames)
    BY <1>13, <1>14, <2>1, AppendProperties
  <2> QED BY <1>6, <1>10, <1>12, <1>15, <1>16, <2>1, <2>2 DEF RefsInv
<1> QED BY <1>18, <1>19

LEMMA RefsStep ==
  ASSUME KeyFreq # 0
  PROVE  /\ LookaheadInv /\ RateControlInv /\ HiddenInv /\ RefsInv /\ [Next]_vars
         => RefsInv'
<1> SUFFICES ASSUME LookaheadInv, RateControlInv, HiddenInv, RefsInv, [Next]_vars
             PROVE  RefsInv'
  OBVIOUS
<1>0. Indexes' = Indexes
  BY DEF Indexes, max_sz
<1>1. CASE SendImage
  <2>1. PICK upd \in {{}} \cup {{u} : u \in ForcedUpdates} :
          ext' = IF upd = {} THEN ext ELSE upd
    BY <1>1 DEF SendImage
  <2>2. ext' \in {{}} \cup {{s} : s \in SUBSET Refs}
    BY <2>1, EncoderAssumptions DEF RefsInv
  <2> QED BY <1>0, <1>1, <2>2 DEF SendImage, RefsInv, Shown
<1>2. CASE Flush
  BY <1>0, <1>2 DEF Flush, encoder, RefsInv, Shown
<1>3. CASE EncodeArf
  <2> DEFINE f == Defaults(ArfSource, FALSE)
  <2>1. /\ EncodeFrame(f)
        /\ alt_ref_source' = ArfSource /\ started' = started
        /\ ArfSource # NULL
    BY <1>3 DEF EncodeArf
  <2>2. /\ rc.source_alt_ref_pending /\ ~rc'.source_alt_ref_pending
    BY <1>3, ArfStep DEF LookaheadInv
  <2>3. started BY <2>2 DEF RefsInv
  <2>4. ArfSource \in Indexes
    <3>1. ArfSource = Peek(arf_src_index) BY <2>1 DEF ArfSource
    <3>2. arf_src_index \in Nat BY DEF arf_src_index, RateControlInv
    <3> QED BY <2>1, <3>1, <3>2, DepthType
      DEF Peek, LookaheadInv, LookaheadType, Indexes, max_sz, MAX_PRE_FRAMES
  <2>5. /\ f.entry = ArfSource /\ f.show = FALSE /\ f.overlay = FALSE
        /\ f.refresh \in SUBSET Refs
    BY DEF Defaults, Refs
  <2>6. /\ RefsType(refs') /\ Counted(refs')
        /\ pendingFrames' \in Seq(Frames)
        /\ decoded' \in [RefSlots -> Pictures]
        /\ ext' = {}
        /\ \A s \in RefSlots : refs'.map[s] \in Bufs
        /\ Decode(decoded', pendingFrames') = Shown'
    <3> HIDE DEF f
    <3> QED BY <2>1, <2>3, <2>4, <2>5, EncodeFrameAgrees
  <2> QED BY <1>0, <2>1, <2>2, <2>4, <2>6 DEF RefsInv
<1>4. CASE EncodeImage
  <2> DEFINE f == Defaults(read_idx, TRUE)
  <2>1. /\ EncodeFrame(f)
        /\ alt_ref_source' \in {NULL, alt_ref_source} /\ started' = TRUE
    BY <1>4 DEF EncodeImage
  <2>2. /\ f.entry = read_idx /\ f.show = TRUE
        /\ f.overlay = (alt_ref_source # NULL /\ read_idx = alt_ref_source)
        /\ f.refresh \in SUBSET Refs /\ "alt" \notin f.refresh
    BY DEF Defaults, Refs
  <2>3. read_idx \in Indexes
    BY DEF LookaheadInv, LookaheadType
  <2>4. ~started => IsKey(f)
    BY <2>2 DEF IsKey
  <2>5. f.overlay \in BOOLEAN
    BY <2>2
  <2>6. /\ RefsType(refs') /\ Counted(refs')
        /\ pendingFrames' \in Seq(Frames)
        /\ decoded' \in [RefSlots -> Pictures]
        /\ ext' = {}
        /\ \A s \in RefSlots : refs'.map[s] \in Bufs
        /\ Decode(decoded', pendingFrames') = Shown'
    <3> HIDE DEF f
    <3> QED BY <2>1, <2>2, <2>3, <2>4, <2>5, EncodeFrameAgrees
  <2>7. alt_ref_source' \in Indexes \cup {NULL}
    BY <2>1 DEF RefsInv
  <2> QED BY <1>0, <2>1, <2>6, <2>7 DEF RefsInv
<1>5. CASE Return
  <2>1. /\ refs' = refs /\ pendingFrames' = pendingFrames /\ decoded' = decoded
        /\ ext' = ext /\ alt_ref_source' = alt_ref_source /\ started' = started
    BY <1>5 DEF Return
  <2>2. rc'.source_alt_ref_pending = StillPending
    BY <1>5 DEF Return, RateControlInv, RateControlRecord
  <2>3. StillPending => rc.source_alt_ref_pending
    BY DEF StillPending
  <2> QED BY <1>0, <2>1, <2>2, <2>3 DEF RefsInv, Shown
<1>6. CASE ReturnFull
  BY <1>0, <1>6 DEF ReturnFull, encoder, RefsInv, Shown
<1>7. CASE UNCHANGED vars
  BY <1>0, <1>7 DEF vars, encoder, RefsInv, Shown
<1> QED BY <1>1, <1>2, <1>3, <1>4, <1>5, <1>6, <1>7 DEF Next, Encode

LEMMA RefsInit == Init => RefsInv
<1> SUFFICES ASSUME Init PROVE RefsInv
  OBVIOUS
<1>1. 0 \in Pictures
  BY MaxImagesAssumption DEF Pictures
<1>2. \A b \in Bufs : NULL # b
  BY DEF Bufs, NULL
<1>3. RefsType(refs)
  BY <1>1 DEF Init, RefsType, Refs, RefSlots
<1>4. Counted(refs)
  BY <1>2 DEF Init, Counted, Holds, RefSlots
<1>5. pendingFrames \in Seq(Frames)
  BY EmptySeq DEF Init
<1> QED BY <1>1, <1>3, <1>4, <1>5 DEF Init, RefsInv

IInv == LookaheadInv /\ OutputInv /\ RateControlInv /\ HiddenInv /\ RefsInv

LEMMA Invariant ==
  ASSUME KeyFreq # 0
  PROVE  Spec => []IInv
<1>1. RefsInv /\ LookaheadInv /\ RateControlInv /\ HiddenInv /\ [Next]_vars => RefsInv'
  BY RefsStep
<1> QED BY <1>1, RefsInit, HiddenInvariant, PTL DEF Spec, IInv

\* The model's types, for every value of the constants: buffers are found, and
\* indexes stay in the ring.
THEOREM TypeCorrect ==
  ASSUME KeyFreq # 0
  PROVE  Spec => []TypeOK
<1>1. IInv => TypeOK
  <2> SUFFICES ASSUME IInv PROVE TypeOK
    OBVIOUS
  <2>1. rc \in [frames_to_key : -MaxImages .. KeyFreq,
                frames_till_gf_update_due : Int,
                source_alt_ref_pending : BOOLEAN]
    BY MaxImagesAssumption, EncoderAssumptions
    DEF IInv, RateControlInv, RateControlRecord
  <2> QED BY <2>1 DEF IInv, LookaheadInv, OutputInv, RefsInv, RefsType, TypeOK
<1> QED BY <1>1, Invariant, PTL

\* Four buffers are enough for three references and the new frame: every count
\* is exact, for a pool of any size from four on.
THEOREM CountsAreExact ==
  ASSUME KeyFreq # 0
  PROVE  Spec => []RefCountsExact
<1>1. IInv => RefCountsExact
  BY HoldsIsCardinality DEF IInv, RefsInv, Counted, RefCountsExact
<1> QED BY <1>1, Invariant, PTL

\* The decoder of the packets has the encoder's references, whatever the
\* application forces to be refreshed, and whenever golden and alternate
\* reference are exchanged.
THEOREM DecoderFollows ==
  ASSUME KeyFreq # 0
  PROVE  Spec => []DecoderAgrees
<1>1. IInv => DecoderAgrees
  BY DEF IInv, RefsInv, Shown, DecoderAgrees
<1> QED BY <1>1, Invariant, PTL
=============================================================================
