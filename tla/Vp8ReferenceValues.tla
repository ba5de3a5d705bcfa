------------------------ MODULE Vp8ReferenceValues ------------------------
(***************************************************************************)
(* What the references of VP8 promise: an encoder and a decoder each hold  *)
(* three pictures, and a frame says of each where its next picture comes   *)
(* from.  It knows nothing of frame buffers, their counts or their flags.  *)
(***************************************************************************)
EXTENDS Naturals

CONSTANT MaxPictures  \* bound of the model: pictures made in a behaviour

Refs == {"last", "golden", "alt"}
Garbage == 0
Pictures == 0 .. MaxPictures

VARIABLES
  enc, dec,  \* the picture every reference holds
  packet,    \* the frame on its way: what it says, and what it was made of
  astray     \* the references in which losses or damage may show

vars == <<enc, dec, packet, astray>>

\* Where a reference's next picture comes from: a reference or the new one.
Source(f, r) ==
  IF r \in f.refresh THEN "new"
  ELSE IF r = "alt" /\ f.copy_arf # "none" THEN f.copy_arf
  ELSE r

Updated(pics, f, new) ==
  [r \in Refs |-> IF Source(f, r) = "new" THEN new ELSE pics[Source(f, r)]]

\* The decoder makes the encoder's picture of it if it predicts from the same.
Result(pics, f) ==
  IF \A r \in f.uses : pics[r] = f.from[r] THEN f.pic ELSE Garbage

Astray(f) ==
  {r \in Refs : IF Source(f, r) = "new" THEN f.uses \cap astray # {}
                ELSE Source(f, r) \in astray}

NoFrame == [uses |-> {}]

Init ==
  /\ enc = [r \in Refs |-> Garbage]
  /\ dec = [r \in Refs |-> Garbage]
  /\ packet = NoFrame
  /\ astray = Refs

Encode(f) ==
  /\ packet = NoFrame
  /\ f.from = enc
  /\ enc' = Updated(enc, f, f.pic)
  /\ packet' = f
  /\ UNCHANGED <<dec, astray>>

Arrives ==
  /\ packet # NoFrame
  /\ dec' = Updated(dec, packet, Result(dec, packet))
  /\ astray' = Astray(packet)
  /\ packet' = NoFrame
  /\ UNCHANGED enc

\* A lost frame changes nothing in the decoder.
IsLost ==
  /\ packet # NoFrame
  /\ astray' = astray \cup {r \in Refs : Source(packet, r) # r}
  /\ packet' = NoFrame
  /\ UNCHANGED <<enc, dec>>

\* Of what a damaged frame does nothing is promised.
IsDamaged ==
  /\ packet # NoFrame
  /\ dec' \in [Refs -> Pictures]
  /\ astray' = Refs
  /\ packet' = NoFrame
  /\ UNCHANGED enc

\* The application gives both the same picture for a reference.
SetReference(r, p) ==
  /\ packet = NoFrame
  /\ enc' = [enc EXCEPT ![r] = p]
  /\ dec' = [dec EXCEPT ![r] = p]
  /\ astray' = astray \ {r}
  /\ UNCHANGED packet

Next ==
  \/ packet = NoFrame /\ packet' # NoFrame /\ Encode(packet')
  \/ Arrives \/ IsLost \/ IsDamaged
  \/ \E r \in Refs, p \in Pictures : SetReference(r, p)

Spec == Init /\ [][Next]_vars
=============================================================================
