---------------------------- MODULE Vp9Lookahead ----------------------------
(***************************************************************************)
(* The VP9 encoder's lookahead (vp9/encoder/vp9_lookahead.c): a ring of    *)
(* images.  It has one entry more than it offers, so that the image given  *)
(* back last can still be read by a peek at -1.                            *)
(***************************************************************************)
EXTENDS Integers, FiniteSets

CONSTANTS
  Lag,              \* oxcf.lag_in_frames
  MAX_LAG_BUFFERS,
  MaxImages         \* bound of the model: images sent

ASSUME LagAssumption == Lag \in Nat
ASSUME LagBuffersAssumption == MAX_LAG_BUFFERS \in Nat \ {0}
ASSUME MaxImagesAssumption == MaxImages \in Nat \ {0}

VARIABLES buf, sz, read_idx, write_idx

\* struct lookahead_entry: an image, and whether it is to be a key frame.
Images == [image : 1 .. MaxImages, key : BOOLEAN]

lookahead == <<buf, sz, read_idx, write_idx>>

MAX_PRE_FRAMES == 1

\* clamp(depth, 1, MAX_LAG_BUFFERS)
Depth == IF Lag < 1 THEN 1
         ELSE IF Lag > MAX_LAG_BUFFERS THEN MAX_LAG_BUFFERS ELSE Lag

max_sz == Depth + MAX_PRE_FRAMES

Indexes == 0 .. max_sz - 1
NULL == -1

LookaheadType ==
  /\ buf \in [Indexes -> Images]
  /\ sz \in 0 .. max_sz
  /\ read_idx \in Indexes
  /\ write_idx \in Indexes

\* vp9_lookahead_init().  What a new entry holds is never read: any image.
LookaheadInit ==
  /\ buf = [i \in Indexes |-> [image |-> 1, key |-> FALSE]]
  /\ sz = 0
  /\ read_idx = 0
  /\ write_idx = 0

\* The index that pop() leaves.
After(idx) == IF idx + 1 >= max_sz THEN idx + 1 - max_sz ELSE idx + 1

PushRefused == sz + 1 + MAX_PRE_FRAMES > max_sz

\* vp9_lookahead_push()
Push(entry) ==
  IF PushRefused THEN UNCHANGED lookahead
  ELSE /\ sz' = sz + 1
       /\ write_idx' = After(write_idx)
       /\ buf' = [buf EXCEPT ![write_idx] = entry]
       /\ UNCHANGED read_idx

\* vp9_lookahead_push() of an image for which larger memory cannot be
\* allocated: the entry is counted all the same, and keeps what it held.
PushWithoutMemory ==
  IF PushRefused THEN UNCHANGED lookahead
  ELSE /\ sz' = sz + 1
       /\ write_idx' = After(write_idx)
       /\ UNCHANGED <<buf, read_idx>>

\* Mutant of MayPop: the ring's extra entry is to be filled before it is read.
MayPopWhenAllFull(drain) == sz # 0 /\ (drain \/ sz = max_sz)

\* Mutant of MayPop: nothing is given back unless the lookahead is full.
MayPopWhenFull(drain) == sz # 0 /\ sz = max_sz - MAX_PRE_FRAMES

\* vp9_lookahead_pop() gives an image.
MayPop(drain) == sz # 0 /\ (drain \/ sz = max_sz - MAX_PRE_FRAMES)

Pop ==
  /\ read_idx' = After(read_idx)
  /\ sz' = sz - 1
  /\ UNCHANGED <<buf, write_idx>>

\* Mutant of Peek: a peek back does not wrap.
PeekUnwrapped(index) ==
  IF index >= 0
  THEN IF index < sz
       THEN IF index + read_idx >= max_sz THEN index + read_idx - max_sz
            ELSE index + read_idx
       ELSE NULL
  ELSE IF -index <= MAX_PRE_FRAMES THEN read_idx ELSE NULL

\* vp9_lookahead_peek(), as the index of the entry.
Peek(index) ==
  IF index >= 0
  THEN IF index < sz
       THEN IF index + read_idx >= max_sz THEN index + read_idx - max_sz
            ELSE index + read_idx
       ELSE NULL
  ELSE IF -index <= MAX_PRE_FRAMES
       THEN IF index + read_idx < 0 THEN index + read_idx + max_sz
            ELSE index + read_idx
       ELSE NULL
=============================================================================
