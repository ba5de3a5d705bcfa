-------------------------- MODULE FrameBufferPool --------------------------
(***************************************************************************)
(* The BufferPool that the VP9 decoders share: reference-counted frame     *)
(* buffer slots (frame_bufs[], vp9/common/vp9_onyxc_int.h) and the memory  *)
(* behind them, which the get and release callbacks hand out and take      *)
(* back (vp9/common/vp9_frame_buffers.c).                                  *)
(*                                                                         *)
(* A slot keeps the priv pointer of its last memory after the memory was   *)
(* released: nothing in the code clears it.                                *)
(*                                                                         *)
(* Operators take a pool and return the pool the function leaves, so that  *)
(* a handler that makes several calls composes them.                       *)
(***************************************************************************)
EXTENDS Integers, FiniteSets

CONSTANTS
  REF_FRAMES,     \* entries of ref_frame_map
  FRAME_BUFFERS,  \* entries of frame_bufs
  Memory,         \* entries of the internal list, or of the application's
  NoMemory        \* a NULL priv pointer

ASSUME PoolSizes ==
  /\ REF_FRAMES \in Nat \ {0}
  /\ FRAME_BUFFERS \in Nat \ {0}
  /\ NoMemory \notin Memory

INVALID_IDX == -1

Slots == 0 .. REF_FRAMES - 1
Bufs == 0 .. FRAME_BUFFERS - 1
BufIdx == Bufs \cup {INVALID_IDX}

Pools == [ref_count : [Bufs -> Nat],              \* frame_bufs[].ref_count
          priv : [Bufs -> Memory \cup {NoMemory}],  \* ....raw_frame_buffer.priv
          in_use : SUBSET Memory,                 \* int_fb[].in_use
          returnedTwice : BOOLEAN]                \* observes the callbacks

EmptyPool == [ref_count |-> [b \in Bufs |-> 0],
              priv |-> [b \in Bufs |-> NoMemory],
              in_use |-> {},
              returnedTwice |-> FALSE]

\* Mutant of FreeBufs: a slot with one reference counts as free.
BarelyUsedBufs(pool) == {b \in Bufs : pool.ref_count[b] <= 1}

\* A slot nobody references.
FreeBufs(pool) == {b \in Bufs : pool.ref_count[b] = 0}

FreeMemory(pool) == Memory \ pool.in_use

Live(pool) == {b \in Bufs : pool.ref_count[b] > 0}

-----------------------------------------------------------------------------

\* get_free_fb() takes the first free slot and is its first holder.
FreeFb(pool) ==
  CHOOSE b \in FreeBufs(pool) : \A c \in FreeBufs(pool) : b <= c

GetFreeFb(pool) == [pool EXCEPT !.ref_count[FreeFb(pool)] = 1]

\* The release callback: vp9_release_frame_buffer() ignores a NULL priv, and
\* otherwise clears in_use and leaves fb->priv alone.
ReleaseFbCb(pool, idx) ==
  LET mem == pool.priv[idx]
  IN IF mem = NoMemory THEN pool
     ELSE [pool EXCEPT !.in_use = @ \ {mem},
                       !.returnedTwice = @ \/ mem \notin pool.in_use]

\* n calls of decrease_ref_count(): the memory goes back when ref_count
\* passes through zero and the slot has a priv pointer.
DecreaseRefCount(pool, idx, n) ==
  IF idx = INVALID_IDX \/ n = 0 THEN pool
  ELSE LET lower == [pool EXCEPT !.ref_count[idx] = @ - n]
       IN IF pool.ref_count[idx] \in 1 .. n THEN ReleaseFbCb(lower, idx)
          ELSE lower

\* ref_cnt_fb(bufs, &old, new): the old slot loses a holder, but its memory is
\* not handed back.
RefCntFb(pool, old, new) ==
  LET lower == IF old # INVALID_IDX /\ pool.ref_count[old] > 0
                 THEN [pool EXCEPT !.ref_count[old] = @ - 1] ELSE pool
  IN [lower EXCEPT !.ref_count[new] = @ + 1]

\* The get callback, called by vp9_realloc_frame_buffer(): the slot is given
\* memory, whatever its priv pointer was.  vp9_get_frame_buffer() gives the
\* first that is free, an application's callback any that is free.
GetFrameBuffer(pool, idx, mem) ==
  [pool EXCEPT !.priv[idx] = mem, !.in_use = @ \cup {mem}]

-----------------------------------------------------------------------------
(* A reference map is a function from Slots to BufIdx. *)

NoReferences == [s \in Slots |-> INVALID_IDX]

\* How many slots of a map name the buffer.
References(map, b) == Cardinality({s \in Slots : map[s] = b})

\* The loop over refresh_frame_flags in read_uncompressed_header().
NextRefFrameMap(map, refresh, new) ==
  [s \in Slots |-> IF s \in refresh THEN new ELSE map[s]]

\* Mutant of TakeHolds: the frame does not hold what the map names.
TakeNewHolds(pool, map, refresh, new) ==
  [pool EXCEPT !.ref_count[new] = @ + Cardinality(refresh)]

\* The holds that loop takes: one per refreshed slot on the new buffer, one
\* per slot on the buffer it names now.
TakeHolds(pool, map, refresh, new) ==
  [pool EXCEPT !.ref_count =
     [b \in Bufs |-> pool.ref_count[b] + References(map, b)
                     + IF b = new THEN Cardinality(refresh) ELSE 0]]

\* Mutant of DropHolds: the map keeps its reference to what is refreshed.
DropOwnHolds(pool, map, refresh) ==
  [pool EXCEPT !.ref_count =
     [b \in Bufs |-> pool.ref_count[b] - References(map, b)]]

\* The decrements of swap_frame_buffers() and of the error path: every slot's
\* hold, and the map's own reference of the slots that are refreshed.
DropHolds(pool, map, refresh) ==
  LET drops(b) == References(map, b)
                    + Cardinality({s \in refresh : map[s] = b})
      released == {b \in Bufs : /\ pool.ref_count[b] \in 1 .. drops(b)
                                /\ pool.priv[b] # NoMemory}
      memory == {pool.priv[b] : b \in released}
  IN [pool EXCEPT
        !.ref_count = [b \in Bufs |-> pool.ref_count[b] - drops(b)],
        !.in_use = @ \ memory,
        !.returnedTwice =
          \/ @
          \/ ~(memory \subseteq pool.in_use)
          \/ Cardinality(memory) # Cardinality(released)]
=============================================================================
