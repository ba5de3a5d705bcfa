------------------------ MODULE SerialDecoderProofs ------------------------
(***************************************************************************)
(* The frame buffers of the serial VP9 decoder for any numbers of          *)
(* references, of frame buffers and of buffers of memory, and damage of    *)
(* frames at any phase.                                                    *)
(***************************************************************************)
EXTENDS SerialDecoder, FiniteSetTheorems, WellFoundedInduction, TLAPS

\* What the phase of a frame says of the decoder's state.
PhaseInv ==
  /\ phase # "ready" => new_fb_idx \in Bufs /\ ~had_error
  /\ phase \in {"header", "allocated"} => pool.ref_count[new_fb_idx] = 1
  /\ phase = "decoded" => pool.ref_count[new_fb_idx] > 0
  /\ phase \in {"allocated", "mapped"} => ~need_resync /\ ~show_existing_frame
  /\ phase \in {"ready", "header", "allocated"} => ~hold_ref_buf
  /\ phase = "mapped" => hold_ref_buf
  /\ phase = "decoded" => (hold_ref_buf <=> ~show_existing_frame)
  /\ hold_ref_buf =>
       /\ ~need_resync
       /\ next_ref_frame_map = NextRefFrameMap(ref_frame_map,
                                               refresh_frame_flags, new_fb_idx)
  /\ had_error => need_resync /\ new_fb_idx \in Bufs
  /\ image # INVALID_IDX =>
       phase = "ready" /\ ~had_error /\ image = new_fb_idx

\* No count is too low while the map is to be decoded from; before a frame
\* fails with its holds taken, none is too low at all, and before the first
\* damage they are exact.
CountInv ==
  /\ ~need_resync \/ "mapped" \notin damage =>
       \A b \in Bufs : pool.ref_count[b] >= Owed(b)
  /\ damage = {} =>
       /\ \A b \in Bufs : pool.ref_count[b] = Owed(b)
       /\ need_resync => ref_frame_map = NoReferences

\* A slot of the map names the buffer.
Named(b) == \E s \in Slots : ref_frame_map[s] = b

\* The pictures that frames are decoded from, and the last or present one.
Kept == {b \in Bufs : Named(b) \/ (b = new_fb_idx /\ phase # "header")}

\* No two of them share memory, and none has lost its own, while the map is to
\* be decoded from.
KeptInv ==
  /\ ~need_resync =>
       /\ \A b \in Kept : pool.priv[b] \in pool.in_use
       /\ \A b, c \in Kept : pool.priv[b] = pool.priv[c] => b = c
  /\ phase \in {"allocated", "mapped"} =>
       \A b \in frame_refs \ {INVALID_IDX} : Named(b) /\ b # new_fb_idx

\* After a frame that failed its memory is back.
MemoryInv ==
  /\ MemoryExact
  /\ damage \subseteq {"allocated"} /\ phase = "ready" /\ had_error =>
       pool.ref_count[new_fb_idx] = 0 /\ pool.priv[new_fb_idx] \notin pool.in_use
  /\ damage = {} => ~had_error /\ ~pool.returnedTwice

IInv == TypeOK /\ PhaseInv /\ CountInv /\ KeptInv /\ MemoryInv

-----------------------------------------------------------------------------
(* Counting slots *)

LEMMA SlotsFinite ==
  /\ IsFiniteSet(Slots) /\ Cardinality(Slots) = REF_FRAMES
  /\ \A S \in SUBSET Slots : IsFiniteSet(S) /\ Cardinality(S) \in Nat
<1>1. REF_FRAMES \in Nat \ {0}
  BY PoolSizes
<1>2. IsFiniteSet(Slots) /\ Cardinality(Slots) = REF_FRAMES
  BY <1>1, FS_Interval DEF Slots
<1> QED
  BY <1>2, FS_Subset, FS_CardinalityType

LEMMA ReferencesCount ==
  ASSUME NEW map, NEW b
  PROVE  /\ References(map, b) \in Nat
         /\ References(map, b) = 0 <=> \A s \in Slots : map[s] # b
<1> DEFINE S == {s \in Slots : map[s] = b}
<1>1. S \in SUBSET Slots /\ IsFiniteSet(S) /\ Cardinality(S) \in Nat
  BY SlotsFinite
<1>2. Cardinality(S) = 0 <=> S = {}
  BY <1>1, FS_EmptySet
<1> QED
  BY <1>1, <1>2 DEF References

\* The refreshed slots of a map that name a buffer.
Refreshed(map, refresh, b) == Cardinality({s \in refresh : map[s] = b})

LEMMA RefreshedCount ==
  ASSUME NEW map, NEW refresh \in SUBSET Slots, NEW b
  PROVE  /\ Refreshed(map, refresh, b) \in Nat
         /\ Refreshed(map, refresh, b) <= References(map, b)
         /\ Refreshed(map, refresh, b) = References(map, b) =>
              \A s \in Slots : map[s] = b => s \in refresh
<1> DEFINE S == {s \in Slots : map[s] = b}
           T == {s \in refresh : map[s] = b}
<1>1. T \in SUBSET S /\ IsFiniteSet(S) /\ Cardinality(T) \in Nat
  BY SlotsFinite
<1>2. /\ Cardinality(T) <= Cardinality(S)
      /\ Cardinality(S) = Cardinality(T) => S = T
  BY <1>1, FS_Subset
<1> QED
  BY <1>1, <1>2 DEF References, Refreshed

\* The references of the next map: those that are not refreshed, and the new
\* buffer's.
LEMMA NextReferences ==
  ASSUME NEW map, NEW refresh \in SUBSET Slots, NEW new, NEW b
  PROVE  References(NextRefFrameMap(map, refresh, new), b) =
           References(map, b) - Refreshed(map, refresh, b)
           + (IF b = new THEN Cardinality(refresh) ELSE 0)
<1> DEFINE S == {s \in Slots : map[s] = b}
           T == {s \in refresh : map[s] = b}
           next == NextRefFrameMap(map, refresh, new)
           N == {s \in Slots : next[s] = b}
           R == IF b = new THEN refresh ELSE {}
<1>1. /\ \A X \in SUBSET Slots : IsFiniteSet(X) /\ Cardinality(X) \in Nat
      /\ S \in SUBSET Slots /\ T \in SUBSET S /\ R \in SUBSET Slots
  BY SlotsFinite
<1>2. N = (S \ T) \cup R
  BY DEF NextRefFrameMap
<1>3. (S \ T) \cap R = {} /\ S \cap T = T
  OBVIOUS
<1>4. Cardinality(S \ T) = Cardinality(S) - Cardinality(T)
  BY <1>1, <1>3, FS_Difference
<1>5. Cardinality(N) = Cardinality(S \ T) + Cardinality(R)
  <2>1. IsFiniteSet(S \ T) /\ IsFiniteSet(R) /\ S \ T \in SUBSET Slots
    BY <1>1
  <2>2. Cardinality(N) = Cardinality(S \ T) + Cardinality(R) - Cardinality({})
    BY <1>2, <1>3, <2>1, FS_Union
  <2>3. Cardinality({}) = 0 /\ Cardinality(S \ T) \in Nat /\ Cardinality(R) \in Nat
    BY <1>1, <2>1, FS_EmptySet
  <2> QED
    BY <2>2, <2>3
<1>6. Cardinality(R) = IF b = new THEN Cardinality(refresh) ELSE 0
  BY FS_EmptySet
<1> QED
  BY <1>4, <1>5, <1>6 DEF References, Refreshed

-----------------------------------------------------------------------------
(* The operations of the pool *)

\* The memory that goes back when the buffers of a set lose their last holder.
MemoryOf(p, S) == {p.priv[b] : b \in S}

LEMMA ReleaseIs ==
  ASSUME NEW p \in Pools, NEW i \in Bufs
  PROVE  /\ ReleaseFbCb(p, i) \in Pools
         /\ ReleaseFbCb(p, i).ref_count = p.ref_count
         /\ ReleaseFbCb(p, i).priv = p.priv
         /\ ReleaseFbCb(p, i).in_use = p.in_use \ {p.priv[i]}
         /\ p.priv[i] \in p.in_use =>
              ReleaseFbCb(p, i).returnedTwice = p.returnedTwice
<1>1. CASE p.priv[i] = NoMemory
  <2>1. p.priv[i] \notin p.in_use
    BY <1>1, PoolSizes DEF Pools
  <2> QED
    BY <1>1, <2>1 DEF ReleaseFbCb
<1>2. CASE p.priv[i] # NoMemory
  BY <1>2 DEF ReleaseFbCb, Pools
<1> QED
  BY <1>1, <1>2

\* decode_one() gives back the memory of a last frame that nothing references.
LEMMA WithoutLastFrameIs ==
  ASSUME TypeOK,
         NEW p, p = WithoutLastFrame(pool)
  PROVE  /\ p \in Pools
         /\ p.ref_count = pool.ref_count
         /\ p.priv = pool.priv
         /\ p.in_use = IF new_fb_idx # INVALID_IDX /\ pool.ref_count[new_fb_idx] = 0
                         THEN pool.in_use \ {pool.priv[new_fb_idx]}
                         ELSE pool.in_use
         /\ new_fb_idx = INVALID_IDX \/ pool.priv[new_fb_idx] \in pool.in_use =>
              p.returnedTwice = pool.returnedTwice
BY ReleaseIs DEF TypeOK, WithoutLastFrame, BufIdx

\* A set of numbers has a least one.
LEMMA LeastExists ==
  ASSUME NEW S \in SUBSET Nat, S # {}
  PROVE  \E b \in S : \A c \in S : b <= c
<1> DEFINE R == {p \in Nat \X Nat : p[1] < p[2]}
<1>1. IsWellFoundedOn(R, Nat)
  BY NatLessThanWellFounded DEF OpToRel
<1> HIDE DEF R
<1>2. PICK b \in S : \A c \in S : <<c, b>> \notin R
  BY <1>1, WFMin
<1>3. ASSUME NEW c \in S
      PROVE  b <= c
  <2>1. ~(c < b)
    BY <1>2 DEF R
  <2> QED
    BY <2>1
<1> QED
  BY <1>3

LEMMA GetFreeFbIs ==
  ASSUME NEW p \in Pools, FreeBufs(p) # {},
         NEW q, q = GetFreeFb(p)
  PROVE  /\ FreeFb(p) \in Bufs /\ p.ref_count[FreeFb(p)] = 0
         /\ q \in Pools
         /\ q.ref_count = [p.ref_count EXCEPT ![FreeFb(p)] = 1]
         /\ q.priv = p.priv /\ q.in_use = p.in_use
         /\ q.returnedTwice = p.returnedTwice
<1>1. \E b \in FreeBufs(p) : \A c \in FreeBufs(p) : b <= c
  <2>1. FreeBufs(p) \in SUBSET Nat
    BY PoolSizes DEF FreeBufs, Bufs
  <2> QED
    BY <2>1, LeastExists
<1>2. FreeFb(p) \in FreeBufs(p)
  BY <1>1 DEF FreeFb
<1>3. FreeFb(p) \in Bufs /\ p.ref_count[FreeFb(p)] = 0
  BY <1>2 DEF FreeBufs
<1> QED
  BY <1>3 DEF GetFreeFb, Pools

LEMMA DecreaseIs ==
  ASSUME NEW p \in Pools, NEW i \in Bufs, p.ref_count[i] > 0
  PROVE  /\ DecreaseRefCount(p, i, 1) \in Pools
         /\ DecreaseRefCount(p, i, 1).ref_count = [p.ref_count EXCEPT ![i] = @ - 1]
         /\ DecreaseRefCount(p, i, 1).priv = p.priv
         /\ DecreaseRefCount(p, i, 1).in_use =
              IF p.ref_count[i] = 1 THEN p.in_use \ {p.priv[i]} ELSE p.in_use
<1> DEFINE lower == [p EXCEPT !.ref_count[i] = @ - 1]
<1>1. /\ lower \in Pools
      /\ lower.ref_count = [p.ref_count EXCEPT ![i] = @ - 1]
      /\ lower.priv = p.priv /\ lower.in_use = p.in_use
  BY DEF Pools
<1> DEFINE q == DecreaseRefCount(p, i, 1)
<1>2. q = IF p.ref_count[i] \in 1 .. 1 THEN ReleaseFbCb(lower, i) ELSE lower
  <2>1. i # INVALID_IDX
    BY PoolSizes DEF Bufs, INVALID_IDX
  <2> QED
    BY <2>1 DEF DecreaseRefCount
<1>3. p.ref_count[i] \in 1 .. 1 <=> p.ref_count[i] = 1
  BY DEF Pools
<1> HIDE DEF lower
<1>4. CASE p.ref_count[i] = 1
  BY <1>1, <1>2, <1>3, <1>4, ReleaseIs
<1>5. CASE p.ref_count[i] # 1
  BY <1>1, <1>2, <1>3, <1>5
<1> QED
  BY <1>4, <1>5

LEMMA RefCntFbIs ==
  ASSUME NEW p \in Pools, NEW old \in Bufs, NEW new \in Bufs,
         p.ref_count[old] > 0,
         NEW q, q = RefCntFb(p, old, new)
  PROVE  /\ q \in Pools
         /\ q.priv = p.priv /\ q.in_use = p.in_use
         /\ q.returnedTwice = p.returnedTwice
         /\ \A b \in Bufs : q.ref_count[b] =
              p.ref_count[b] - (IF b = old THEN 1 ELSE 0)
                             + (IF b = new THEN 1 ELSE 0)
<1> DEFINE lower == [p EXCEPT !.ref_count[old] = @ - 1]
<1>1. /\ lower \in Pools
      /\ lower.ref_count = [p.ref_count EXCEPT ![old] = @ - 1]
      /\ lower.priv = p.priv /\ lower.in_use = p.in_use
      /\ lower.returnedTwice = p.returnedTwice
  BY DEF Pools
<1>2. q = [lower EXCEPT !.ref_count[new] = @ + 1]
  <2>1. old # INVALID_IDX
    BY PoolSizes DEF Bufs, INVALID_IDX
  <2> QED
    BY <2>1 DEF RefCntFb
<1> HIDE DEF lower
<1>3. /\ q \in Pools
      /\ q.priv = p.priv /\ q.in_use = p.in_use
      /\ q.returnedTwice = p.returnedTwice
      /\ q.ref_count = [lower.ref_count EXCEPT ![new] = @ + 1]
  BY <1>1, <1>2 DEF Pools
<1>4. p.ref_count \in [Bufs -> Nat]
  BY DEF Pools
<1> QED
  BY <1>1, <1>3, <1>4

LEMMA GetFrameBufferIs ==
  ASSUME NEW p \in Pools, NEW i \in Bufs, NEW mem \in FreeMemory(p),
         NEW q, q = GetFrameBuffer(p, i, mem)
  PROVE  /\ q \in Pools
         /\ q.ref_count = p.ref_count
         /\ q.priv = [p.priv EXCEPT ![i] = mem]
         /\ q.in_use = p.in_use \cup {mem}
         /\ q.returnedTwice = p.returnedTwice
BY DEF Pools, FreeMemory, GetFrameBuffer

LEMMA TakeHoldsIs ==
  ASSUME NEW p \in Pools, NEW map, NEW refresh \in SUBSET Slots, NEW new \in Bufs,
         NEW q, q = TakeHolds(p, map, refresh, new)
  PROVE  /\ q \in Pools
         /\ q.priv = p.priv /\ q.in_use = p.in_use
         /\ q.returnedTwice = p.returnedTwice
         /\ \A b \in Bufs : q.ref_count[b] =
              p.ref_count[b] + References(map, b)
                             + (IF b = new THEN Cardinality(refresh) ELSE 0)
<1>1. Cardinality(refresh) \in Nat
  BY SlotsFinite
<1>2. \A b : References(map, b) \in Nat
  BY ReferencesCount
<1>3. p.ref_count \in [Bufs -> Nat]
  BY DEF Pools
<1> DEFINE count == [b \in Bufs |-> p.ref_count[b] + References(map, b)
                                    + IF b = new THEN Cardinality(refresh) ELSE 0]
<1>4. count \in [Bufs -> Nat]
  BY <1>1, <1>2, <1>3
<1>5. q = [p EXCEPT !.ref_count = count]
  BY DEF TakeHolds
<1> QED
  BY <1>4, <1>5 DEF Pools

\* What DropHolds takes from a buffer's count.
Drops(map, refresh, b) == References(map, b) + Refreshed(map, refresh, b)

\* The buffers that lose their last holder, and with it their memory.
Dropped(p, map, refresh) ==
  {b \in Bufs : p.ref_count[b] > 0 /\ p.ref_count[b] = Drops(map, refresh, b)}

LEMMA DropHoldsIs ==
  ASSUME NEW p \in Pools, NEW map, NEW refresh \in SUBSET Slots,
         \A b \in Bufs : Drops(map, refresh, b) <= p.ref_count[b]
  PROVE  /\ DropHolds(p, map, refresh) \in Pools
         /\ DropHolds(p, map, refresh).priv = p.priv
         /\ DropHolds(p, map, refresh).in_use =
              p.in_use \ MemoryOf(p, Dropped(p, map, refresh))
         /\ \A b \in Bufs : DropHolds(p, map, refresh).ref_count[b] =
              p.ref_count[b] - Drops(map, refresh, b)
<1> DEFINE q == DropHolds(p, map, refresh)
           released == Dropped(p, map, refresh)
           drops(b) == References(map, b) + Cardinality({s \in refresh : map[s] = b})
           gone == {b \in Bufs : p.ref_count[b] \in 1 .. drops(b)
                                 /\ p.priv[b] # NoMemory}
           count == [b \in Bufs |-> p.ref_count[b] - drops(b)]
<1>1. \A b : drops(b) = Drops(map, refresh, b)
  BY DEF Drops, Refreshed
<1>2. ASSUME NEW b
      PROVE  drops(b) \in Nat
  <2>1. References(map, b) \in Nat
    BY ReferencesCount
  <2>2. Cardinality({s \in refresh : map[s] = b}) \in Nat
    BY SlotsFinite
  <2> QED
    BY <2>1, <2>2
<1>3. /\ p.ref_count \in [Bufs -> Nat] /\ p.in_use \in SUBSET Memory
      /\ p.priv \in [Bufs -> Memory \cup {NoMemory}]
      /\ p.returnedTwice \in BOOLEAN
  BY DEF Pools
<1>4. count \in [Bufs -> Nat]
  BY <1>1, <1>2, <1>3
<1>5. \A b \in Bufs : p.ref_count[b] \in 1 .. drops(b) <=> b \in released
  BY <1>1, <1>2, <1>3 DEF Dropped
<1>6. gone = {b \in released : p.priv[b] # NoMemory}
  BY <1>5 DEF Dropped
<1>7. /\ q.ref_count = count /\ q.priv = p.priv
      /\ q.in_use = p.in_use \ {p.priv[b] : b \in gone}
      /\ q \in Pools
  <2> DEFINE twice == \/ p.returnedTwice
                      \/ ~({p.priv[b] : b \in gone} \subseteq p.in_use)
                      \/ Cardinality({p.priv[b] : b \in gone}) # Cardinality(gone)
             use == p.in_use \ {p.priv[b] : b \in gone}
  <2>1. q = [p EXCEPT !.ref_count = count, !.in_use = use,
                      !.returnedTwice = twice]
    BY DEF DropHolds
  <2>2. twice \in BOOLEAN /\ use \in SUBSET Memory
    BY <1>3
  <2> HIDE DEF twice, use, count, gone
  <2>3. q \in Pools /\ q.ref_count = count /\ q.priv = p.priv /\ q.in_use = use
    BY <1>4, <2>1, <2>2 DEF Pools
  <2> QED
    BY <2>3 DEF use
<1>8. p.in_use \ {p.priv[b] : b \in gone} = p.in_use \ MemoryOf(p, released)
  <2>1. NoMemory \notin p.in_use
    BY <1>3, PoolSizes
  <2> QED
    BY <1>6, <2>1 DEF MemoryOf
<1> QED
  BY <1>1, <1>7, <1>8

-----------------------------------------------------------------------------
(* What the steps do to the pool *)

\* A frame fails.
Failing ==
  Damaged \/ (\E s \in Slots : ShowMissing(s)) \/ InterFrameRefused

\* An intra frame or an inter frame gets its memory.
Beginning ==
  \E refresh \in SUBSET Slots, show \in BOOLEAN :
    \/ IntraFrame(refresh, show)
    \/ \E refs \in SUBSET Slots \ {{}} : InterFrame(refs, refresh, show)

Showing == \E s \in Slots : ShowExisting(s)

LEMMA StepCases ==
  Step <=> \/ DecodeOne \/ Failing \/ Showing \/ Beginning
           \/ GenerateRefMap \/ DecodeTiles \/ SwapFrameBuffers \/ GetFrame
BY DEF Step, Failing, Showing, Beginning

LEMMA BufsAreIndices == INVALID_IDX \notin Bufs /\ Bufs \subseteq BufIdx
BY PoolSizes DEF Bufs, INVALID_IDX, BufIdx

LEMMA DecodeOneIs ==
  ASSUME TypeOK, DecodeOne
  PROVE  /\ new_fb_idx' \in Bufs
         /\ pool.ref_count[new_fb_idx'] = 0
         /\ pool' \in Pools
         /\ pool'.ref_count = [pool.ref_count EXCEPT ![new_fb_idx'] = 1]
         /\ pool'.priv = pool.priv
         /\ pool'.in_use =
              IF new_fb_idx # INVALID_IDX /\ pool.ref_count[new_fb_idx] = 0
                THEN pool.in_use \ {pool.priv[new_fb_idx]}
                ELSE pool.in_use
         /\ new_fb_idx = INVALID_IDX \/ pool.priv[new_fb_idx] \in pool.in_use =>
              pool'.returnedTwice = pool.returnedTwice
<1> DEFINE p == WithoutLastFrame(pool)
<1>1. p \in Pools /\ p.ref_count = pool.ref_count /\ p.priv = pool.priv
      /\ p.in_use = (IF new_fb_idx # INVALID_IDX /\ pool.ref_count[new_fb_idx] = 0
                       THEN pool.in_use \ {pool.priv[new_fb_idx]}
                       ELSE pool.in_use)
      /\ (new_fb_idx = INVALID_IDX \/ pool.priv[new_fb_idx] \in pool.in_use =>
            p.returnedTwice = pool.returnedTwice)
  BY WithoutLastFrameIs
<1>2. FreeBufs(p) # {} /\ pool' = GetFreeFb(p) /\ new_fb_idx' = FreeFb(p)
  BY DEF DecodeOne
<1> HIDE DEF p
<1>3. /\ FreeFb(p) \in Bufs /\ p.ref_count[FreeFb(p)] = 0
      /\ pool' \in Pools
      /\ pool'.ref_count = [p.ref_count EXCEPT ![FreeFb(p)] = 1]
      /\ pool'.priv = p.priv /\ pool'.in_use = p.in_use
      /\ pool'.returnedTwice = p.returnedTwice
  BY <1>1, <1>2, GetFreeFbIs
<1> QED
  BY <1>1, <1>2, <1>3

\* The frame's holds can be dropped.
LEMMA HoldsAreThere ==
  ASSUME TypeOK, PhaseInv, CountInv, hold_ref_buf
  PROVE  \A b \in Bufs :
           /\ Drops(ref_frame_map, refresh_frame_flags, b) \in Nat
           /\ Drops(ref_frame_map, refresh_frame_flags, b)
                + (IF b = new_fb_idx THEN 1 ELSE 0) <= pool.ref_count[b]
           /\ pool.ref_count[b] >= References(ref_frame_map, b)
                                   + References(ref_frame_map, b)
                                   + (IF b = new_fb_idx THEN 1 ELSE 0)
<1> SUFFICES ASSUME NEW b \in Bufs
             PROVE  /\ Drops(ref_frame_map, refresh_frame_flags, b) \in Nat
                    /\ Drops(ref_frame_map, refresh_frame_flags, b)
                         + (IF b = new_fb_idx THEN 1 ELSE 0) <= pool.ref_count[b]
                    /\ pool.ref_count[b] >= References(ref_frame_map, b)
                                   + References(ref_frame_map, b)
                                   + (IF b = new_fb_idx THEN 1 ELSE 0)
  OBVIOUS
<1> DEFINE r == References(ref_frame_map, b)
           d == Refreshed(ref_frame_map, refresh_frame_flags, b)
           n == Cardinality(refresh_frame_flags)
<1>1. /\ refresh_frame_flags \in SUBSET Slots
      /\ r \in Nat /\ d \in Nat /\ d <= r /\ n \in Nat
  BY ReferencesCount, RefreshedCount, SlotsFinite DEF TypeOK
<1>2. pool.ref_count[b] >= Owed(b) /\ phase # "ready"
  BY DEF CountInv, PhaseInv
<1>3. Owed(b) = r + (r + (IF b = new_fb_idx THEN n ELSE 0))
                  + (IF b = new_fb_idx THEN 1 ELSE 0)
  BY <1>2 DEF Owed
<1>4. Drops(ref_frame_map, refresh_frame_flags, b) = r + d
  BY DEF Drops
<1>5. pool.ref_count[b] \in Nat
  BY DEF TypeOK, Pools
<1> HIDE DEF r, d, n
<1>6. /\ r + d \in Nat
      /\ r + d + (IF b = new_fb_idx THEN 1 ELSE 0) <= pool.ref_count[b]
      /\ pool.ref_count[b] >= r + r + (IF b = new_fb_idx THEN 1 ELSE 0)
  BY <1>1, <1>2, <1>3, <1>5
<1> QED
  BY <1>4, <1>6 DEF r

LEMMA FailIs ==
  ASSUME TypeOK, PhaseInv, CountInv, Failing
  PROVE  /\ phase \in {"header", "allocated", "mapped"}
         /\ pool' \in Pools /\ pool'.priv = pool.priv
         /\ phase # "mapped" =>
              /\ pool'.ref_count = [pool.ref_count EXCEPT ![new_fb_idx] = 0]
              /\ pool'.in_use = pool.in_use \ {pool.priv[new_fb_idx]}
         /\ hold_ref_buf' = FALSE /\ need_resync' = TRUE /\ had_error' = TRUE
         /\ ready_for_new_data' = TRUE /\ phase' = "ready"
         /\ si_h' \in BOOLEAN /\ show_existing_frame' \in BOOLEAN
         /\ intra' \in BOOLEAN
         /\ UNCHANGED <<ref_frame_map, next_ref_frame_map, new_fb_idx, show_frame,
                        ctx_need_resync, image, frame_refs, refresh_frame_flags>>
<1>1. Fail(pool) /\ phase \in {"header", "allocated", "mapped"}
  BY FailPhasesAssumption DEF Failing, Damaged, NamesMissing, ShowMissing,
     InterFrameRefused
<1>2. new_fb_idx \in Bufs /\ pool \in Pools /\ hold_ref_buf \in BOOLEAN
  BY <1>1 DEF PhaseInv, TypeOK
<1>3. CASE phase # "mapped"
  <2>1. ~hold_ref_buf /\ pool.ref_count[new_fb_idx] = 1
    BY <1>1, <1>3 DEF PhaseInv
  <2>2. pool' = DecreaseRefCount(pool, new_fb_idx, 1)
    BY <1>1, <2>1 DEF Fail
  <2>3. /\ pool' \in Pools
        /\ pool'.ref_count = [pool.ref_count EXCEPT ![new_fb_idx] = @ - 1]
        /\ pool'.priv = pool.priv
        /\ pool'.in_use = pool.in_use \ {pool.priv[new_fb_idx]}
    <3>1. pool.ref_count[new_fb_idx] > 0
      BY <2>1
    <3> QED
      BY <1>2, <2>1, <2>2, <3>1, DecreaseIs
  <2>4. pool'.ref_count = [pool.ref_count EXCEPT ![new_fb_idx] = 0]
    BY <2>1, <2>3
  <2> QED
    BY <1>1, <2>3, <2>4
    DEF Fail, Failing, Damaged, ShowMissing, InterFrameRefused, TypeOK
<1>4. CASE phase = "mapped"
  <2> DEFINE p == DropHolds(pool, ref_frame_map, refresh_frame_flags)
  <2>1. hold_ref_buf
    BY <1>4 DEF PhaseInv
  <2>2. pool' = DecreaseRefCount(p, new_fb_idx, 1)
    BY <1>1, <2>1 DEF Fail
  <2>3. /\ \A b \in Bufs :
             /\ Drops(ref_frame_map, refresh_frame_flags, b) \in Nat
             /\ Drops(ref_frame_map, refresh_frame_flags, b)
                  + (IF b = new_fb_idx THEN 1 ELSE 0) <= pool.ref_count[b]
        /\ refresh_frame_flags \in SUBSET Slots
        /\ pool.ref_count \in [Bufs -> Nat]
    BY <2>1, HoldsAreThere DEF TypeOK, Pools
  <2>4. \A b \in Bufs :
          Drops(ref_frame_map, refresh_frame_flags, b) <= pool.ref_count[b]
    BY <2>3
  <2>5. /\ p \in Pools /\ p.priv = pool.priv
        /\ \A b \in Bufs : p.ref_count[b] =
             pool.ref_count[b] - Drops(ref_frame_map, refresh_frame_flags, b)
    BY <1>2, <2>3, <2>4, DropHoldsIs
  <2> HIDE DEF p
  <2>6. p.ref_count[new_fb_idx] > 0
    BY <1>2, <2>3, <2>5
  <2>7. pool' \in Pools /\ pool'.priv = p.priv
    BY <1>2, <2>2, <2>5, <2>6, DecreaseIs
  <2> QED
    BY <1>1, <1>4, <2>5, <2>7
    DEF Fail, Failing, Damaged, ShowMissing, InterFrameRefused, TypeOK
<1> QED
  BY <1>3, <1>4

LEMMA ShowingIs ==
  ASSUME TypeOK, PhaseInv, Showing
  PROVE  /\ phase = "header" /\ phase' = "decoded"
         /\ Named(new_fb_idx') /\ new_fb_idx' \in Bufs /\ new_fb_idx \in Bufs
         /\ pool.ref_count[new_fb_idx'] > 0
         /\ pool' \in Pools
         /\ pool'.priv = pool.priv /\ pool'.in_use = pool.in_use
         /\ pool'.returnedTwice = pool.returnedTwice
         /\ \A b \in Bufs : pool'.ref_count[b] =
              pool.ref_count[b] - (IF b = new_fb_idx THEN 1 ELSE 0)
                                + (IF b = new_fb_idx' THEN 1 ELSE 0)
         /\ show_existing_frame' = TRUE /\ show_frame' = TRUE
         /\ refresh_frame_flags' = {}
         /\ UNCHANGED <<ref_frame_map, next_ref_frame_map, frame_refs,
                        hold_ref_buf, need_resync, intra, apiVars>>
<1>1. PICK s \in Slots : ShowExisting(s)
  BY DEF Showing
<1>2. /\ ref_frame_map[s] \in Bufs /\ new_fb_idx' = ref_frame_map[s]
      /\ phase = "header" /\ pool.ref_count[ref_frame_map[s]] > 0
      /\ pool' = RefCntFb(pool, new_fb_idx, new_fb_idx')
  BY <1>1 DEF ShowExisting, TypeOK, BufIdx
<1>3. new_fb_idx \in Bufs /\ pool.ref_count[new_fb_idx] > 0 /\ pool \in Pools
  BY <1>2 DEF PhaseInv, TypeOK
<1>4. /\ pool' \in Pools
      /\ pool'.priv = pool.priv /\ pool'.in_use = pool.in_use
      /\ pool'.returnedTwice = pool.returnedTwice
      /\ \A b \in Bufs : pool'.ref_count[b] =
           pool.ref_count[b] - (IF b = new_fb_idx THEN 1 ELSE 0)
                             + (IF b = new_fb_idx' THEN 1 ELSE 0)
  BY <1>2, <1>3, RefCntFbIs
<1> QED
  BY <1>1, <1>2, <1>3, <1>4 DEF ShowExisting, Named

LEMMA BeginningIs ==
  ASSUME TypeOK, PhaseInv, Beginning
  PROVE  /\ phase = "header" /\ phase' = "allocated"
         /\ new_fb_idx \in Bufs /\ new_fb_idx' = new_fb_idx
         /\ pool' \in Pools
         /\ pool'.ref_count = pool.ref_count
         /\ \E mem \in Memory \ pool.in_use :
              /\ pool'.priv = [pool.priv EXCEPT ![new_fb_idx] = mem]
              /\ pool'.in_use = pool.in_use \cup {mem}
         /\ pool'.returnedTwice = pool.returnedTwice
         /\ ref_frame_map' = IF need_resync THEN NoReferences ELSE ref_frame_map
         /\ need_resync' = FALSE /\ show_existing_frame' = FALSE
         /\ refresh_frame_flags' \in SUBSET Slots
         /\ \A b \in frame_refs' : b \in BufIdx /\ Named(b)'
         /\ show_frame' \in BOOLEAN /\ si_h' \in BOOLEAN /\ intra' \in BOOLEAN
         /\ UNCHANGED <<next_ref_frame_map, hold_ref_buf, ready_for_new_data,
                        had_error, ctx_need_resync, image>>
<1>1. phase = "header" /\ phase' = "allocated" /\ Allocate /\ new_fb_idx' = new_fb_idx
  BY DEF Beginning, IntraFrame, InterFrame, Allocate
<1>2. new_fb_idx \in Bufs /\ pool \in Pools
  BY <1>1 DEF PhaseInv, TypeOK
<1>3. PICK mem \in FreeMemory(pool) : pool' = GetFrameBuffer(pool, new_fb_idx, mem)
  BY <1>1 DEF Allocate
<1>4. /\ pool' \in Pools
      /\ pool'.ref_count = pool.ref_count
      /\ pool'.priv = [pool.priv EXCEPT ![new_fb_idx] = mem]
      /\ pool'.in_use = pool.in_use \cup {mem}
      /\ pool'.returnedTwice = pool.returnedTwice
  BY <1>2, <1>3, GetFrameBufferIs
<1>5. mem \in Memory \ pool.in_use
  BY DEF FreeMemory
<1>6. CASE \E refresh \in SUBSET Slots, show \in BOOLEAN : IntraFrame(refresh, show)
  BY <1>1, <1>2, <1>4, <1>5, <1>6 DEF IntraFrame, TypeOK
<1>7. CASE \E refresh \in SUBSET Slots, show \in BOOLEAN,
              refs \in SUBSET Slots \ {{}} : InterFrame(refs, refresh, show)
  <2>1. PICK refresh \in SUBSET Slots, show \in BOOLEAN,
             refs \in SUBSET Slots \ {{}} : InterFrame(refs, refresh, show)
    BY <1>7
  <2>2. /\ ~need_resync /\ need_resync' = need_resync
        /\ ref_frame_map' = ref_frame_map
        /\ refresh_frame_flags' = refresh /\ show_frame' = show
        /\ show_existing_frame' = FALSE /\ intra' = FALSE
        /\ frame_refs' = {ref_frame_map[s] : s \in refs}
        /\ UNCHANGED <<next_ref_frame_map, hold_ref_buf, apiVars>>
    BY <2>1 DEF InterFrame
  <2>3. \A b \in frame_refs' : b \in BufIdx /\ Named(b)'
    BY <2>2 DEF Named, TypeOK, BufIdx
  <2>4. need_resync' = FALSE /\ si_h' \in BOOLEAN
    BY <2>2 DEF TypeOK, apiVars
  <2> QED
    BY <1>1, <1>2, <1>4, <1>5, <2>2, <2>3, <2>4 DEF apiVars
<1> QED
  BY <1>6, <1>7 DEF Beginning

LEMMA SwapIs ==
  ASSUME TypeOK, PhaseInv, CountInv, SwapFrameBuffers
  PROVE  /\ phase = "decoded" /\ phase' = "ready"
         /\ new_fb_idx \in Bufs /\ pool.ref_count[new_fb_idx] > 0
         /\ pool' \in Pools /\ pool'.priv = pool.priv
         /\ show_existing_frame =>
              /\ pool'.ref_count = [pool.ref_count EXCEPT ![new_fb_idx] = @ - 1]
              /\ pool'.in_use = pool.in_use
              /\ pool'.returnedTwice = pool.returnedTwice
              /\ ref_frame_map' = ref_frame_map
         /\ ~show_existing_frame =>
              /\ \A b \in Bufs : pool'.ref_count[b] =
                   pool.ref_count[b]
                   - Drops(ref_frame_map, refresh_frame_flags, b)
                   - (IF b = new_fb_idx THEN 1 ELSE 0)
              /\ pool'.in_use = pool.in_use \ MemoryOf(pool, Dropped(pool, ref_frame_map, refresh_frame_flags))
              /\ ref_frame_map' = NextRefFrameMap(ref_frame_map,
                                                  refresh_frame_flags, new_fb_idx)
              /\ pool'.returnedTwice =
                   DropHolds(pool, ref_frame_map, refresh_frame_flags).returnedTwice
         /\ hold_ref_buf' = FALSE /\ frame_refs' = {}
         /\ ctx_need_resync' \in BOOLEAN
         /\ UNCHANGED <<next_ref_frame_map, new_fb_idx, refresh_frame_flags,
                        show_existing_frame, show_frame, need_resync, intra,
                        ready_for_new_data, had_error, si_h, image>>
<1>1. phase = "decoded" /\ new_fb_idx \in Bufs /\ pool.ref_count[new_fb_idx] > 0
      /\ pool \in Pools /\ ctx_need_resync \in BOOLEAN
  BY DEF SwapFrameBuffers, PhaseInv, TypeOK
<1>2. /\ phase' = "ready" /\ hold_ref_buf' = FALSE /\ frame_refs' = {}
      /\ ctx_need_resync' \in BOOLEAN
      /\ UNCHANGED <<next_ref_frame_map, new_fb_idx, refresh_frame_flags,
                     show_existing_frame, show_frame, need_resync, intra,
                     ready_for_new_data, had_error, si_h, image>>
  <2>1. ctx_need_resync' \in BOOLEAN
    BY DEF SwapFrameBuffers, CheckResync
  <2> QED
    BY <2>1 DEF SwapFrameBuffers
<1>3. CASE show_existing_frame
  <2>1. /\ pool' = [pool EXCEPT !.ref_count[new_fb_idx] = @ - 1]
        /\ ref_frame_map' = ref_frame_map
    BY <1>3 DEF SwapFrameBuffers
  <2>2. /\ pool' \in Pools
        /\ pool'.ref_count = [pool.ref_count EXCEPT ![new_fb_idx] = @ - 1]
        /\ pool'.priv = pool.priv /\ pool'.in_use = pool.in_use
        /\ pool'.returnedTwice = pool.returnedTwice
    BY <1>1, <2>1 DEF Pools
  <2> QED
    BY <1>1, <1>2, <1>3, <2>1, <2>2
<1>4. CASE ~show_existing_frame
  <2> DEFINE p == DropHolds(pool, ref_frame_map, refresh_frame_flags)
  <2>1. /\ pool' = [p EXCEPT !.ref_count[new_fb_idx] = @ - 1]
        /\ ref_frame_map' = next_ref_frame_map
    BY <1>4 DEF SwapFrameBuffers
  <2>2. /\ hold_ref_buf /\ refresh_frame_flags \in SUBSET Slots
        /\ next_ref_frame_map = NextRefFrameMap(ref_frame_map,
                                  refresh_frame_flags, new_fb_idx)
    BY <1>1, <1>4 DEF PhaseInv, TypeOK
  <2>3. \A b \in Bufs :
          /\ Drops(ref_frame_map, refresh_frame_flags, b) \in Nat
          /\ Drops(ref_frame_map, refresh_frame_flags, b)
               + (IF b = new_fb_idx THEN 1 ELSE 0) <= pool.ref_count[b]
    BY <2>2, HoldsAreThere
  <2>4. pool.ref_count \in [Bufs -> Nat]
    BY <1>1 DEF Pools
  <2>5. \A b \in Bufs :
          Drops(ref_frame_map, refresh_frame_flags, b) <= pool.ref_count[b]
    BY <2>3, <2>4
  <2>6. /\ p \in Pools /\ p.priv = pool.priv
        /\ p.in_use = pool.in_use \ MemoryOf(pool, Dropped(pool, ref_frame_map, refresh_frame_flags))
        /\ \A b \in Bufs : p.ref_count[b] =
             pool.ref_count[b] - Drops(ref_frame_map, refresh_frame_flags, b)
    BY <1>1, <2>2, <2>5, DropHoldsIs
  <2>7. p.ref_count[new_fb_idx] > 0
    BY <1>1, <2>3, <2>4, <2>6
  <2> HIDE DEF p
  <2>8. /\ pool' \in Pools
        /\ pool'.ref_count = [p.ref_count EXCEPT ![new_fb_idx] = @ - 1]
        /\ pool'.priv = p.priv /\ pool'.in_use = p.in_use
        /\ pool'.returnedTwice = p.returnedTwice
    BY <1>1, <2>1, <2>6, <2>7 DEF Pools
  <2>9. p.ref_count \in [Bufs -> Nat]
    BY <2>6 DEF Pools
  <2>10. \A b \in Bufs : pool'.ref_count[b] =
           pool.ref_count[b] - Drops(ref_frame_map, refresh_frame_flags, b)
             - (IF b = new_fb_idx THEN 1 ELSE 0)
    BY <2>3, <2>4, <2>6, <2>8, <2>9
  <2> QED
    BY <1>1, <1>2, <1>4, <2>1, <2>2, <2>6, <2>8, <2>10 DEF p
<1> QED
  BY <1>3, <1>4

-----------------------------------------------------------------------------
(* The invariant *)

\* damage observes the steps that fail.
LEMMA DamageIs ==
  ASSUME TypeOK, PhaseInv, CountInv, Next
  PROVE  /\ damage' \subseteq Phases
         /\ Failing => damage' = damage \cup {phase}
         /\ DecodeOne \/ Showing \/ Beginning \/ GenerateRefMap \/ DecodeTiles
              \/ SwapFrameBuffers \/ GetFrame => damage' = damage
<1>1. damage' = IF had_error' /\ phase # phase' THEN damage \cup {phase} ELSE damage
  BY DEF Next
<1>2. damage' \subseteq Phases
  BY <1>1 DEF TypeOK
<1>3. ASSUME Failing
      PROVE  damage' = damage \cup {phase}
  BY <1>1, <1>3, FailIs
<1>4. ASSUME DecodeOne \/ Showing \/ Beginning \/ GenerateRefMap \/ DecodeTiles
               \/ SwapFrameBuffers \/ GetFrame
      PROVE  damage' = damage
  <2>1. CASE DecodeOne
    BY <1>1, <2>1 DEF DecodeOne
  <2>2. CASE Showing
    <3>1. phase = "header" /\ had_error' = had_error
      BY <2>2, ShowingIs DEF apiVars
    <3> QED
      BY <1>1, <3>1 DEF PhaseInv
  <2>3. CASE Beginning
    <3>1. phase = "header" /\ had_error' = had_error
      BY <2>3, BeginningIs
    <3> QED
      BY <1>1, <3>1 DEF PhaseInv
  <2>4. CASE GenerateRefMap \/ DecodeTiles
    BY <1>1, <2>4 DEF GenerateRefMap, DecodeTiles, apiVars, PhaseInv
  <2>5. CASE SwapFrameBuffers
    <3>1. phase = "decoded" /\ had_error' = had_error
      BY <2>5, SwapIs
    <3> QED
      BY <1>1, <3>1 DEF PhaseInv
  <2>6. CASE GetFrame
    BY <1>1, <2>6 DEF GetFrame
  <2> QED
    BY <1>4, <2>1, <2>2, <2>3, <2>4, <2>5, <2>6
<1> QED
  BY <1>2, <1>3, <1>4

LEMMA NextMapType ==
  ASSUME NEW map \in [Slots -> BufIdx], NEW refresh \in SUBSET Slots,
         NEW new \in BufIdx
  PROVE  NextRefFrameMap(map, refresh, new) \in [Slots -> BufIdx]
BY DEF NextRefFrameMap

LEMMA TypeStep ==
  ASSUME TypeOK, PhaseInv, CountInv, Next
  PROVE  TypeOK'
<1>1. damage' \subseteq Phases
  BY DamageIs
<1>2. Bufs \subseteq BufIdx /\ NoReferences \in [Slots -> BufIdx]
  BY DEF BufIdx, NoReferences
<1>3. CASE DecodeOne
  BY <1>1, <1>2, <1>3, DecodeOneIs DEF DecodeOne, TypeOK, Phases, BufIdx
<1>4. CASE Failing
  BY <1>1, <1>4, FailIs DEF TypeOK, Phases
<1>5. CASE Showing
  BY <1>1, <1>2, <1>5, ShowingIs DEF TypeOK, Phases, apiVars
<1>6. CASE Beginning
  BY <1>1, <1>2, <1>6, BeginningIs DEF TypeOK, Phases
<1>7. CASE GenerateRefMap
  <2>1. /\ new_fb_idx \in Bufs /\ pool \in Pools
        /\ refresh_frame_flags \in SUBSET Slots
        /\ ref_frame_map \in [Slots -> BufIdx]
        /\ pool' = TakeHolds(pool, ref_frame_map, refresh_frame_flags, new_fb_idx)
        /\ next_ref_frame_map' = NextRefFrameMap(ref_frame_map,
                                   refresh_frame_flags, new_fb_idx)
    BY <1>7 DEF GenerateRefMap, TypeOK, PhaseInv
  <2>2. pool' \in Pools
    BY <2>1, TakeHoldsIs
  <2>3. next_ref_frame_map' \in [Slots -> BufIdx]
    BY <1>2, <2>1, NextMapType
  <2> QED
    BY <1>1, <1>7, <2>2, <2>3 DEF GenerateRefMap, TypeOK, Phases, apiVars
<1>8. CASE DecodeTiles
  BY <1>1, <1>8 DEF DecodeTiles, TypeOK, Phases, apiVars, decoderVars
<1>9. CASE SwapFrameBuffers
  <2>1. ref_frame_map' \in [Slots -> BufIdx]
    <3>1. /\ ref_frame_map \in [Slots -> BufIdx] /\ new_fb_idx \in BufIdx
          /\ refresh_frame_flags \in SUBSET Slots /\ show_existing_frame \in BOOLEAN
      BY DEF TypeOK
    <3>2. \/ ref_frame_map' = ref_frame_map
          \/ ref_frame_map' = NextRefFrameMap(ref_frame_map,
                                              refresh_frame_flags, new_fb_idx)
      BY <1>9, <3>1, SwapIs
    <3> QED
      BY <3>1, <3>2, NextMapType
  <2> QED
    BY <1>1, <1>9, <2>1, SwapIs DEF TypeOK, Phases
<1>10. CASE GetFrame
  <2>1. /\ ctx_need_resync' \in BOOLEAN /\ ready_for_new_data' \in BOOLEAN
        /\ image' \in BufIdx
    BY <1>10 DEF GetFrame, CheckResync, TypeOK
  <2> QED
    BY <1>1, <1>10, <2>1 DEF GetFrame, TypeOK, decoderVars
<1> QED
  BY <1>3, <1>4, <1>5, <1>6, <1>7, <1>8, <1>9, <1>10, StepCases DEF Next

LEMMA PhaseStep ==
  ASSUME TypeOK, PhaseInv, CountInv, Next
  PROVE  PhaseInv'
<1>1. INVALID_IDX \notin Bufs
  BY BufsAreIndices
<1>2. pool.ref_count \in [Bufs -> Nat] /\ pool'.ref_count \in [Bufs -> Nat]
  BY TypeStep DEF TypeOK, Pools
<1>3. CASE DecodeOne
  BY <1>1, <1>2, <1>3, DecodeOneIs DEF DecodeOne, PhaseInv
<1>4. CASE Failing
  BY <1>1, <1>2, <1>4, FailIs DEF PhaseInv
<1>5. CASE Showing
  <2>1. pool'.ref_count[new_fb_idx'] > 0
    BY <1>2, <1>5, ShowingIs
  <2>2. /\ phase = "header" /\ phase' = "decoded" /\ new_fb_idx' \in Bufs
        /\ show_existing_frame' = TRUE
        /\ UNCHANGED <<hold_ref_buf, need_resync, had_error, image>>
    BY <1>5, ShowingIs DEF apiVars
  <2> QED
    BY <1>1, <2>1, <2>2 DEF PhaseInv
<1>6. CASE Beginning
  <2>1. /\ phase = "header" /\ phase' = "allocated"
        /\ pool'.ref_count = pool.ref_count
        /\ need_resync' = FALSE /\ show_existing_frame' = FALSE
        /\ UNCHANGED <<new_fb_idx, hold_ref_buf, had_error, image>>
    BY <1>6, BeginningIs
  <2> QED
    BY <1>1, <2>1 DEF PhaseInv
<1>7. CASE GenerateRefMap
  BY <1>1, <1>7 DEF GenerateRefMap, PhaseInv, apiVars
<1>8. CASE DecodeTiles
  <2>1. hold_ref_buf /\ phase = "mapped" /\ new_fb_idx \in Bufs
    BY <1>8 DEF DecodeTiles, PhaseInv
  <2>2. pool.ref_count[new_fb_idx] > 0
    <3> DEFINE r == References(ref_frame_map, new_fb_idx)
    <3>1. r \in Nat /\ pool.ref_count[new_fb_idx] >= r + r + 1
      BY <2>1, HoldsAreThere, ReferencesCount
    <3> QED
      BY <1>2, <2>1, <3>1
  <2> QED
    BY <1>1, <1>8, <2>1, <2>2 DEF DecodeTiles, PhaseInv, apiVars, decoderVars
<1>9. CASE SwapFrameBuffers
  <2>1. /\ phase = "decoded" /\ phase' = "ready" /\ hold_ref_buf' = FALSE
        /\ UNCHANGED <<new_fb_idx, had_error, image, need_resync>>
    BY <1>9, SwapIs
  <2> QED
    BY <1>1, <2>1 DEF PhaseInv
<1>10. CASE GetFrame
  BY <1>1, <1>10 DEF GetFrame, PhaseInv, decoderVars
<1> QED
  BY <1>3, <1>4, <1>5, <1>6, <1>7, <1>8, <1>9, <1>10, StepCases DEF Next

\* How far a count is from what is owed.
Excess(b) == pool.ref_count[b] - Owed(b)

LEMMA CountsAreNumbers ==
  ASSUME TypeOK, TypeOK'
  PROVE  \A b \in Bufs :
           /\ Owed(b) \in Nat /\ Owed(b)' \in Nat
           /\ pool.ref_count[b] \in Nat /\ pool'.ref_count[b] \in Nat
<1>1. /\ \A b \in Bufs : pool.ref_count[b] \in Nat /\ pool'.ref_count[b] \in Nat
      /\ hold_ref_buf \in BOOLEAN /\ hold_ref_buf' \in BOOLEAN
      /\ Cardinality(refresh_frame_flags) \in Nat
      /\ Cardinality(refresh_frame_flags') \in Nat
  BY SlotsFinite DEF TypeOK, Pools
<1>2. ASSUME NEW b
      PROVE  Owed(b) \in Nat /\ Owed(b)' \in Nat
  <2>1. References(ref_frame_map, b) \in Nat /\ References(ref_frame_map', b) \in Nat
    BY ReferencesCount
  <2> QED
    BY <1>1, <2>1 DEF Owed
<1> QED
  BY <1>1, <1>2

\* A step that keeps every excess, and fails nothing.
LEMMA BalancedStep ==
  ASSUME TypeOK, TypeOK', CountInv, damage' = damage,
         need_resync' = need_resync, need_resync => ref_frame_map' = ref_frame_map,
         \A b \in Bufs : Excess(b)' = Excess(b)
  PROVE  CountInv'
<1>1. ASSUME NEW b \in Bufs
      PROVE  /\ pool'.ref_count[b] - Owed(b)' = pool.ref_count[b] - Owed(b)
             /\ Owed(b) \in Nat /\ Owed(b)' \in Nat
             /\ pool.ref_count[b] \in Nat /\ pool'.ref_count[b] \in Nat
  BY CountsAreNumbers DEF Excess
<1>2. ASSUME ~need_resync \/ "mapped" \notin damage, NEW b \in Bufs
      PROVE  pool'.ref_count[b] >= Owed(b)'
  BY <1>1, <1>2 DEF CountInv
<1>3. ASSUME damage = {}, NEW b \in Bufs
      PROVE  pool'.ref_count[b] = Owed(b)'
  BY <1>1, <1>3 DEF CountInv
<1>4. damage = {} /\ need_resync => ref_frame_map' = NoReferences
  BY DEF CountInv
<1> QED
  BY <1>2, <1>3, <1>4 DEF CountInv

LEMMA CountStep ==
  ASSUME TypeOK, PhaseInv, CountInv, Next
  PROVE  CountInv'
<1>1. /\ TypeOK' /\ hold_ref_buf \in BOOLEAN
      /\ refresh_frame_flags \in SUBSET Slots
      /\ Cardinality(refresh_frame_flags) \in Nat
      /\ pool.ref_count \in [Bufs -> Nat] /\ pool \in Pools
  BY TypeStep, SlotsFinite DEF TypeOK, Pools
<1> DEFINE r(b) == References(ref_frame_map, b)
           n == Cardinality(refresh_frame_flags)
<1>2. ASSUME NEW b
      PROVE  r(b) \in Nat
  BY ReferencesCount
<1>3. \A b \in Bufs : pool.ref_count[b] \in Nat /\ pool'.ref_count[b] \in Nat
                      /\ Owed(b) \in Nat /\ Owed(b)' \in Nat
  BY <1>1, CountsAreNumbers
<1>4. CASE DecodeOne
  <2>1. /\ phase = "ready" /\ phase' = "header" /\ ~hold_ref_buf
        /\ hold_ref_buf' = FALSE
        /\ UNCHANGED <<ref_frame_map, need_resync>>
    BY <1>4 DEF DecodeOne, PhaseInv
  <2>2. ASSUME NEW b \in Bufs
        PROVE  Excess(b)' = Excess(b)
    <3>1. pool'.ref_count[b] = pool.ref_count[b] + (IF b = new_fb_idx' THEN 1 ELSE 0)
      BY <1>1, <1>4, DecodeOneIs
    <3>2. Owed(b) = r(b) /\ Owed(b)' = r(b) + (IF b = new_fb_idx' THEN 1 ELSE 0)
      BY <1>2, <2>1 DEF Owed
    <3> QED
      BY <1>2, <1>3, <3>1, <3>2 DEF Excess
  <2> QED
    BY <1>1, <1>4, <2>1, <2>2, DamageIs, BalancedStep
<1>5. CASE Failing
  <2>1. /\ phase \in {"header", "allocated", "mapped"} /\ phase' = "ready"
        /\ hold_ref_buf' = FALSE /\ need_resync' = TRUE
        /\ UNCHANGED <<ref_frame_map, new_fb_idx>>
        /\ damage' = damage \cup {phase}
    BY <1>5, FailIs, DamageIs
  <2>2. CASE phase = "mapped"
    BY <2>1, <2>2 DEF CountInv
  <2>3. CASE phase # "mapped"
    <3>1. ~hold_ref_buf /\ phase # "ready"
      BY <2>1, <2>3 DEF PhaseInv
    <3>2. pool.ref_count[new_fb_idx] = 1
      BY <2>1, <2>3 DEF PhaseInv
    <3>3. ASSUME NEW b \in Bufs
          PROVE  Excess(b)' = Excess(b)
      <4>1. pool'.ref_count = [pool.ref_count EXCEPT ![new_fb_idx] = 0]
        BY <1>5, <2>3, FailIs
      <4>2. pool'.ref_count[b] = pool.ref_count[b] - (IF b = new_fb_idx THEN 1 ELSE 0)
        BY <1>1, <3>2, <4>1
      <4>3. Owed(b)' = r(b) /\ Owed(b) = r(b) + (IF b = new_fb_idx THEN 1 ELSE 0)
        BY <1>2, <2>1, <3>1 DEF Owed
      <4> QED
        BY <1>2, <1>3, <4>2, <4>3 DEF Excess
    <3>4. ASSUME "mapped" \notin damage', NEW b \in Bufs
          PROVE  pool'.ref_count[b] >= Owed(b)'
      <4>1. pool.ref_count[b] >= Owed(b)
        BY <2>1, <3>4 DEF CountInv
      <4> QED
        BY <1>3, <3>3, <4>1 DEF Excess
    <3> QED
      BY <2>1, <3>4 DEF CountInv
  <2> QED
    BY <2>2, <2>3
<1>6. CASE Showing
  <2>1. /\ phase = "header" /\ phase' = "decoded" /\ ~hold_ref_buf
        /\ UNCHANGED <<ref_frame_map, need_resync, hold_ref_buf>>
    BY <1>6, ShowingIs DEF PhaseInv
  <2>2. ASSUME NEW b \in Bufs
        PROVE  Excess(b)' = Excess(b)
    <3>1. pool'.ref_count[b] = pool.ref_count[b] - (IF b = new_fb_idx THEN 1 ELSE 0)
                               + (IF b = new_fb_idx' THEN 1 ELSE 0)
      BY <1>6, ShowingIs
    <3>2. /\ Owed(b) = r(b) + (IF b = new_fb_idx THEN 1 ELSE 0)
          /\ Owed(b)' = r(b) + (IF b = new_fb_idx' THEN 1 ELSE 0)
      BY <1>2, <2>1 DEF Owed
    <3> QED
      BY <1>2, <1>3, <3>1, <3>2 DEF Excess
  <2> QED
    BY <1>1, <1>6, <2>1, <2>2, DamageIs, BalancedStep
<1>7. CASE Beginning
  <2>1. /\ phase = "header" /\ phase' = "allocated" /\ ~hold_ref_buf
        /\ pool'.ref_count = pool.ref_count
        /\ ref_frame_map' = IF need_resync THEN NoReferences ELSE ref_frame_map
        /\ need_resync' = FALSE
        /\ UNCHANGED <<new_fb_idx, hold_ref_buf>>
    BY <1>7, BeginningIs DEF PhaseInv
  <2>2. damage' = damage
    BY <1>7, DamageIs
  <2>3. ASSUME NEW b \in Bufs
        PROVE  /\ Owed(b) = r(b) + (IF b = new_fb_idx THEN 1 ELSE 0)
               /\ Owed(b)' = References(ref_frame_map', b)
                             + (IF b = new_fb_idx THEN 1 ELSE 0)
    <3>1. References(ref_frame_map', b) \in Nat
      BY ReferencesCount
    <3> QED
      BY <1>2, <2>1, <3>1 DEF Owed
  <2>4. CASE ~need_resync \/ ref_frame_map = NoReferences
    <3>1. ref_frame_map' = ref_frame_map
      BY <2>1, <2>4
    <3>2. ASSUME NEW b \in Bufs
          PROVE  /\ Owed(b)' = Owed(b)
                 /\ ~need_resync => pool.ref_count[b] >= Owed(b)
                 /\ damage = {} => pool.ref_count[b] = Owed(b)
      BY <2>3, <3>1 DEF CountInv
    <3>3. CASE ~need_resync
      BY <2>1, <2>2, <3>2, <3>3 DEF CountInv
    <3>4. CASE need_resync
      <4>1. ASSUME NEW b \in Bufs
            PROVE  pool'.ref_count[b] >= Owed(b)'
        <5>1. \A s \in Slots : ref_frame_map'[s] # b
          BY <2>1, <3>4, BufsAreIndices DEF NoReferences
        <5>2. References(ref_frame_map', b) = 0
          BY <5>1, ReferencesCount
        <5>3. pool.ref_count[new_fb_idx] = 1
          BY <2>1 DEF PhaseInv
        <5> QED
          BY <1>3, <2>1, <2>3, <5>2, <5>3
      <4> QED
        BY <2>1, <2>2, <3>2, <4>1 DEF CountInv
    <3> QED
      BY <3>3, <3>4
  <2>5. CASE need_resync /\ ref_frame_map # NoReferences
    <3>1. damage # {}
      BY <2>5 DEF CountInv
    <3>2. ASSUME NEW b \in Bufs
          PROVE  pool'.ref_count[b] >= Owed(b)'
      <4>1. \A s \in Slots : ref_frame_map'[s] # b
        BY <2>1, <2>5, BufsAreIndices DEF NoReferences
      <4>2. References(ref_frame_map', b) = 0
        BY <4>1, ReferencesCount
      <4>3. pool.ref_count[new_fb_idx] = 1
        BY <2>1 DEF PhaseInv
      <4> QED
        BY <1>3, <2>1, <2>3, <4>2, <4>3
    <3> QED
      BY <2>2, <3>1, <3>2 DEF CountInv
  <2> QED
    BY <2>4, <2>5
<1>8. CASE GenerateRefMap
  <2>1. /\ phase = "allocated" /\ phase' = "mapped" /\ ~hold_ref_buf
        /\ hold_ref_buf' = TRUE /\ new_fb_idx \in Bufs
        /\ UNCHANGED <<ref_frame_map, need_resync, new_fb_idx, refresh_frame_flags>>
        /\ pool' = TakeHolds(pool, ref_frame_map, refresh_frame_flags, new_fb_idx)
    BY <1>8 DEF GenerateRefMap, PhaseInv
  <2>2. ASSUME NEW b \in Bufs
        PROVE  Excess(b)' = Excess(b)
    <3>1. pool'.ref_count[b] = pool.ref_count[b] + r(b)
                               + (IF b = new_fb_idx THEN n ELSE 0)
      BY <1>1, <2>1, TakeHoldsIs
    <3>2. /\ Owed(b) = r(b) + (IF b = new_fb_idx THEN 1 ELSE 0)
          /\ Owed(b)' = r(b) + (r(b) + (IF b = new_fb_idx THEN n ELSE 0))
                        + (IF b = new_fb_idx THEN 1 ELSE 0)
      BY <1>2, <2>1 DEF Owed
    <3> HIDE DEF r, n
    <3>3. n \in Nat
      BY <1>1 DEF n
    <3> QED
      BY <1>2, <1>3, <3>1, <3>2, <3>3 DEF Excess
  <2> QED
    BY <1>1, <1>8, <2>1, <2>2, DamageIs, BalancedStep
<1>9. CASE DecodeTiles
  <2>1. /\ phase = "mapped" /\ phase' = "decoded"
        /\ UNCHANGED <<pool, decoderVars>>
    BY <1>9 DEF DecodeTiles
  <2>2. ASSUME NEW b \in Bufs
        PROVE  Excess(b)' = Excess(b)
    BY <2>1 DEF Excess, Owed, decoderVars
  <2> QED
    BY <1>1, <1>9, <2>1, <2>2, DamageIs, BalancedStep DEF decoderVars
<1>10. CASE SwapFrameBuffers
  <2>1. /\ phase = "decoded" /\ phase' = "ready" /\ hold_ref_buf' = FALSE
        /\ UNCHANGED <<need_resync, new_fb_idx, refresh_frame_flags>>
        /\ new_fb_idx \in Bufs
    BY <1>10, SwapIs
  <2>2. hold_ref_buf <=> ~show_existing_frame
    BY <2>1 DEF PhaseInv
  <2>3. ASSUME NEW b \in Bufs
        PROVE  Excess(b)' = Excess(b)
    <3>1. CASE show_existing_frame
      <4>1. /\ pool'.ref_count[b] = pool.ref_count[b] - (IF b = new_fb_idx THEN 1 ELSE 0)
            /\ ref_frame_map' = ref_frame_map
        BY <1>1, <1>10, <3>1, SwapIs
      <4>2. Owed(b)' = r(b) /\ Owed(b) = r(b) + (IF b = new_fb_idx THEN 1 ELSE 0)
        BY <1>2, <2>1, <2>2, <3>1, <4>1 DEF Owed
      <4> QED
        BY <1>2, <1>3, <4>1, <4>2 DEF Excess
    <3>2. CASE ~show_existing_frame
      <4> DEFINE d == Refreshed(ref_frame_map, refresh_frame_flags, b)
      <4>1. /\ pool'.ref_count[b] = pool.ref_count[b] - (r(b) + d)
                                    - (IF b = new_fb_idx THEN 1 ELSE 0)
            /\ ref_frame_map' = NextRefFrameMap(ref_frame_map,
                                                refresh_frame_flags, new_fb_idx)
        BY <1>10, <3>2, SwapIs DEF Drops
      <4>2. References(ref_frame_map', b) =
              r(b) - d + (IF b = new_fb_idx THEN n ELSE 0)
        BY <1>1, <4>1, NextReferences
      <4>3. d \in Nat /\ n \in Nat
        BY <1>1, RefreshedCount
      <4>4. /\ Owed(b)' = References(ref_frame_map', b)
            /\ Owed(b) = r(b) + (r(b) + (IF b = new_fb_idx THEN n ELSE 0))
                         + (IF b = new_fb_idx THEN 1 ELSE 0)
        <5>1. References(ref_frame_map', b) \in Nat
          BY ReferencesCount
        <5> QED
          BY <1>2, <2>1, <2>2, <3>2, <5>1 DEF Owed
      <4> HIDE DEF r, n, d
      <4> QED
        BY <1>2, <1>3, <4>1, <4>2, <4>3, <4>4 DEF Excess
    <3> QED
      BY <3>1, <3>2
  <2>4. need_resync => ref_frame_map' = ref_frame_map
    BY <1>10, <2>2, SwapIs DEF PhaseInv
  <2> QED
    BY <1>1, <1>10, <2>1, <2>3, <2>4, DamageIs, BalancedStep
<1>11. CASE GetFrame
  <2>1. UNCHANGED <<pool, phase, decoderVars>>
    BY <1>11 DEF GetFrame
  <2>2. ASSUME NEW b \in Bufs
        PROVE  Excess(b)' = Excess(b)
    BY <2>1 DEF Excess, Owed, decoderVars
  <2> QED
    BY <1>1, <1>11, <2>1, <2>2, DamageIs, BalancedStep DEF decoderVars
<1> QED
  BY <1>4, <1>5, <1>6, <1>7, <1>8, <1>9, <1>10, <1>11, StepCases DEF Next

-----------------------------------------------------------------------------
(* Memory *)

\* What the map names has a holder.
LEMMA NamedHasHolder ==
  ASSUME TypeOK, CountInv, ~need_resync \/ "mapped" \notin damage,
         NEW b \in Bufs, Named(b)
  PROVE  /\ pool.ref_count[b] > 0
         /\ phase # "ready" /\ b = new_fb_idx => pool.ref_count[b] > 1
<1> DEFINE r == References(ref_frame_map, b)
           n == Cardinality(refresh_frame_flags)
<1>1. r \in Nat /\ r # 0 /\ n \in Nat
  BY ReferencesCount, SlotsFinite DEF Named, TypeOK
<1>2. /\ pool.ref_count[b] >= Owed(b) /\ pool.ref_count[b] \in Nat
      /\ hold_ref_buf \in BOOLEAN
  BY DEF CountInv, TypeOK, Pools
<1>3. Owed(b) = r + (IF hold_ref_buf THEN r + (IF b = new_fb_idx THEN n ELSE 0) ELSE 0)
                  + (IF phase # "ready" /\ b = new_fb_idx THEN 1 ELSE 0)
  BY DEF Owed
<1> HIDE DEF r, n
<1> QED
  BY <1>1, <1>2, <1>3

\* Dropping the holds of a frame takes the last holder only of buffers that the
\* map names and the next one does not.
LEMMA DroppedAre ==
  ASSUME TypeOK, PhaseInv, CountInv, hold_ref_buf,
         NEW b \in Dropped(pool, ref_frame_map, refresh_frame_flags)
  PROVE  /\ b \in Bufs /\ Named(b) /\ b # new_fb_idx
         /\ \A s \in Slots : next_ref_frame_map[s] # b
<1> DEFINE r == References(ref_frame_map, b)
           d == Refreshed(ref_frame_map, refresh_frame_flags, b)
<1>1. /\ b \in Bufs /\ pool.ref_count[b] = r + d /\ r + d > 0
      /\ refresh_frame_flags \in SUBSET Slots
  BY DEF Dropped, Drops, TypeOK
<1>2. r \in Nat /\ d \in Nat /\ d <= r
  BY <1>1, ReferencesCount, RefreshedCount
<1>3. pool.ref_count[b] >= r + r + (IF b = new_fb_idx THEN 1 ELSE 0)
  BY <1>1, HoldsAreThere
<1>4. b # new_fb_idx /\ d = r /\ r # 0
  <2> HIDE DEF r, d
  <2> QED
    BY <1>1, <1>2, <1>3
<1>5. Named(b)
  BY <1>4, ReferencesCount DEF Named
<1>6. \A s \in Slots : ref_frame_map[s] = b => s \in refresh_frame_flags
  BY <1>1, <1>4, RefreshedCount
<1>7. next_ref_frame_map =
        NextRefFrameMap(ref_frame_map, refresh_frame_flags, new_fb_idx)
  BY DEF PhaseInv
<1> QED
  BY <1>1, <1>4, <1>5, <1>6, <1>7 DEF NextRefFrameMap

LEMMA KeptStep ==
  ASSUME TypeOK, PhaseInv, CountInv, KeptInv, Next
  PROVE  KeptInv'
<1> DEFINE Intact == /\ \A b \in Kept : pool.priv[b] \in pool.in_use
                     /\ \A b, c \in Kept : pool.priv[b] = pool.priv[c] => b = c
<1>1. /\ pool.priv \in [Bufs -> Memory \cup {NoMemory}]
      /\ pool.in_use \in SUBSET Memory /\ pool.ref_count \in [Bufs -> Nat]
  BY DEF TypeOK, Pools
<1>2. ASSUME Kept' \subseteq Kept, ~need_resync,
             pool'.priv = pool.priv, pool'.in_use = pool.in_use
      PROVE  Intact'
  BY <1>2 DEF KeptInv
<1>3. CASE DecodeOne
  <2>1. /\ phase = "ready" /\ phase' = "header"
        /\ UNCHANGED <<ref_frame_map, need_resync>>
    BY <1>3 DEF DecodeOne
  <2>2. \A b \in Kept' : b \in Kept /\ Named(b)
    BY <2>1 DEF Kept, Named
  <2>3. /\ pool'.priv = pool.priv
        /\ pool'.in_use =
              IF new_fb_idx # INVALID_IDX /\ pool.ref_count[new_fb_idx] = 0
                THEN pool.in_use \ {pool.priv[new_fb_idx]}
                ELSE pool.in_use
    BY <1>3, DecodeOneIs
  <2>4. ASSUME ~need_resync
        PROVE  Intact'
    <3>1. CASE new_fb_idx # INVALID_IDX /\ pool.ref_count[new_fb_idx] = 0
      <4>1. new_fb_idx \in Kept
        BY <2>1, <3>1 DEF TypeOK, BufIdx, Kept
      <4>2. ~Named(new_fb_idx)
        BY <2>4, <3>1, <4>1, NamedHasHolder DEF Kept
      <4>3. \A b \in Kept' : pool.priv[b] # pool.priv[new_fb_idx]
        BY <2>2, <2>4, <4>1, <4>2 DEF KeptInv
      <4> QED
        BY <2>2, <2>3, <2>4, <3>1, <4>3 DEF KeptInv
    <3>2. CASE ~(new_fb_idx # INVALID_IDX /\ pool.ref_count[new_fb_idx] = 0)
      BY <1>2, <2>2, <2>3, <2>4, <3>2
    <3> QED
      BY <3>1, <3>2
  <2> QED
    BY <2>1, <2>4 DEF KeptInv
<1>4. CASE Failing
  BY <1>4, FailIs DEF KeptInv
<1>5. CASE Showing
  <2>1. /\ phase = "header" /\ phase' = "decoded" /\ Named(new_fb_idx')
        /\ pool'.priv = pool.priv /\ pool'.in_use = pool.in_use
        /\ UNCHANGED <<ref_frame_map, need_resync>>
    BY <1>5, ShowingIs
  <2>2. Kept' \subseteq Kept
    BY <2>1 DEF Kept, Named
  <2> QED
    BY <1>2, <2>1, <2>2 DEF KeptInv
<1>6. CASE Beginning
  <2>1. /\ phase = "header" /\ phase' = "allocated" /\ new_fb_idx' = new_fb_idx
        /\ new_fb_idx \in Bufs
        /\ ref_frame_map' = IF need_resync THEN NoReferences ELSE ref_frame_map
        /\ \A b \in frame_refs' : Named(b)'
    BY <1>6, BeginningIs
  <2>2. PICK mem \in Memory \ pool.in_use :
          /\ pool'.priv = [pool.priv EXCEPT ![new_fb_idx] = mem]
          /\ pool'.in_use = pool.in_use \cup {mem}
    BY <1>6, BeginningIs
  <2>3. ASSUME NEW b \in Kept', b # new_fb_idx
        PROVE  ~need_resync /\ b \in Kept
    <3>1. PICK s \in Slots : ref_frame_map'[s] = b
      BY <2>1, <2>3 DEF Kept, Named
    <3>2. ~need_resync
      BY <2>1, <2>3, <3>1, BufsAreIndices DEF NoReferences, Kept
    <3> QED
      BY <2>1, <2>3, <3>1, <3>2 DEF Kept, Named
  <2>4. ASSUME NEW b \in Kept', b # new_fb_idx
        PROVE  /\ pool'.priv[b] = pool.priv[b] /\ pool.priv[b] \in pool.in_use
               /\ pool.priv[b] # mem
    BY <1>1, <2>2, <2>3, <2>4 DEF KeptInv, Kept
  <2>5. pool'.priv[new_fb_idx] = mem
    BY <1>1, <2>1, <2>2
  <2>6. \A b \in Kept' : pool'.priv[b] \in pool'.in_use
    BY <2>2, <2>4, <2>5
  <2>7. ASSUME NEW b \in Kept', NEW c \in Kept', pool'.priv[b] = pool'.priv[c]
        PROVE  b = c
    <3>1. CASE b = new_fb_idx \/ c = new_fb_idx
      BY <2>4, <2>5, <2>7, <3>1
    <3>2. CASE b # new_fb_idx /\ c # new_fb_idx
      BY <2>3, <2>4, <2>7, <3>2 DEF KeptInv
    <3> QED
      BY <3>1, <3>2
  <2>8. ASSUME NEW b \in frame_refs', b = new_fb_idx
        PROVE  FALSE
    <3>1. PICK s \in Slots : ref_frame_map'[s] = b
      BY <2>1, <2>8 DEF Named
    <3>2. ~need_resync
      BY <2>1, <2>8, <3>1, BufsAreIndices DEF NoReferences
    <3>3. Named(b) /\ pool.ref_count[b] = 1
      BY <2>1, <2>8, <3>1, <3>2 DEF Named, PhaseInv
    <3> QED
      BY <2>1, <2>8, <3>2, <3>3, NamedHasHolder
  <2> QED
    BY <2>1, <2>6, <2>7, <2>8 DEF KeptInv
<1>7. CASE GenerateRefMap
  <2>1. /\ phase = "allocated" /\ phase' = "mapped" /\ new_fb_idx \in Bufs
        /\ UNCHANGED <<ref_frame_map, need_resync, new_fb_idx, frame_refs>>
        /\ pool' = TakeHolds(pool, ref_frame_map, refresh_frame_flags, new_fb_idx)
    BY <1>7 DEF GenerateRefMap, PhaseInv
  <2>2. Kept' \subseteq Kept
    BY <2>1 DEF Kept, Named
  <2>3. pool'.priv = pool.priv /\ pool'.in_use = pool.in_use
    BY <2>1 DEF TakeHolds
  <2> QED
    BY <1>2, <2>1, <2>2, <2>3 DEF KeptInv, Named
<1>8. CASE DecodeTiles
  <2>1. phase = "mapped" /\ phase' = "decoded" /\ UNCHANGED <<pool, decoderVars>>
    BY <1>8 DEF DecodeTiles
  <2>2. Kept' \subseteq Kept
    BY <2>1 DEF Kept, Named, decoderVars
  <2> QED
    BY <1>2, <2>1, <2>2 DEF KeptInv, decoderVars
<1>9. CASE SwapFrameBuffers
  <2>1. /\ phase = "decoded" /\ phase' = "ready" /\ new_fb_idx \in Bufs
        /\ UNCHANGED <<need_resync, new_fb_idx>>
        /\ pool'.priv = pool.priv
    BY <1>9, SwapIs
  <2>2. CASE show_existing_frame
    <3>1. ref_frame_map' = ref_frame_map /\ pool'.in_use = pool.in_use
      BY <1>9, <2>2, SwapIs
    <3>2. Kept' \subseteq Kept
      BY <2>1, <3>1 DEF Kept, Named
    <3> QED
      BY <1>2, <2>1, <3>1, <3>2 DEF KeptInv
  <2>3. CASE ~show_existing_frame
    <3> DEFINE D == Dropped(pool, ref_frame_map, refresh_frame_flags)
    <3>1. hold_ref_buf /\ ~need_resync
      BY <2>1, <2>3 DEF PhaseInv
    <3>2. /\ pool'.in_use = pool.in_use \ MemoryOf(pool, D)
          /\ ref_frame_map' = NextRefFrameMap(ref_frame_map,
                                              refresh_frame_flags, new_fb_idx)
          /\ ref_frame_map' = next_ref_frame_map
      BY <1>9, <2>3, <3>1, SwapIs DEF PhaseInv
    <3>3. Kept' \subseteq Kept
      BY <2>1, <3>2 DEF Kept, Named, NextRefFrameMap
    <3>4. ASSUME NEW b \in Kept', NEW c \in D
          PROVE  pool.priv[b] # pool.priv[c]
      <4>1. /\ c \in Bufs /\ Named(c) /\ c # new_fb_idx
            /\ \A s \in Slots : next_ref_frame_map[s] # c
        BY <3>1, DroppedAre
      <4>2. b # c
        BY <2>1, <3>2, <4>1 DEF Kept, Named
      <4> QED
        BY <3>1, <3>3, <4>1, <4>2 DEF KeptInv, Kept
    <3>5. \A b \in Kept' : pool'.priv[b] \in pool'.in_use
      BY <2>1, <3>1, <3>2, <3>3, <3>4 DEF KeptInv, MemoryOf
    <3>6. \A b, c \in Kept' : pool'.priv[b] = pool'.priv[c] => b = c
      BY <2>1, <3>1, <3>3 DEF KeptInv
    <3> QED
      BY <2>1, <3>5, <3>6 DEF KeptInv
  <2> QED
    BY <2>2, <2>3
<1>10. CASE GetFrame
  <2>1. UNCHANGED <<pool, phase, decoderVars>>
    BY <1>10 DEF GetFrame
  <2>2. Kept' \subseteq Kept
    BY <2>1 DEF Kept, Named, decoderVars
  <2> QED
    BY <1>2, <2>1, <2>2 DEF KeptInv, Named, decoderVars
<1> QED
  BY <1>3, <1>4, <1>5, <1>6, <1>7, <1>8, <1>9, <1>10, StepCases DEF Next

\* The frame in new_fb_idx has no memory, or has lost it.
HeaderOnly == phase = "header" \/ (phase = "ready" /\ had_error)

LEMMA OwnersAre ==
  TypeOK => \A b : b \in Owners <=>
    /\ b \in Bufs
    /\ pool.ref_count[b] > 0 \/ b = new_fb_idx
    /\ ~(HeaderOnly /\ b = new_fb_idx)
BY BufsAreIndices DEF TypeOK, Owners, Live, HeaderOnly, BufIdx

\* Giving back memory that is in use, of buffers that do not share any, gives none
\* back twice.
LEMMA DropHoldsOnce ==
  ASSUME NEW p \in Pools, NEW map, NEW refresh \in SUBSET Slots,
         \A b \in Bufs : Drops(map, refresh, b) <= p.ref_count[b],
         \A b \in Dropped(p, map, refresh) : p.priv[b] \in p.in_use,
         \A b, c \in Dropped(p, map, refresh) : p.priv[b] = p.priv[c] => b = c
  PROVE  DropHolds(p, map, refresh).returnedTwice = p.returnedTwice
<1> DEFINE drops(b) == References(map, b) + Cardinality({s \in refresh : map[s] = b})
           gone == {b \in Bufs : p.ref_count[b] \in 1 .. drops(b)
                                 /\ p.priv[b] # NoMemory}
           memory == {p.priv[b] : b \in gone}
           f == [b \in gone |-> p.priv[b]]
<1>1. p.ref_count \in [Bufs -> Nat] /\ p.returnedTwice \in BOOLEAN
  BY DEF Pools
<1>2. ASSUME NEW b
      PROVE  drops(b) \in Nat /\ drops(b) = Drops(map, refresh, b)
  <2>1. References(map, b) \in Nat
    BY ReferencesCount
  <2>2. Cardinality({s \in refresh : map[s] = b}) \in Nat
    BY SlotsFinite
  <2> QED
    BY <2>1, <2>2 DEF Drops, Refreshed
<1>3. gone \subseteq Dropped(p, map, refresh)
  <2> SUFFICES ASSUME NEW b \in gone
               PROVE  b \in Dropped(p, map, refresh)
    OBVIOUS
  <2>1. /\ b \in Bufs /\ p.ref_count[b] \in 1 .. drops(b)
        /\ drops(b) <= p.ref_count[b]
    BY <1>2
  <2> QED
    BY <1>1, <1>2, <2>1 DEF Dropped
<1> HIDE DEF gone
<1>4. IsFiniteSet(gone) /\ Cardinality(gone) \in Nat
  <2>1. IsFiniteSet(Bufs)
    BY PoolSizes, FS_Interval DEF Bufs
  <2>2. gone \in SUBSET Bufs
    BY <1>3 DEF Dropped
  <2> QED
    BY <2>1, <2>2, FS_Subset, FS_CardinalityType
<1>5. f \in Surjection(gone, memory)
  BY DEF Surjection
<1>6. f \in Injection(gone, memory)
  BY <1>3 DEF Injection, IsInjective
<1>7. Cardinality(memory) = Cardinality(gone)
  BY <1>4, <1>5, <1>6, FS_Surjection
<1>8. memory \subseteq p.in_use
  BY <1>3
<1>9. DropHolds(p, map, refresh).returnedTwice =
        \/ p.returnedTwice
        \/ ~(memory \subseteq p.in_use)
        \/ Cardinality(memory) # Cardinality(gone)
  BY DEF DropHolds, gone, Pools
<1> QED
  BY <1>1, <1>7, <1>8, <1>9

LEMMA MemoryStep ==
  ASSUME TypeOK, PhaseInv, CountInv, MemoryInv, Next
  PROVE  MemoryInv'
<1> DEFINE Exact == /\ pool.in_use = {pool.priv[b] : b \in Owners}
                    /\ \A b, c \in Owners : pool.priv[b] = pool.priv[c] => b = c
           Early == damage \subseteq {"allocated"}
           Back == pool.ref_count[new_fb_idx] = 0
                   /\ pool.priv[new_fb_idx] \notin pool.in_use
           Clean == ~had_error /\ ~pool.returnedTwice
<1>1. /\ TypeOK' /\ PhaseInv'
      /\ pool \in Pools /\ pool.ref_count \in [Bufs -> Nat]
      /\ pool'.ref_count \in [Bufs -> Nat]
      /\ pool.priv \in [Bufs -> Memory \cup {NoMemory}]
      /\ pool.in_use \in SUBSET Memory
  BY TypeStep, PhaseStep DEF TypeOK, Pools
<1>2. \A b : b \in Owners <=>
        /\ b \in Bufs
        /\ pool.ref_count[b] > 0 \/ b = new_fb_idx
        /\ ~(HeaderOnly /\ b = new_fb_idx)
  BY OwnersAre
<1>3. \A b : b \in Owners' <=>
        /\ b \in Bufs
        /\ pool'.ref_count[b] > 0 \/ b = new_fb_idx'
        /\ ~(HeaderOnly' /\ b = new_fb_idx')
  BY <1>1, BufsAreIndices DEF TypeOK, Owners, Live, HeaderOnly, BufIdx
<1>4. damage \subseteq damage'
  BY DamageIs, StepCases DEF Next
<1>5. ASSUME Early
      PROVE  Exact /\ "mapped" \notin damage
  BY <1>5 DEF MemoryInv, MemoryExact
<1>6. ASSUME Early, NEW D \in SUBSET Bufs,
             \A b : b \in Owners' <=> b \in Owners /\ b \notin D,
             pool'.priv = pool.priv,
             pool'.in_use = pool.in_use \ MemoryOf(pool, D),
             D \subseteq Owners
      PROVE  Exact'
  <2>1. Exact
    BY <1>5, <1>6
  <2>2. \A b \in Owners', c \in D : pool.priv[b] # pool.priv[c]
    BY <1>6, <2>1
  <2>3. pool'.in_use = {pool'.priv[b] : b \in Owners'}
    BY <1>6, <2>1, <2>2 DEF MemoryOf
  <2>4. \A b, c \in Owners' : pool'.priv[b] = pool'.priv[c] => b = c
    BY <1>6, <2>1
  <2> QED
    BY <2>3, <2>4
<1>7. ASSUME Early, \A b : b \in Owners' <=> b \in Owners,
             pool'.priv = pool.priv, pool'.in_use = pool.in_use
      PROVE  Exact'
  <2>1. MemoryOf(pool, {}) = {}
    BY DEF MemoryOf
  <2>2. /\ {} \in SUBSET Bufs /\ {} \subseteq Owners
        /\ \A b : b \in Owners' <=> b \in Owners /\ b \notin {}
        /\ pool'.in_use = pool.in_use \ MemoryOf(pool, {})
    BY <1>7, <2>1
  <2> QED
    BY <1>6, <1>7, <2>2
<1>8. SUFFICES /\ Early' => Exact'
               /\ Early' /\ phase' = "ready" /\ had_error' => Back'
               /\ damage' = {} => Clean'
  BY DEF MemoryInv, MemoryExact
<1>9. MemoryExact /\ (Early /\ phase = "ready" /\ had_error => Back)
      /\ (damage = {} => Clean)
  BY DEF MemoryInv
<1> HIDE DEF Exact, Back, Clean, Early
<1>10. CASE DecodeOne
  <2>1. /\ phase = "ready" /\ phase' = "header" /\ had_error' = FALSE
        /\ damage' = damage /\ HeaderOnly' /\ (HeaderOnly <=> had_error)
    BY <1>10, DamageIs DEF DecodeOne, HeaderOnly
  <2>2. /\ new_fb_idx' \in Bufs
        /\ pool.ref_count[new_fb_idx'] = 0
        /\ pool'.ref_count = [pool.ref_count EXCEPT ![new_fb_idx'] = 1]
        /\ pool'.priv = pool.priv
        /\ pool'.in_use =
             IF new_fb_idx # INVALID_IDX /\ pool.ref_count[new_fb_idx] = 0
               THEN pool.in_use \ {pool.priv[new_fb_idx]}
               ELSE pool.in_use
        /\ new_fb_idx = INVALID_IDX \/ pool.priv[new_fb_idx] \in pool.in_use =>
             pool'.returnedTwice = pool.returnedTwice
    BY <1>10, DecodeOneIs
  <2>3. \A b : b \in Owners' <=> b \in Bufs /\ pool.ref_count[b] > 0
    BY <1>1, <1>3, <2>1, <2>2
  <2>4. new_fb_idx = INVALID_IDX \/ new_fb_idx \in Bufs
    BY DEF TypeOK, BufIdx
  <2>5. ASSUME Early
        PROVE  Exact'
    <3>1. CASE had_error
      <4>1. Back /\ new_fb_idx \in Bufs
        BY <1>9, <2>1, <2>5, <3>1 DEF PhaseInv
      <4>2. pool.ref_count[new_fb_idx] = 0 /\ pool.priv[new_fb_idx] \notin pool.in_use
        BY <4>1 DEF Back
      <4>3. \A b : b \in Owners' <=> b \in Owners
        BY <1>2, <2>1, <2>3, <3>1, <4>2
      <4>4. pool'.in_use = pool.in_use
        BY <2>2, <4>2
      <4> QED
        BY <1>7, <2>2, <2>5, <4>3, <4>4
    <3>2. CASE ~had_error /\ new_fb_idx \in Bufs /\ pool.ref_count[new_fb_idx] = 0
      <4>1. /\ {new_fb_idx} \in SUBSET Bufs /\ {new_fb_idx} \subseteq Owners
            /\ \A b : b \in Owners' <=> b \in Owners /\ b \notin {new_fb_idx}
        BY <1>2, <2>1, <2>3, <3>2
      <4>2. MemoryOf(pool, {new_fb_idx}) = {pool.priv[new_fb_idx]}
        BY DEF MemoryOf
      <4>3. pool'.in_use = pool.in_use \ MemoryOf(pool, {new_fb_idx})
        BY <2>2, <3>2, <4>2, BufsAreIndices
      <4> QED
        BY <1>6, <2>2, <2>5, <4>1, <4>3
    <3>3. CASE ~had_error /\ (new_fb_idx \in Bufs => pool.ref_count[new_fb_idx] # 0)
      <4>1. \A b : b \in Owners' <=> b \in Owners
        BY <1>1, <1>2, <2>1, <2>3, <3>3
      <4>2. pool'.in_use = pool.in_use
        BY <2>2, <2>4, <3>3
      <4> QED
        BY <1>7, <2>2, <2>5, <4>1, <4>2
    <3> QED
      BY <3>1, <3>2, <3>3
  <2>6. ASSUME damage = {}
        PROVE  Clean'
    <3>1. Clean /\ Early
      BY <1>9, <2>6 DEF Early
    <3>2. Exact /\ ~had_error
      BY <1>5, <3>1 DEF Clean
    <3>3. new_fb_idx = INVALID_IDX \/ pool.priv[new_fb_idx] \in pool.in_use
      BY <1>2, <2>1, <2>4, <3>2 DEF Exact
    <3> QED
      BY <2>1, <2>2, <3>1, <3>3 DEF Clean
  <2> QED
    BY <2>1, <2>5, <2>6 DEF Early
<1>11. CASE Failing
  <2>1. /\ phase \in {"header", "allocated", "mapped"} /\ phase' = "ready"
        /\ had_error' = TRUE /\ new_fb_idx' = new_fb_idx /\ new_fb_idx \in Bufs
        /\ damage' = damage \cup {phase} /\ HeaderOnly'
        /\ pool'.priv = pool.priv
    BY <1>11, FailIs, DamageIs DEF HeaderOnly, PhaseInv
  <2>2. ASSUME Early'
        PROVE  Exact' /\ Back'
    <3>1. phase = "allocated" /\ Early
      BY <2>1, <2>2 DEF Early
    <3>2. /\ pool'.ref_count = [pool.ref_count EXCEPT ![new_fb_idx] = 0]
          /\ pool'.in_use = pool.in_use \ {pool.priv[new_fb_idx]}
      BY <1>11, <3>1, FailIs
    <3>3. ~HeaderOnly
      BY <3>1 DEF HeaderOnly
    <3>4. /\ {new_fb_idx} \in SUBSET Bufs /\ {new_fb_idx} \subseteq Owners
          /\ \A b : b \in Owners' <=> b \in Owners /\ b \notin {new_fb_idx}
      BY <1>1, <1>2, <1>3, <2>1, <3>2, <3>3
    <3>5. MemoryOf(pool, {new_fb_idx}) = {pool.priv[new_fb_idx]}
      BY DEF MemoryOf
    <3>6. Exact'
      BY <1>6, <2>1, <3>1, <3>2, <3>4, <3>5
    <3>7. Back'
      BY <1>1, <2>1, <3>2 DEF Back
    <3> QED
      BY <3>6, <3>7
  <2> QED
    BY <2>1, <2>2
<1>12. CASE Showing
  <2>1. /\ phase = "header" /\ phase' = "decoded" /\ HeaderOnly /\ ~HeaderOnly'
        /\ Named(new_fb_idx') /\ new_fb_idx' \in Bufs /\ new_fb_idx \in Bufs
        /\ pool'.priv = pool.priv /\ pool'.in_use = pool.in_use
        /\ pool'.returnedTwice = pool.returnedTwice
        /\ damage' = damage /\ had_error' = had_error
        /\ \A b \in Bufs : pool'.ref_count[b] =
              pool.ref_count[b] - (IF b = new_fb_idx THEN 1 ELSE 0)
                                + (IF b = new_fb_idx' THEN 1 ELSE 0)
        /\ pool.ref_count[new_fb_idx] = 1
    BY <1>12, ShowingIs, DamageIs DEF HeaderOnly, apiVars, PhaseInv
  <2>2. ASSUME Early
        PROVE  Exact'
    <3>1. /\ pool.ref_count[new_fb_idx'] > 0
          /\ new_fb_idx' = new_fb_idx => pool.ref_count[new_fb_idx'] > 1
      BY <1>5, <2>1, <2>2, NamedHasHolder
    <3>2. new_fb_idx' # new_fb_idx
      BY <2>1, <3>1
    <3>3. \A b \in Bufs : b \in Owners' <=> b \in Owners
      BY <1>1, <1>2, <1>3, <2>1, <3>1, <3>2
    <3>4. \A b : b \in Owners' <=> b \in Owners
      BY <1>2, <1>3, <3>3
    <3> QED
      BY <1>7, <2>1, <2>2, <3>4
  <2> QED
    BY <1>9, <2>1, <2>2 DEF Early, Clean
<1>13. CASE Beginning
  <2>1. /\ phase = "header" /\ phase' = "allocated" /\ HeaderOnly /\ ~HeaderOnly'
        /\ new_fb_idx \in Bufs /\ new_fb_idx' = new_fb_idx
        /\ pool'.ref_count = pool.ref_count
        /\ pool'.returnedTwice = pool.returnedTwice
        /\ damage' = damage /\ had_error' = had_error
    BY <1>13, BeginningIs, DamageIs DEF HeaderOnly
  <2>2. PICK mem \in Memory \ pool.in_use :
          /\ pool'.priv = [pool.priv EXCEPT ![new_fb_idx] = mem]
          /\ pool'.in_use = pool.in_use \cup {mem}
    BY <1>13, BeginningIs
  <2>3. ASSUME Early
        PROVE  Exact'
    <3>1. Exact
      BY <1>5, <2>3
    <3>2. \A b : b \in Owners' <=> b \in Owners \/ b = new_fb_idx
      BY <1>2, <1>3, <2>1
    <3>3. new_fb_idx \notin Owners
      BY <1>2, <2>1
    <3>4. \A b \in Owners : /\ pool'.priv[b] = pool.priv[b]
                            /\ pool.priv[b] \in pool.in_use
                            /\ pool.priv[b] # mem
      BY <1>1, <1>2, <2>2, <3>1, <3>3 DEF Exact
    <3>5. pool'.priv[new_fb_idx] = mem
      BY <1>1, <2>1, <2>2
    <3>6. pool'.in_use = {pool'.priv[b] : b \in Owners'}
      <4>1. ASSUME NEW m \in pool'.in_use
            PROVE  \E b \in Owners' : m = pool'.priv[b]
        <5>1. CASE m = mem
          BY <3>2, <3>5, <5>1
        <5>2. CASE m \in pool.in_use
          BY <3>1, <3>2, <3>4, <5>2 DEF Exact
        <5> QED
          BY <2>2, <5>1, <5>2
      <4>2. ASSUME NEW b \in Owners'
            PROVE  pool'.priv[b] \in pool'.in_use
        BY <2>2, <3>2, <3>4, <3>5
      <4> QED
        BY <4>1, <4>2
    <3>7. ASSUME NEW b \in Owners', NEW c \in Owners', pool'.priv[b] = pool'.priv[c]
          PROVE  b = c
      <4>1. CASE b \in Owners /\ c \in Owners
        BY <3>1, <3>4, <3>7, <4>1 DEF Exact
      <4>2. CASE b = new_fb_idx \/ c = new_fb_idx
        BY <3>2, <3>4, <3>5, <3>7, <4>2
      <4> QED
        BY <3>2, <4>1, <4>2
    <3> QED
      BY <3>6, <3>7 DEF Exact
  <2> QED
    BY <1>9, <2>1, <2>3 DEF Early, Clean
<1>14. CASE GenerateRefMap
  <2>1. /\ phase = "allocated" /\ phase' = "mapped" /\ ~HeaderOnly /\ ~HeaderOnly'
        /\ new_fb_idx \in Bufs /\ new_fb_idx' = new_fb_idx
        /\ pool' = TakeHolds(pool, ref_frame_map, refresh_frame_flags, new_fb_idx)
        /\ damage' = damage /\ had_error' = had_error
        /\ refresh_frame_flags \in SUBSET Slots
    BY <1>14, DamageIs DEF GenerateRefMap, HeaderOnly, PhaseInv, apiVars, TypeOK
  <2>2. /\ pool'.priv = pool.priv /\ pool'.in_use = pool.in_use
        /\ pool'.returnedTwice = pool.returnedTwice
        /\ \A b \in Bufs : pool'.ref_count[b] =
             pool.ref_count[b] + References(ref_frame_map, b)
               + (IF b = new_fb_idx THEN Cardinality(refresh_frame_flags) ELSE 0)
    BY <1>1, <2>1, TakeHoldsIs
  <2>3. ASSUME Early
        PROVE  Exact'
    <3>1. ASSUME NEW b \in Bufs, b # new_fb_idx
          PROVE  pool'.ref_count[b] > 0 <=> pool.ref_count[b] > 0
      <4>1. /\ References(ref_frame_map, b) \in Nat
            /\ References(ref_frame_map, b) # 0 => Named(b)
        BY ReferencesCount DEF Named
      <4>2. Named(b) => pool.ref_count[b] > 0
        BY <1>5, <2>3, NamedHasHolder
      <4> QED
        BY <1>1, <2>2, <3>1, <4>1, <4>2
    <3>2. \A b : b \in Owners' <=> b \in Owners
      BY <1>2, <1>3, <2>1, <3>1
    <3> QED
      BY <1>7, <2>2, <2>3, <3>2
  <2> QED
    BY <1>9, <2>1, <2>2, <2>3 DEF Early, Clean
<1>15. CASE DecodeTiles
  <2>1. /\ phase = "mapped" /\ phase' = "decoded" /\ ~HeaderOnly /\ ~HeaderOnly'
        /\ new_fb_idx' = new_fb_idx /\ pool' = pool
        /\ damage' = damage /\ had_error' = had_error
    BY <1>15, DamageIs DEF DecodeTiles, HeaderOnly, apiVars, decoderVars
  <2>2. ASSUME Early
        PROVE  Exact'
    <3>1. \A b : b \in Owners' <=> b \in Owners
      BY <1>2, <1>3, <2>1
    <3> QED
      BY <1>7, <2>1, <2>2, <3>1
  <2> QED
    BY <1>9, <2>1, <2>2 DEF Early, Clean
<1>16. CASE SwapFrameBuffers
  <2>1. /\ phase = "decoded" /\ phase' = "ready" /\ new_fb_idx \in Bufs
        /\ new_fb_idx' = new_fb_idx /\ pool'.priv = pool.priv
        /\ ~had_error /\ had_error' = had_error /\ damage' = damage
        /\ ~HeaderOnly /\ ~HeaderOnly'
    <3>1. /\ phase = "decoded" /\ phase' = "ready" /\ new_fb_idx \in Bufs
          /\ new_fb_idx' = new_fb_idx /\ pool'.priv = pool.priv
          /\ had_error' = had_error
      BY <1>16, SwapIs
    <3>2. ~had_error
      BY <3>1 DEF PhaseInv
    <3> QED
      BY <1>16, <3>1, <3>2, DamageIs DEF HeaderOnly
  <2>2. CASE show_existing_frame
    <3>1. /\ pool'.ref_count = [pool.ref_count EXCEPT ![new_fb_idx] = @ - 1]
          /\ pool'.in_use = pool.in_use
          /\ pool'.returnedTwice = pool.returnedTwice
      BY <1>16, <2>2, SwapIs
    <3>2. ASSUME Early
          PROVE  Exact'
      <4>1. \A b : b \in Owners' <=> b \in Owners
        BY <1>1, <1>2, <1>3, <2>1, <3>1
      <4> QED
        BY <1>7, <2>1, <3>1, <3>2, <4>1
    <3> QED
      BY <1>9, <2>1, <3>1, <3>2 DEF Early, Clean
  <2>3. CASE ~show_existing_frame
    <3> DEFINE D == Dropped(pool, ref_frame_map, refresh_frame_flags)
               drops(b) == Drops(ref_frame_map, refresh_frame_flags, b)
    <3>1. hold_ref_buf
      BY <2>1, <2>3 DEF PhaseInv
    <3>2. /\ pool'.in_use = pool.in_use \ MemoryOf(pool, D)
          /\ \A b \in Bufs : pool'.ref_count[b] =
               pool.ref_count[b] - drops(b) - (IF b = new_fb_idx THEN 1 ELSE 0)
          /\ pool'.returnedTwice =
               DropHolds(pool, ref_frame_map, refresh_frame_flags).returnedTwice
      BY <1>16, <2>3, SwapIs
    <3>3. \A b \in Bufs : /\ drops(b) \in Nat /\ pool.ref_count[b] \in Nat
                          /\ drops(b) <= pool.ref_count[b]
      <4>1. ASSUME NEW b \in Bufs
            PROVE  /\ drops(b) \in Nat
                   /\ drops(b) + (IF b = new_fb_idx THEN 1 ELSE 0)
                        <= pool.ref_count[b]
        BY <3>1, HoldsAreThere
      <4> QED
        BY <1>1, <4>1
    <3>4. \A b \in D : b \in Bufs /\ b # new_fb_idx
      BY <3>1, DroppedAre
    <3>5. \A b \in Bufs : b \in D <=> pool.ref_count[b] > 0 /\ pool.ref_count[b] = drops(b)
      BY DEF Dropped
    <3> HIDE DEF D, drops
    <3>6. D \in SUBSET Bufs /\ D \subseteq Owners
      BY <1>2, <2>1, <3>4, <3>5
    <3>7. ASSUME NEW b \in Bufs
          PROVE  b \in Owners' <=> b \in Owners /\ b \notin D
      <4>1. CASE b = new_fb_idx
        BY <1>2, <1>3, <2>1, <3>4, <4>1
      <4>2. CASE b # new_fb_idx
        BY <1>2, <1>3, <2>1, <3>2, <3>3, <3>5, <4>2
      <4> QED
        BY <4>1, <4>2
    <3>8. \A b : b \in Owners' <=> b \in Owners /\ b \notin D
      BY <1>2, <1>3, <3>7
    <3>9. ASSUME Early
          PROVE  Exact'
      BY <1>6, <2>1, <3>2, <3>6, <3>8, <3>9
    <3>10. ASSUME damage = {}
           PROVE  Clean'
      <4>1. Exact /\ Clean
        BY <1>5, <1>9, <3>10 DEF Early
      <4>2. /\ \A b \in D : pool.priv[b] \in pool.in_use
            /\ \A b, c \in D : pool.priv[b] = pool.priv[c] => b = c
        BY <3>6, <4>1 DEF Exact
      <4>3. refresh_frame_flags \in SUBSET Slots
        BY DEF TypeOK
      <4>4. DropHolds(pool, ref_frame_map, refresh_frame_flags).returnedTwice =
              pool.returnedTwice
        BY <1>1, <3>3, <4>2, <4>3, DropHoldsOnce DEF D, drops
      <4> QED
        BY <2>1, <3>2, <4>1, <4>4 DEF Clean
    <3> QED
      BY <2>1, <3>9, <3>10 DEF Early
  <2> QED
    BY <2>2, <2>3
<1>17. CASE GetFrame
  <2>1. /\ UNCHANGED <<pool, phase, new_fb_idx, had_error, damage>>
        /\ HeaderOnly' = HeaderOnly
    BY <1>17, DamageIs DEF GetFrame, HeaderOnly, decoderVars
  <2>2. ASSUME Early
        PROVE  Exact'
    <3>1. \A b : b \in Owners' <=> b \in Owners
      BY <1>2, <1>3, <2>1
    <3> QED
      BY <1>7, <2>1, <2>2, <3>1
  <2> QED
    BY <1>9, <2>1, <2>2 DEF Early, Clean, Back
<1> QED
  BY <1>10, <1>11, <1>12, <1>13, <1>14, <1>15, <1>16, <1>17, StepCases DEF Next

-----------------------------------------------------------------------------
(* The invariant *)

LEMMA InitInv == Init => IInv
<1> SUFFICES ASSUME Init
             PROVE  IInv
  OBVIOUS
<1>1. /\ \A s \in Slots : ref_frame_map[s] = INVALID_IDX
      /\ \A b \in Bufs : b # INVALID_IDX
  BY BufsAreIndices DEF Init, NoReferences
<1>2. TypeOK
  BY DEF Init, TypeOK, Pools, EmptyPool, NoReferences, BufIdx, Phases
<1>3. PhaseInv
  BY DEF Init, PhaseInv
<1>4. CountInv
  <2>1. ASSUME NEW b \in Bufs
        PROVE  pool.ref_count[b] = 0 /\ Owed(b) = 0
    <3>1. References(ref_frame_map, b) = 0
      BY <1>1, ReferencesCount
    <3> QED
      BY <3>1 DEF Init, EmptyPool, Owed
  <2> QED
    BY <2>1 DEF Init, CountInv
<1>5. KeptInv
  BY DEF Init, KeptInv
<1>6. MemoryInv
  <2>1. \A b : b \notin Owners
    BY <1>2, OwnersAre, BufsAreIndices DEF Init, EmptyPool
  <2> QED
    BY <2>1 DEF Init, EmptyPool, MemoryInv, MemoryExact
<1> QED
  BY <1>2, <1>3, <1>4, <1>5, <1>6 DEF IInv

LEMMA NextInv == IInv /\ [Next]_vars => IInv'
<1> SUFFICES ASSUME IInv, [Next]_vars
             PROVE  IInv'
  OBVIOUS
<1>1. TypeOK /\ PhaseInv /\ CountInv /\ KeptInv /\ MemoryInv
  BY DEF IInv
<1>2. CASE Next
  BY <1>1, <1>2, TypeStep, PhaseStep, CountStep, KeptStep, MemoryStep DEF IInv
<1>3. CASE UNCHANGED vars
  <2>1. TypeOK'
    BY <1>1, <1>3 DEF vars, decoderVars, apiVars, TypeOK
  <2>2. PhaseInv'
    BY <1>1, <1>3 DEF vars, decoderVars, apiVars, PhaseInv
  <2>3. CountInv'
    BY <1>1, <1>3 DEF vars, decoderVars, apiVars, CountInv, Owed
  <2>4. KeptInv'
    BY <1>1, <1>3 DEF vars, decoderVars, apiVars, KeptInv, Kept, Named
  <2>5. MemoryInv'
    BY <1>1, <1>3 DEF vars, decoderVars, apiVars, MemoryInv, MemoryExact, Owners, Live
  <2> QED
    BY <2>1, <2>2, <2>3, <2>4, <2>5 DEF IInv
<1> QED
  BY <1>2, <1>3

LEMMA Invariance == Spec => []IInv
BY InitInv, NextInv, PTL DEF Spec

\* In every sequence of calls, of whatever frames, each variable keeps its type:
\* above all no reference count of frame_bufs[] becomes negative, also when the
\* error path of vp9_receive_compressed_data() drops the holds of a frame.
THEOREM AlwaysTypeOK == Spec => []TypeOK
<1>1. IInv => TypeOK
  BY DEF IInv
<1> QED
  BY <1>1, Invariance, PTL

\* Until a frame fails the counts of frame_bufs[] are what the map, the holds of
\* read_uncompressed_header() and the frame in progress make them, at every
\* step of every sequence of frames.
THEOREM CountsAreExact == Spec => []RefCountsExact
<1>1. IInv => RefCountsExact
  BY DEF IInv, CountInv, RefCountsExact
<1> QED
  BY <1>1, Invariance, PTL

\* The release callback gets each buffer of memory when its last user is gone,
\* and not before, also past frames that fail between setup_frame_size() and the
\* next reference map.
THEOREM MemoryIsExact == Spec => []MemoryExact
<1>1. IInv => MemoryExact
  BY DEF IInv, MemoryInv
<1> QED
  BY <1>1, Invariance, PTL

\* The image that decoder_get_frame() has given out keeps its memory, and shares
\* it with no other picture, until decoder_decode() is called again.
THEOREM ImageStaysIntact == Spec => []ImageIntact
<1>1. IInv => ImageIntact
  <2> SUFFICES ASSUME IInv, image # INVALID_IDX, damage \subseteq {"allocated"}
               PROVE  /\ pool.priv[image] \in pool.in_use
                      /\ \A b \in Live(pool) \ {image} :
                           pool.priv[b] # pool.priv[image]
    BY DEF ImageIntact
  <2>1. /\ phase = "ready" /\ ~had_error /\ image = new_fb_idx /\ image \in Bufs
        /\ TypeOK
    BY DEF IInv, PhaseInv, TypeOK, BufIdx
  <2>2. image \in Owners /\ Live(pool) \subseteq Owners
    BY <2>1, OwnersAre DEF HeaderOnly, Live
  <2>3. /\ pool.in_use = {pool.priv[b] : b \in Owners}
        /\ \A b, c \in Owners : pool.priv[b] = pool.priv[c] => b = c
    BY DEF IInv, MemoryInv, MemoryExact
  <2> QED
    BY <2>2, <2>3
<1> QED
  BY <1>1, Invariance, PTL

\* While vp9_decode_frame() reads its references each of them has a holder and
\* its memory, which is not the memory it decodes into, whatever frames failed
\* before and wherever, and however many of the slots that it names hold no
\* picture.  Those slots are not looked at by the code, and are excepted here: of
\* what is read through them nothing is said.
THEOREM ReferencesStayIntact == Spec => []ReferencesIntact
<1>1. IInv => ReferencesIntact
  <2> SUFFICES ASSUME IInv, phase = "mapped",
                      NEW b \in frame_refs \ {INVALID_IDX}
               PROVE  /\ pool.ref_count[b] > 0
                      /\ pool.priv[b] \in pool.in_use
                      /\ pool.priv[b] # pool.priv[new_fb_idx]
    BY DEF ReferencesIntact
  <2>1. /\ TypeOK /\ CountInv /\ ~need_resync /\ new_fb_idx \in Bufs
        /\ b \in Bufs /\ Named(b) /\ b # new_fb_idx
    BY DEF IInv, PhaseInv, KeptInv, TypeOK, BufIdx
  <2>2. b \in Kept /\ new_fb_idx \in Kept
    BY <2>1 DEF Kept
  <2>3. /\ pool.priv[b] \in pool.in_use
        /\ pool.priv[b] # pool.priv[new_fb_idx]
    BY <2>1, <2>2 DEF IInv, KeptInv
  <2> QED
    BY <2>1, <2>3, NamedHasHolder
<1> QED
  BY <1>1, Invariance, PTL

-----------------------------------------------------------------------------
(* Room for the next frame *)

\* What the slots name is no more than there are slots.
LEMMA NoMoreThanSlots ==
  ASSUME NEW f, NEW T, \A t \in T : \E s \in Slots : f[s] = t
  PROVE  IsFiniteSet(T) /\ Cardinality(T) \in Nat /\ Cardinality(T) <= REF_FRAMES
<1> DEFINE g == [s \in Slots |-> f[s]]
           Image == {f[s] : s \in Slots}
<1>1. g \in Surjection(Slots, Image)
  BY DEF Surjection
<1>2. IsFiniteSet(Image) /\ Cardinality(Image) <= REF_FRAMES
  BY <1>1, SlotsFinite, FS_Surjection
<1>3. T \in SUBSET Image
  OBVIOUS
<1>4. /\ IsFiniteSet(T) /\ Cardinality(T) <= Cardinality(Image)
      /\ Cardinality(T) \in Nat /\ Cardinality(Image) \in Nat
  BY <1>2, <1>3, FS_Subset, FS_CardinalityType
<1> QED
  BY <1>2, <1>4, PoolSizes

\* Before the first damage, a buffer that is held is named by the map, or is the
\* new one.
LEMMA HeldIsNamed ==
  ASSUME TypeOK, CountInv, damage = {}, ~hold_ref_buf,
         NEW b \in Bufs, pool.ref_count[b] # 0
  PROVE  Named(b) \/ (phase # "ready" /\ b = new_fb_idx)
<1>1. pool.ref_count[b] = Owed(b)
  BY DEF CountInv
<1>2. References(ref_frame_map, b) # 0 => Named(b)
  BY ReferencesCount DEF Named
<1>3. References(ref_frame_map, b) \in Nat
  BY ReferencesCount
<1>4. Owed(b) = References(ref_frame_map, b)
                + (IF phase # "ready" /\ b = new_fb_idx THEN 1 ELSE 0)
  BY <1>3 DEF Owed
<1>5. ASSUME ~(phase # "ready" /\ b = new_fb_idx)
      PROVE  References(ref_frame_map, b) # 0
  BY <1>1, <1>3, <1>4, <1>5
<1> QED
  BY <1>2, <1>5

\* get_free_fb() finds a slot for every frame as long as none has failed, if there
\* is one slot more than there are references: its assertion holds.
THEOREM SlotForEveryFrame ==
  ASSUME FRAME_BUFFERS > REF_FRAMES
  PROVE  Spec => [](damage = {} => FrameBufferAvailable)
<1>1. IInv => (damage = {} => FrameBufferAvailable)
  <2> SUFFICES ASSUME IInv, damage = {}, phase = "ready",
                      FreeBufs(WithoutLastFrame(pool)) = {}
               PROVE  FALSE
    BY DEF FrameBufferAvailable
  <2>1. TypeOK /\ CountInv /\ ~hold_ref_buf
    BY DEF IInv, PhaseInv
  <2>2. WithoutLastFrame(pool).ref_count = pool.ref_count
    BY <2>1, WithoutLastFrameIs
  <2>3. \A b \in Bufs : \E s \in Slots : ref_frame_map[s] = b
    BY <2>1, <2>2, HeldIsNamed DEF FreeBufs, Named
  <2>4. Cardinality(Bufs) <= REF_FRAMES
    BY <2>3, NoMoreThanSlots
  <2>5. Cardinality(Bufs) = FRAME_BUFFERS
    BY PoolSizes, FS_Interval DEF Bufs
  <2> QED
    BY <2>4, <2>5, PoolSizes
<1> QED
  BY <1>1, Invariance, PTL

\* The get callback finds memory for every frame as long as none has failed, if an
\* application offers one buffer more than there are references: the memory of
\* the last frame is back before the next one asks for its own.
THEOREM MemoryForEveryFrame ==
  ASSUME IsFiniteSet(Memory), Cardinality(Memory) > REF_FRAMES
  PROVE  Spec => [](damage = {} => MemoryAvailable)
<1>1. IInv => (damage = {} => MemoryAvailable)
  <2> SUFFICES ASSUME IInv, damage = {}, phase = "header",
                      FreeMemory(pool) = {}
               PROVE  FALSE
    BY DEF MemoryAvailable
  <2>1. TypeOK /\ CountInv /\ ~hold_ref_buf
    BY DEF IInv, PhaseInv
  <2>2. pool.in_use = {pool.priv[b] : b \in Owners}
    BY DEF IInv, MemoryInv, MemoryExact
  <2> DEFINE f == [s \in Slots |-> pool.priv[ref_frame_map[s]]]
  <2>3. ASSUME NEW m \in Memory
        PROVE  \E s \in Slots : f[s] = m
    <3>1. PICK b \in Owners : m = pool.priv[b]
      BY <2>2, <2>3 DEF FreeMemory
    <3>2. b \in Bufs /\ b # new_fb_idx /\ pool.ref_count[b] # 0
      BY <2>1, OwnersAre DEF HeaderOnly
    <3> QED
      BY <2>1, <3>1, <3>2, HeldIsNamed DEF Named
  <2> HIDE DEF f
  <2>4. Cardinality(Memory) <= REF_FRAMES /\ Cardinality(Memory) \in Nat
    BY <2>3, NoMoreThanSlots
  <2> QED
    BY <2>4, PoolSizes
<1> QED
  BY <1>1, Invariance, PTL

\* And no memory is handed back that is not in use, as long as no frame failed.
THEOREM NothingReleasedTwice == Spec => [](damage = {} => ReleasedOnce)
<1>1. IInv => (damage = {} => ReleasedOnce)
  BY DEF IInv, MemoryInv, ReleasedOnce
<1> QED
  BY <1>1, Invariance, PTL
=============================================================================
