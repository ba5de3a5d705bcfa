------------------------ MODULE Vp8ReferencesProofs ------------------------
(***************************************************************************)
(* The references of VP8 for any number of frame buffers from four on, of  *)
(* pictures, and any faults of the frames on their way.                    *)
(***************************************************************************)
EXTENDS Vp8References, FiniteSetTheorems, TLAPS

-----------------------------------------------------------------------------
(* A free buffer *)

\* A set of buffers with one of the first four has a lowest one.
LEMMA LowestIsOfThem ==
  ASSUME NEW S \in SUBSET Bufs, S \cap 0 .. 3 # {}
  PROVE  Lowest(S) \in S
<1>1. \E b \in S : \A c \in S : b <= c
  BY ReferenceAssumptions DEF Bufs
<1> QED
  BY <1>1 DEF Lowest

\* Three references leave one of four buffers.
LEMMA ThreeOfFour ==
  ASSUME NEW idx \in Index
  PROVE  \E b \in 0 .. 3 : b \in Bufs /\ \A r \in Refs : idx[r] # b
BY ReferenceAssumptions DEF Index, Refs, Bufs

-----------------------------------------------------------------------------
(* The encoder's marks *)

EncoderState ==
  [flags : [Bufs -> SUBSET Refs], idx : Index, pic : [Bufs -> Pictures],
   size : Sizes \cup {0}]

\* The marks are those of the references in S.
Marked(e, S) == \A b \in Bufs : e.flags[b] = {r \in S : e.idx[r] = b}

\* Where the frame moves the references to.
Moved(idx, f, new) ==
  [r \in Refs |-> IF Source(f, r) = "new" THEN new ELSE idx[Source(f, r)]]

\* Mark moves one reference and its mark, if it goes to another buffer.
LEMMA MarkMoves ==
  ASSUME NEW e \in EncoderState, NEW S \in SUBSET Refs, Marked(e, S),
         NEW r \in Refs, NEW b \in Bufs, e.idx[r] # b
  PROVE  /\ Mark(e, r, b) \in EncoderState
         /\ Marked(Mark(e, r, b), S \cup {r})
         /\ Mark(e, r, b).idx = [e.idx EXCEPT ![r] = b]
         /\ Mark(e, r, b).pic = e.pic
         /\ Mark(e, r, b).size = e.size
<1> DEFINE m == Mark(e, r, b)
           old == e.idx[r]
<1>1. /\ m.idx = [e.idx EXCEPT ![r] = b]
      /\ m.flags = [[e.flags EXCEPT ![b] = @ \cup {r}] EXCEPT ![old] = @ \ {r}]
      /\ m.pic = e.pic /\ m.size = e.size
      /\ m \in EncoderState
  BY DEF Mark, EncoderState, Index
<1>2. /\ e.flags \in [Bufs -> SUBSET Refs] /\ e.idx \in [Refs -> Bufs]
      /\ old \in Bufs
  BY DEF EncoderState, Index
<1>3. ASSUME NEW c \in Bufs
      PROVE  m.flags[c] = {q \in S \cup {r} : m.idx[q] = c}
  <2>1. CASE c = b
    BY <1>1, <1>2, <2>1 DEF Marked
  <2>2. CASE c = old
    BY <1>1, <1>2, <2>2 DEF Marked
  <2>3. CASE c # b /\ c # old
    BY <1>1, <1>2, <2>3 DEF Marked
  <2> QED
    BY <2>1, <2>2, <2>3
<1> QED
  BY <1>1, <1>3 DEF Marked

\* update_reference_frames() leaves every reference marked, and moves all of
\* them as the frame says, although it moves one after the other.
LEMMA UpdateMoves ==
  ASSUME NEW e \in EncoderState, NEW S \in SUBSET Refs, Marked(e, S),
         NEW f, f.refresh \in SUBSET Refs, f.copy_arf \in {"none", "golden"},
         "alt" \in f.refresh => f.copy_arf = "none",
         S = Refs \/ f.refresh = Refs,
         NEW new \in Bufs, \A r \in Refs : e.idx[r] # new,
         NEW u, u = UpdateReferenceFrames(e, f, new)
  PROVE  /\ u \in EncoderState
         /\ Marked(u, Refs)
         /\ u.idx = Moved(e.idx, f, new)
         /\ u.pic = e.pic
         /\ u.size = e.size
<1> DEFINE copied == /\ "alt" \notin f.refresh /\ f.copy_arf # "none"
                     /\ e.idx["alt"] # e.idx[f.copy_arf]
           target == IF "alt" \in f.refresh THEN new ELSE e.idx["golden"]
           W == f.refresh \cup IF copied THEN {"alt"} ELSE {}
           first == IF "alt" \in W THEN Mark(e, "alt", target) ELSE e
           second == IF "golden" \in W THEN Mark(first, "golden", new) ELSE first
           T == IF "alt" \in W THEN S \cup {"alt"} ELSE S
           U == IF "golden" \in W THEN T \cup {"golden"} ELSE T
           V == IF "last" \in W THEN U \cup {"last"} ELSE U
<1>1. e.idx \in [Refs -> Bufs] /\ target \in Bufs
  BY DEF EncoderState, Index, Refs
<1>2. u = IF "last" \in W THEN Mark(second, "last", new) ELSE second
  BY DEF UpdateReferenceFrames
<1>3. "alt" \in W => e.idx["alt"] # target
  BY DEF Refs
<1>4. T \in SUBSET Refs /\ U \in SUBSET Refs /\ V = Refs
  BY DEF Refs
<1>5. "alt" \in Refs /\ "golden" \in Refs /\ "last" \in Refs
  BY DEF Refs
<1>6. \A r \in Refs : r # "alt" => (r \in W <=> r \in f.refresh)
  OBVIOUS
<1>7. "alt" \in W => target = Moved(e.idx, f, new)["alt"]
  BY <1>1 DEF Moved, Source, Refs
<1>8. "alt" \notin W => e.idx["alt"] = Moved(e.idx, f, new)["alt"]
  BY <1>1 DEF Moved, Source, Refs
<1> HIDE DEF W, target
<1>9. /\ first \in EncoderState /\ Marked(first, T)
      /\ first.idx = IF "alt" \in W THEN [e.idx EXCEPT !["alt"] = target]
                   ELSE e.idx
      /\ first.pic = e.pic /\ first.size = e.size
  <2>1. CASE "alt" \in W
    <3>1. first = Mark(e, "alt", target) /\ T = S \cup {"alt"}
      BY <2>1
    <3> HIDE DEF first, T
    <3> QED
      BY <1>1, <1>3, <1>5, <2>1, <3>1, MarkMoves
  <2> QED
    BY <2>1
<1>10. first.idx["golden"] # new /\ first.idx["last"] # new
  BY <1>1, <1>5, <1>9
<1> HIDE DEF first, T
<1>11. /\ second \in EncoderState /\ Marked(second, U)
       /\ second.idx = IF "golden" \in W THEN [first.idx EXCEPT !["golden"] = new]
                       ELSE first.idx
       /\ second.pic = first.pic /\ second.size = first.size
  <2>1. CASE "golden" \in W
    <3>1. second = Mark(first, "golden", new) /\ U = T \cup {"golden"}
      BY <2>1
    <3>2. /\ T \in SUBSET Refs /\ first \in EncoderState /\ Marked(first, T)
          /\ first.idx["golden"] # new /\ "golden" \in Refs
      BY <1>4, <1>5, <1>9, <1>10
    <3> HIDE DEF second, U
    <3>3. second \in EncoderState /\ Marked(second, U)
      BY <3>1, <3>2, MarkMoves
    <3>4. /\ second.idx = [first.idx EXCEPT !["golden"] = new]
          /\ second.pic = first.pic /\ second.size = first.size
      BY <3>1, <3>2 DEF Mark, EncoderState, Index
    <3> QED
      BY <2>1, <3>1, <3>3, <3>4
  <2> QED
    BY <1>9, <2>1
<1>12. first.idx \in [Refs -> Bufs] /\ second.idx \in [Refs -> Bufs]
  BY <1>9, <1>11 DEF EncoderState, Index
<1>13. second.idx["last"] # new
  BY <1>5, <1>10, <1>11, <1>12
<1> HIDE DEF second, U
<1>14. /\ u \in EncoderState /\ Marked(u, V)
       /\ u.idx = IF "last" \in W THEN [second.idx EXCEPT !["last"] = new]
                  ELSE second.idx
       /\ u.pic = second.pic /\ u.size = second.size
  <2>1. CASE "last" \in W
    <3>1. u = Mark(second, "last", new) /\ V = U \cup {"last"}
      BY <1>2, <2>1
    <3>2. /\ U \in SUBSET Refs /\ second \in EncoderState /\ Marked(second, U)
          /\ second.idx["last"] # new /\ "last" \in Refs
      BY <1>4, <1>5, <1>11, <1>13
    <3> HIDE DEF V
    <3>3. /\ Mark(second, "last", new) \in EncoderState
          /\ Marked(Mark(second, "last", new), U \cup {"last"})
      BY <3>2, MarkMoves
    <3>4. /\ u.idx = [second.idx EXCEPT !["last"] = new]
          /\ u.pic = second.pic /\ u.size = second.size
      BY <3>1, <3>2 DEF Mark, EncoderState, Index
    <3> QED
      BY <2>1, <3>1, <3>3, <3>4
  <2> QED
    BY <1>2, <1>11, <2>1
<1>15. u.idx = Moved(e.idx, f, new)
  <2>1. u.idx \in [Refs -> Bufs] /\ Moved(e.idx, f, new) \in [Refs -> Bufs]
    BY <1>1, <1>14 DEF EncoderState, Index, Moved, Source, Refs
  <2>2. u.idx["alt"] = Moved(e.idx, f, new)["alt"]
    BY <1>1, <1>5, <1>7, <1>8, <1>9, <1>11, <1>12, <1>14
  <2>3. /\ u.idx["golden"] = Moved(e.idx, f, new)["golden"]
        /\ u.idx["last"] = Moved(e.idx, f, new)["last"]
    BY <1>1, <1>5, <1>6, <1>9, <1>11, <1>12, <1>14 DEF Moved, Source
  <2> QED
    BY <2>1, <2>2, <2>3 DEF Refs
<1> QED
  BY <1>4, <1>9, <1>11, <1>14, <1>15

-----------------------------------------------------------------------------
(* The decoder's counts *)

DecoderState ==
  [cnt : [Bufs -> Nat], idx : Index, pic : [Bufs -> Pictures],
   size : Sizes \cup {0}]

\* How many references are buffer b.
Uses(idx, b) ==
  (IF idx["last"] = b THEN 1 ELSE 0) + (IF idx["golden"] = b THEN 1 ELSE 0)
    + (IF idx["alt"] = b THEN 1 ELSE 0)

\* The buffers are counted as often as they are references, and buffer new,
\* which is being decoded to, once more.
Counted(d, new) ==
  \A b \in Bufs : d.cnt[b] = Uses(d.idx, b) + IF b = new THEN 1 ELSE 0

\* No buffer is being decoded to.
Nothing == NumBuffers

LEMMA UsesIsCardinality ==
  ASSUME NEW idx \in Index, NEW b
  PROVE  Cardinality({r \in Refs : idx[r] = b}) = Uses(idx, b)
<1> DEFINE X == {r \in Refs : idx[r] = b}
           Y == X \ {"last"}
           Z == Y \ {"golden"}
           None3 == Z \ {"alt"}
<1>1. IsFiniteSet({}) /\ Cardinality({}) = 0
  BY FS_EmptySet
<1>2. None3 = {}
  BY DEF Refs
<1>3. X \subseteq Refs
  OBVIOUS
<1>4. IsFiniteSet(Refs)
  <2>1. IsFiniteSet({} \cup {"last"})
    BY <1>1, FS_AddElement
  <2>2. IsFiniteSet(({} \cup {"last"}) \cup {"golden"})
    BY <2>1, FS_AddElement
  <2>3. IsFiniteSet((({} \cup {"last"}) \cup {"golden"}) \cup {"alt"})
    BY <2>2, FS_AddElement
  <2>4. Refs = (({} \cup {"last"}) \cup {"golden"}) \cup {"alt"}
    BY DEF Refs
  <2> QED
    BY <2>3, <2>4
<1>5. IsFiniteSet(X)
  BY <1>3, <1>4, FS_Subset
<1>6. /\ IsFiniteSet(Y)
      /\ Cardinality(Y) = IF "last" \in X THEN Cardinality(X) - 1 ELSE Cardinality(X)
  BY <1>5, FS_RemoveElement
<1>7. /\ IsFiniteSet(Z)
      /\ Cardinality(Z) = IF "golden" \in Y THEN Cardinality(Y) - 1
                          ELSE Cardinality(Y)
  BY <1>6, FS_RemoveElement
<1>8. Cardinality(None3) = IF "alt" \in Z THEN Cardinality(Z) - 1 ELSE Cardinality(Z)
  BY <1>7, FS_RemoveElement
<1>9. Cardinality(X) \in Nat /\ Cardinality(Y) \in Nat /\ Cardinality(Z) \in Nat
  BY <1>5, <1>6, <1>7, FS_CardinalityType
<1>10. /\ "last" \in X <=> idx["last"] = b
       /\ "golden" \in Y <=> idx["golden"] = b
       /\ "alt" \in Z <=> idx["alt"] = b
  BY DEF Refs
<1> HIDE DEF X, Y, Z, None3
<1>11. Cardinality(Z) = IF "alt" \in Z THEN 1 ELSE 0
  BY <1>1, <1>2, <1>8, <1>9
<1>12. Cardinality(X) = Uses(idx, b)
  BY <1>6, <1>7, <1>9, <1>10, <1>11 DEF Uses
<1> QED
  BY <1>12 DEF X

LEMMA RefCntFbIndex ==
  ASSUME NEW d, NEW r, NEW b
  PROVE  RefCntFb(d, r, b).idx = [d.idx EXCEPT ![r] = b]
BY DEF RefCntFb

\* ref_cnt_fb() moves one reference and keeps the counts.
LEMMA RefCntFbMoves ==
  ASSUME NEW d \in DecoderState, NEW new \in Nat, Counted(d, new),
         NEW r \in Refs, NEW b \in Bufs
  PROVE  /\ RefCntFb(d, r, b) \in DecoderState
         /\ Counted(RefCntFb(d, r, b), new)
         /\ RefCntFb(d, r, b).idx = [d.idx EXCEPT ![r] = b]
         /\ RefCntFb(d, r, b).pic = d.pic
         /\ RefCntFb(d, r, b).size = d.size
<1> DEFINE m == RefCntFb(d, r, b)
           old == d.idx[r]
           less == Fewer(d.cnt, old)
<1>1. d.cnt \in [Bufs -> Nat] /\ d.idx \in [Refs -> Bufs] /\ old \in Bufs
  BY DEF DecoderState, Index
<1>2. d.cnt[old] > 0
  BY <1>1 DEF Counted, Uses, Refs
<1>3. less = [d.cnt EXCEPT ![old] = @ - 1] /\ less \in [Bufs -> Nat]
  BY <1>1, <1>2 DEF Fewer
<1>4. /\ m.idx = [d.idx EXCEPT ![r] = b]
      /\ m.cnt = [less EXCEPT ![b] = @ + 1]
      /\ m.pic = d.pic /\ m.size = d.size
  BY DEF RefCntFb
<1>5. m.cnt \in [Bufs -> Nat]
  <2> HIDE DEF less, m
  <2> QED
    BY <1>3, <1>4
<1>6. m \in DecoderState
  BY <1>1, <1>4, <1>5 DEF RefCntFb, DecoderState, Index
<1>7. ASSUME NEW c \in Bufs
      PROVE  m.cnt[c] = Uses(m.idx, c) + IF c = new THEN 1 ELSE 0
  <2>1. m.cnt[c] = d.cnt[c] - (IF c = old THEN 1 ELSE 0) + (IF c = b THEN 1 ELSE 0)
    BY <1>1, <1>2, <1>3, <1>4
  <2>2. Uses(m.idx, c)
          = Uses(d.idx, c) - (IF c = old THEN 1 ELSE 0) + (IF c = b THEN 1 ELSE 0)
    BY <1>1, <1>4 DEF Uses, Refs
  <2>3. Uses(d.idx, c) \in Nat /\ d.cnt[c] \in Nat
    BY <1>1 DEF Uses
  <2> QED
    BY <2>1, <2>2, <2>3 DEF Counted
<1> QED
  BY <1>4, <1>6, <1>7 DEF Counted

\* The same of a reference that may stay.
LEMMA RefCntFbMay ==
  ASSUME NEW d \in DecoderState, NEW new \in Nat, Counted(d, new),
         NEW r \in Refs, NEW b, NEW m,
         m = d \/ (b \in Bufs /\ m = RefCntFb(d, r, b))
  PROVE  /\ m \in DecoderState /\ Counted(m, new)
         /\ m.pic = d.pic /\ m.size = d.size
<1>1. CASE m = d
  BY <1>1
<1>2. CASE b \in Bufs /\ m = RefCntFb(d, r, b)
  BY <1>2, RefCntFbMoves
<1> QED
  BY <1>1, <1>2

\* What a decoded or damaged frame may say.
HeaderOK(f) ==
  /\ f.refresh \in SUBSET Refs
  /\ f.copy_arf \in {"none", "last", "golden", "invalid"}
  /\ f.copy_gf \in {"none", "last", "alt", "invalid"}

\* swap_frame_buffers() leaves all counts exact, whatever the frame says.  The
\* references are those that the encoder means if the frame is the encoder's.
LEMMA SwapMoves ==
  ASSUME NEW d \in DecoderState, NEW new \in Bufs, Counted(d, new),
         NEW f, HeaderOK(f),
         NEW s, s = SwapFrameBuffers(d, f, new)
  PROVE  /\ s \in DecoderState /\ Counted(s, Nothing)
         /\ s.pic = d.pic /\ s.size = d.size
         /\ "last" \in f.refresh => s.idx["last"] = new
         /\ (/\ f.copy_gf = "none" /\ f.copy_arf \in {"none", "golden"}
             /\ "alt" \in f.refresh => f.copy_arf = "none")
            => s.idx = Moved(d.idx, f, new)
<1> DEFINE m1 == IF f.copy_arf = "none" THEN d
                 ELSE RefCntFb(d, "alt", CopySource(d, f.copy_arf))
           m2 == IF f.copy_gf = "none" THEN m1
                 ELSE RefCntFb(m1, "golden", CopySource(m1, f.copy_gf))
           m3 == IF "golden" \in f.refresh THEN RefCntFb(m2, "golden", new) ELSE m2
           m4 == IF "alt" \in f.refresh THEN RefCntFb(m3, "alt", new) ELSE m3
           m5 == IF "last" \in f.refresh THEN RefCntFb(m4, "last", new) ELSE m4
<1>1. /\ s = [m5 EXCEPT !.cnt[new] = @ - 1]
      /\ "last" \in Refs /\ "golden" \in Refs /\ "alt" \in Refs
      /\ new \in Nat /\ 0 \in Bufs
  BY ReferenceAssumptions DEF SwapFrameBuffers, Refs, Bufs
<1>2. /\ m1 \in DecoderState /\ Counted(m1, new)
      /\ m1.pic = d.pic /\ m1.size = d.size
  <2>1. f.copy_arf # "none" => CopySource(d, f.copy_arf) \in Bufs
    BY <1>1 DEF CopySource, HeaderOK, DecoderState, Index
  <2>2. \/ m1 = d
        \/ /\ CopySource(d, f.copy_arf) \in Bufs
           /\ m1 = RefCntFb(d, "alt", CopySource(d, f.copy_arf))
    BY <2>1
  <2> HIDE DEF m1
  <2> QED
    BY <1>1, <2>1, <2>2, RefCntFbMay
<1>3. /\ f.copy_arf = "none" => m1.idx = d.idx
      /\ f.copy_arf # "none"
           => m1.idx = [d.idx EXCEPT !["alt"] = CopySource(d, f.copy_arf)]
  BY RefCntFbIndex
<1> HIDE DEF m1
<1>4. /\ m2 \in DecoderState /\ Counted(m2, new)
      /\ m2.pic = m1.pic /\ m2.size = m1.size
  <2>1. f.copy_gf # "none" => CopySource(m1, f.copy_gf) \in Bufs
    BY <1>1, <1>2 DEF CopySource, HeaderOK, DecoderState, Index
  <2>2. \/ m2 = m1
        \/ /\ CopySource(m1, f.copy_gf) \in Bufs
           /\ m2 = RefCntFb(m1, "golden", CopySource(m1, f.copy_gf))
    BY <2>1
  <2> HIDE DEF m2
  <2> QED
    BY <1>1, <1>2, <2>1, <2>2, RefCntFbMay
<1>5. f.copy_gf = "none" => m2.idx = m1.idx
  OBVIOUS
<1> HIDE DEF m2
<1>6. /\ m3 \in DecoderState /\ Counted(m3, new)
      /\ m3.pic = m2.pic /\ m3.size = m2.size
  <2>1. m3 = m2 \/ m3 = RefCntFb(m2, "golden", new)
    OBVIOUS
  <2> HIDE DEF m3
  <2> QED
    BY <1>1, <1>4, <2>1, RefCntFbMay
<1>7. m3.idx = IF "golden" \in f.refresh THEN [m2.idx EXCEPT !["golden"] = new]
               ELSE m2.idx
  BY RefCntFbIndex
<1> HIDE DEF m3
<1>8. /\ m4 \in DecoderState /\ Counted(m4, new)
      /\ m4.pic = m3.pic /\ m4.size = m3.size
  <2>1. m4 = m3 \/ m4 = RefCntFb(m3, "alt", new)
    OBVIOUS
  <2> HIDE DEF m4
  <2> QED
    BY <1>1, <1>6, <2>1, RefCntFbMay
<1>9. m4.idx = IF "alt" \in f.refresh THEN [m3.idx EXCEPT !["alt"] = new]
               ELSE m3.idx
  BY RefCntFbIndex
<1> HIDE DEF m4
<1>10. /\ m5 \in DecoderState /\ Counted(m5, new)
       /\ m5.pic = m4.pic /\ m5.size = m4.size
  <2>1. m5 = m4 \/ m5 = RefCntFb(m4, "last", new)
    OBVIOUS
  <2> HIDE DEF m5
  <2> QED
    BY <1>1, <1>8, <2>1, RefCntFbMay
<1>11. m5.idx = IF "last" \in f.refresh THEN [m4.idx EXCEPT !["last"] = new]
                ELSE m4.idx
  BY RefCntFbIndex
<1> HIDE DEF m5
<1>12. /\ m1.idx \in [Refs -> Bufs] /\ m2.idx \in [Refs -> Bufs]
       /\ m3.idx \in [Refs -> Bufs] /\ m4.idx \in [Refs -> Bufs]
       /\ m5.idx \in [Refs -> Bufs] /\ d.idx \in [Refs -> Bufs]
  BY <1>2, <1>4, <1>6, <1>8, <1>10 DEF DecoderState, Index
<1>13. /\ s \in DecoderState
       /\ s.idx = m5.idx /\ s.pic = m5.pic /\ s.size = m5.size
       /\ Counted(s, Nothing)
  <2>1. m5.cnt \in [Bufs -> Nat]
    BY <1>10 DEF DecoderState
  <2>2. m5.cnt[new] = Uses(m5.idx, new) + 1 /\ Uses(m5.idx, new) \in Nat
    BY <1>10 DEF Counted, Uses
  <2>3. [m5.cnt EXCEPT ![new] = @ - 1] \in [Bufs -> Nat]
    BY <2>1, <2>2
  <2>4. /\ s.idx = m5.idx /\ s.pic = m5.pic /\ s.size = m5.size
        /\ s.cnt = [m5.cnt EXCEPT ![new] = @ - 1]
        /\ s \in DecoderState
    BY <1>1, <1>10, <2>3 DEF DecoderState
  <2>5. ASSUME NEW c \in Bufs
        PROVE  s.cnt[c] = Uses(s.idx, c) + IF c = Nothing THEN 1 ELSE 0
    <3>1. c # Nothing
      BY ReferenceAssumptions DEF Bufs, Nothing
    <3> QED
      BY <1>10, <2>1, <2>2, <2>4, <3>1 DEF Counted
  <2> QED
    BY <2>4, <2>5 DEF Counted
<1>14. "last" \in f.refresh => s.idx["last"] = new
  BY <1>1, <1>11, <1>12, <1>13
<1>15. ASSUME f.copy_gf = "none", f.copy_arf \in {"none", "golden"},
              "alt" \in f.refresh => f.copy_arf = "none"
       PROVE  s.idx = Moved(d.idx, f, new)
  <2>1. Moved(d.idx, f, new) \in [Refs -> Bufs]
    BY <1>12, <1>15 DEF Moved, Source, Refs
  <2>2. f.copy_arf # "none" => CopySource(d, f.copy_arf) = d.idx[f.copy_arf]
    BY <1>15 DEF CopySource
  <2>3. \A r \in Refs : s.idx[r] = Moved(d.idx, f, new)[r]
    BY <1>3, <1>5, <1>7, <1>9, <1>11, <1>12, <1>13, <1>15, <2>2
    DEF Moved, Source, Refs
  <2> QED
    BY <1>12, <1>13, <2>1, <2>3
<1> QED
  BY <1>2, <1>4, <1>6, <1>8, <1>10, <1>13, <1>14, <1>15

-----------------------------------------------------------------------------
(* The invariant *)

\* The encoder's buffers are marked as what they are, from the first frame on.
EncoderInv ==
  /\ enc \in EncoderState
  /\ made \in Pictures
  /\ made > 0 => Marked(enc, Refs)
  /\ made = 0 => /\ packet = NoFrame
                 /\ Marked(enc, {}) /\ enc.size = 0
                 /\ enc.idx = [last |-> 1, golden |-> 2, alt |-> 3]

\* The decoder's counts are exact once it has buffers.
DecoderInv ==
  /\ dec \in DecoderState
  /\ dec.size = 0 => \A b \in Bufs : dec.cnt[b] = 0
  /\ dec.size # 0 => Counted(dec, Nothing)
  /\ decoded_key_frame \in BOOLEAN
  /\ decoded_key_frame => dec.size # 0

\* The frame on its way was made from what it says, and the encoder has moved
\* its references as the frame says.
PacketInv ==
  packet # NoFrame =>
    /\ HeaderOK(packet)
    /\ packet.uses \in SUBSET Refs
    /\ packet.key \in BOOLEAN /\ packet.show \in BOOLEAN
    /\ packet.pic \in Pictures
    /\ packet.copy_gf = "none" /\ packet.copy_arf \in {"none", "golden"}
    /\ "alt" \in packet.refresh => packet.copy_arf = "none"
    /\ packet.key => /\ packet.size \in Sizes
                     /\ packet.refresh = Refs /\ packet.uses = {}
    /\ packet.from \in [Refs -> Pictures]
    /\ \A r \in Refs :
         EncoderPicture(r) = IF Source(packet, r) = "new" THEN packet.pic
                             ELSE packet.from[Source(packet, r)]

OutInv ==
  /\ out \in [frame : Bufs, show : BOOLEAN, ready : BOOLEAN, hidden : BOOLEAN]
  /\ astray \in SUBSET Refs
  /\ image \in Pictures \cup {None}

BuffersInv == EncoderInv /\ DecoderInv /\ PacketInv /\ OutInv

IInv == BuffersInv /\ Agreement /\ ImageIntact

-----------------------------------------------------------------------------
(* The encoder's step *)

\* What the encoder may choose of a frame.
LEMMA FramesAre ==
  ASSUME enc \in EncoderState, NEW f \in KeyFrames \cup InterFrames
  PROVE  /\ f.refresh \in SUBSET Refs /\ f.uses \in SUBSET Refs
         /\ f.key \in BOOLEAN /\ f.show \in BOOLEAN
         /\ f.size \in Sizes \cup {0}
         /\ f.key => f.size \in Sizes /\ f.refresh = Refs /\ f.uses = {}
         /\ ~f.key => f.size = enc.size
<1>1. CASE f \in KeyFrames
  BY <1>1 DEF KeyFrames
<1>2. CASE f \in InterFrames
  BY <1>2 DEF InterFrames, EncoderState, Refs
<1> QED
  BY <1>1, <1>2

\* The search of the encoder finds a buffer that is no reference, with the
\* marks of all references or with none.
LEMMA EncoderFindsFree ==
  ASSUME NEW e \in EncoderState, NEW S, Marked(e, S),
         S = Refs \/ (S = {} /\ e.idx = [last |-> 1, golden |-> 2, alt |-> 3])
  PROVE  /\ FreeMarked(e) # {}
         /\ Lowest(FreeMarked(e)) \in Bufs
         /\ \A r \in Refs : e.idx[r] # Lowest(FreeMarked(e))
<1> DEFINE new == Lowest(FreeMarked(e))
<1>1. e.idx \in Index /\ e.flags \in [Bufs -> SUBSET Refs]
  BY DEF EncoderState
<1>2. FreeMarked(e) = {b \in Bufs : \A r \in S : e.idx[r] # b}
  BY <1>1 DEF FreeMarked, Marked
<1>3. FreeMarked(e) \cap 0 .. 3 # {}
  <2>1. PICK b \in 0 .. 3 : b \in Bufs /\ \A r \in Refs : e.idx[r] # b
    BY <1>1, ThreeOfFour
  <2> QED
    BY <1>2, <2>1
<1>4. new \in FreeMarked(e)
  BY <1>2, <1>3, LowestIsOfThem
<1>5. CASE S = Refs
  BY <1>2, <1>4, <1>5
<1>6. CASE S = {} /\ e.idx = [last |-> 1, golden |-> 2, alt |-> 3]
  <2>1. FreeMarked(e) = Bufs
    BY <1>2, <1>6
  <2>2. 0 \in Bufs /\ \A c \in Bufs : 0 <= c
    BY ReferenceAssumptions DEF Bufs
  <2>3. new \in Bufs /\ \A c \in Bufs : new <= c
    BY <2>1, <2>2 DEF Lowest
  <2>4. new = 0
    BY <2>2, <2>3 DEF Bufs
  <2> QED
    BY <1>6, <2>1, <2>2, <2>4 DEF Refs
<1> QED
  BY <1>5, <1>6

LEMMA EncodeKeeps ==
  ASSUME EncoderInv, NEW f \in KeyFrames \cup InterFrames, NEW z \in BOOLEAN,
         Encode(f, z)
  PROVE  EncoderInv' /\ PacketInv'
<1> DEFINE e == IF z THEN NewEncoderBuffers ELSE enc
           S == IF z \/ made = 0 THEN {} ELSE Refs
           new == Lowest(FreeMarked(e))
           coded == [flags |-> e.flags, idx |-> e.idx,
                     pic |-> [e.pic EXCEPT ![new] = made + 1], size |-> f.size]
           g == Written(f, enc)
<1>1. /\ enc \in EncoderState /\ made \in Nat /\ made + 1 \in Pictures
      /\ made' = made + 1 /\ made' > 0
      /\ made = 0 => f.key
      /\ z => f.size # enc.size
      /\ enc' = UpdateReferenceFrames(coded, g, new) /\ packet' = g
  BY ReferenceAssumptions DEF EncoderInv, Encode, Pictures
<1>2. /\ f.refresh \in SUBSET Refs /\ f.uses \in SUBSET Refs
      /\ f.key \in BOOLEAN /\ f.show \in BOOLEAN
      /\ f.size \in Sizes \cup {0}
      /\ f.key => f.size \in Sizes /\ f.refresh = Refs /\ f.uses = {}
      /\ ~f.key => f.size = enc.size
  BY <1>1, FramesAre
<1>3. /\ g.refresh = f.refresh /\ g.uses = f.uses /\ g.key = f.key
      /\ g.show = f.show /\ g.size = f.size /\ g.pic = made + 1
      /\ g.copy_arf \in {"none", "golden"} /\ g.copy_gf = "none"
      /\ "alt" \in g.refresh => g.copy_arf = "none"
      /\ g.from = [r \in Refs |-> EncoderPicture(r)]
  BY DEF Written, CopyBufferToArf, EncoderPicture
<1>4. /\ e \in EncoderState /\ Marked(e, S)
      /\ S = Refs \/ (S = {} /\ e.idx = [last |-> 1, golden |-> 2, alt |-> 3])
  <2>1. CASE z
    <3>1. e = NewEncoderBuffers /\ S = {}
      BY <2>1
    <3>2. /\ 1 \in Bufs /\ 2 \in Bufs /\ 3 \in Bufs /\ Garbage \in Pictures
          /\ enc.size \in Sizes \cup {0}
      BY <1>1, ReferenceAssumptions DEF Bufs, Garbage, Pictures, EncoderState
    <3>3. [last |-> 1, golden |-> 2, alt |-> 3] \in Index
      BY <3>2 DEF Index, Refs
    <3> QED
      BY <3>1, <3>2, <3>3 DEF NewEncoderBuffers, EncoderState, Marked
  <2>2. CASE ~z
    BY <1>1, <2>2 DEF EncoderInv
  <2> QED
    BY <2>1, <2>2
<1>5. S \in SUBSET Refs /\ (S = Refs \/ g.refresh = Refs)
  BY <1>1, <1>2, <1>3
<1> HIDE DEF e, S, g
<1>6. new \in Bufs /\ \A r \in Refs : e.idx[r] # new
  BY <1>4, EncoderFindsFree
<1> HIDE DEF new
<1>7. /\ coded \in EncoderState /\ Marked(coded, S) /\ coded.idx = e.idx
      /\ coded.pic = [e.pic EXCEPT ![new] = made + 1]
  BY <1>1, <1>2, <1>4 DEF EncoderState, Marked
<1> HIDE DEF coded
<1>8. /\ enc' \in EncoderState /\ Marked(enc', Refs)
      /\ enc'.idx = Moved(e.idx, g, new) /\ enc'.pic = coded.pic
  BY <1>1, <1>2, <1>3, <1>5, <1>6, <1>7, UpdateMoves
<1>9. EncoderInv'
  BY <1>1, <1>8 DEF EncoderInv, EncoderState, Marked
<1>10. g.from \in [Refs -> Pictures]
  BY <1>1, <1>3 DEF EncoderPicture, EncoderState, Index
<1>11. ASSUME NEW r \in Refs
       PROVE  enc'.pic[enc'.idx[r]] = IF Source(g, r) = "new" THEN g.pic
                                      ELSE g.from[Source(g, r)]
  <2>1. enc'.idx[r] = IF Source(g, r) = "new" THEN new ELSE e.idx[Source(g, r)]
    BY <1>8 DEF Moved
  <2>2. e.pic \in [Bufs -> Pictures] /\ e.idx \in [Refs -> Bufs]
    BY <1>4 DEF EncoderState, Index
  <2>3. CASE Source(g, r) = "new"
    BY <1>3, <1>6, <1>7, <1>8, <2>1, <2>2, <2>3
  <2>4. CASE Source(g, r) # "new"
    <3>1. Source(g, r) \in Refs
      BY <1>3, <2>4 DEF Source, Refs
    <3>2. e = enc
      <4>1. ~g.key
        BY <1>2, <1>3, <2>4 DEF Source
      <4> QED
        BY <1>1, <1>2, <1>3, <4>1 DEF e
    <3>3. enc'.pic[enc'.idx[r]] = e.pic[e.idx[Source(g, r)]]
      BY <1>6, <1>7, <1>8, <2>1, <2>2, <2>4, <3>1
    <3> QED
      BY <1>3, <2>4, <3>1, <3>2, <3>3 DEF EncoderPicture
  <2> QED
    BY <2>3, <2>4
<1>12. PacketInv'
  BY <1>1, <1>2, <1>3, <1>10, <1>11 DEF PacketInv, HeaderOK, EncoderPicture
<1> QED
  BY <1>9, <1>12

-----------------------------------------------------------------------------
(* The decoder's steps *)

\* With or without a new size, the decoder has counted its references and
\* get_free_fb() finds a buffer that is none of them.
LEMMA ResizedFindsFree ==
  ASSUME DecoderInv, NEW f, f.key \in BOOLEAN, f.key => f.size \in Sizes,
         f.key \/ dec.size # 0,
         NEW d, d = Resized(f), NEW new, new = Lowest(FreeBuffers(d))
  PROVE  /\ d \in DecoderState /\ Counted(d, Nothing) /\ d.size # 0
         /\ ~f.key => d = dec
         /\ FreeBuffers(d) # {}
         /\ new \in Bufs /\ d.cnt[new] = 0
         /\ \A r \in Refs : d.idx[r] # new
<1>1. d \in DecoderState /\ Counted(d, Nothing) /\ d.size # 0
  <2>1. CASE ~f.key \/ f.size = dec.size
    BY <2>1 DEF Resized, DecoderInv, Sizes
  <2>2. CASE ~(~f.key \/ f.size = dec.size)
    <3>1. /\ 1 \in Bufs /\ 2 \in Bufs /\ 3 \in Bufs /\ Garbage \in Pictures
          /\ f.size \in Sizes /\ f.size # 0
      BY <2>2, ReferenceAssumptions DEF Bufs, Garbage, Pictures, Sizes
    <3>2. d = [cnt |-> [b \in Bufs |-> IF b \in 1 .. 3 THEN 1 ELSE 0],
               idx |-> [last |-> 1, golden |-> 2, alt |-> 3],
               pic |-> [b \in Bufs |-> Garbage],
               size |-> f.size]
      BY <2>2 DEF Resized
    <3>3. d \in DecoderState /\ d.size # 0
      BY <3>1, <3>2 DEF DecoderState, Index, Refs
    <3>4. ASSUME NEW b \in Bufs
          PROVE  d.cnt[b] = Uses(d.idx, b) + IF b = Nothing THEN 1 ELSE 0
      <4>1. b \in Nat /\ b # Nothing
        BY ReferenceAssumptions DEF Bufs, Nothing
      <4>2. d.cnt[b] = IF b \in 1 .. 3 THEN 1 ELSE 0
        BY <3>2
      <4>3. d.idx["last"] = 1 /\ d.idx["golden"] = 2 /\ d.idx["alt"] = 3
        BY <3>2
      <4> QED
        BY <4>1, <4>2, <4>3 DEF Uses
    <3> QED
      BY <3>3, <3>4 DEF Counted
  <2> QED
    BY <2>1, <2>2
<1>2. d.idx \in Index /\ d.cnt \in [Bufs -> Nat]
  BY <1>1 DEF DecoderState
<1>3. FreeBuffers(d) \cap 0 .. 3 # {}
  <2>1. PICK b \in 0 .. 3 : b \in Bufs /\ \A r \in Refs : d.idx[r] # b
    BY <1>2, ThreeOfFour
  <2>2. d.cnt[b] = 0
    <3>1. b # Nothing
      BY <2>1, ReferenceAssumptions DEF Bufs, Nothing
    <3> QED
      BY <1>1, <2>1, <3>1 DEF Counted, Uses, Refs
  <2> QED
    BY <2>1, <2>2 DEF FreeBuffers
<1>4. new \in FreeBuffers(d)
  BY <1>3, LowestIsOfThem DEF FreeBuffers
<1>5. new \in Bufs /\ d.cnt[new] = 0
  BY <1>4 DEF FreeBuffers
<1>6. \A r \in Refs : d.idx[r] # new
  BY <1>1, <1>2, <1>5 DEF Counted, Uses, Refs, Index
<1> QED
  BY <1>1, <1>3, <1>5, <1>6 DEF Resized

\* A frame that is decoded, to whatever picture.
LEMMA ReceiveKeeps ==
  ASSUME DecoderInv, OutInv,
         NEW f, HeaderOK(f), f.key \in BOOLEAN, f.show \in BOOLEAN,
         f.key => f.size \in Sizes, f.key \/ dec.size # 0,
         NEW pic \in Pictures, Receive(f, pic),
         NEW d, d = Resized(f), NEW new, new = Lowest(FreeBuffers(d))
  PROVE  /\ DecoderInv'
         /\ out' \in [frame : Bufs, show : BOOLEAN, ready : BOOLEAN,
                      hidden : BOOLEAN]
         /\ image' \in Pictures \cup {None}
         /\ ImageIntact'
         /\ dec'.pic = [d.pic EXCEPT ![new] = pic]
         /\ (/\ f.copy_gf = "none" /\ f.copy_arf \in {"none", "golden"}
             /\ "alt" \in f.refresh => f.copy_arf = "none")
            => dec'.idx = Moved(d.idx, f, new)
<1> DEFINE started == [d EXCEPT !.cnt[new] = 1, !.pic[new] = pic]
           failed == "invalid" \in {f.copy_arf, f.copy_gf}
<1>1. /\ d \in DecoderState /\ Counted(d, Nothing) /\ d.size # 0
      /\ new \in Bufs /\ d.cnt[new] = 0 /\ \A r \in Refs : d.idx[r] # new
  BY ResizedFindsFree
<1>2. /\ dec' = SwapFrameBuffers(started, f, new)
      /\ out' = [frame |-> FrameToShow(dec', f, new), show |-> f.show,
                 ready |-> out.ready /\ failed, hidden |-> ~f.show]
      /\ image' = IF f.show /\ ~failed THEN pic ELSE None
      /\ decoded_key_frame' = TRUE
  BY DEF Receive
<1>3. /\ started \in DecoderState /\ started.idx = d.idx
      /\ started.pic = [d.pic EXCEPT ![new] = pic] /\ started.size = d.size
      /\ started.cnt = [d.cnt EXCEPT ![new] = 1]
  BY <1>1 DEF DecoderState
<1> HIDE DEF started
<1>4. Counted(started, new)
  <2>1. d.cnt \in [Bufs -> Nat] /\ Nothing \notin Bufs
    BY <1>1, ReferenceAssumptions DEF DecoderState, Nothing, Bufs
  <2>2. Uses(d.idx, new) = 0
    BY <1>1 DEF Uses, Refs
  <2>3. ASSUME NEW b \in Bufs
        PROVE  started.cnt[b] = Uses(started.idx, b) + IF b = new THEN 1 ELSE 0
    BY <1>1, <1>3, <2>1, <2>2 DEF Counted, Uses
  <2> QED
    BY <2>3 DEF Counted
<1>5. /\ dec' \in DecoderState /\ Counted(dec', Nothing)
      /\ dec'.pic = started.pic /\ dec'.size = started.size
      /\ "last" \in f.refresh => dec'.idx["last"] = new
      /\ (/\ f.copy_gf = "none" /\ f.copy_arf \in {"none", "golden"}
          /\ "alt" \in f.refresh => f.copy_arf = "none")
         => dec'.idx = Moved(started.idx, f, new)
  BY <1>1, <1>2, <1>3, <1>4, SwapMoves
<1>6. DecoderInv'
  BY <1>1, <1>2, <1>3, <1>5 DEF DecoderInv, DecoderState, Counted
<1>7. out'.frame = new
  BY <1>2, <1>5 DEF FrameToShow
<1>8. dec'.pic[new] = pic
  BY <1>1, <1>3, <1>5 DEF DecoderState
<1>9. /\ out' \in [frame : Bufs, show : BOOLEAN, ready : BOOLEAN, hidden : BOOLEAN]
      /\ image' \in Pictures \cup {None}
  BY <1>1, <1>2, <1>7 DEF OutInv
<1>10. ImageIntact'
  BY <1>2, <1>7, <1>8 DEF ImageIntact, Fetchable
<1> QED
  BY <1>3, <1>5, <1>6, <1>9, <1>10

\* A frame that vp8_decode_frame() does not decode: the references and their
\* pictures stay, but for a new size.
LEMMA ReceiveNothingKeeps ==
  ASSUME DecoderInv, OutInv,
         NEW f, f.key \in BOOLEAN, f.key => f.size \in Sizes,
         f.key \/ dec.size # 0,
         NEW show \in BOOLEAN, ReceiveNothing(f, show),
         NEW d, d = Resized(f)
  PROVE  /\ DecoderInv'
         /\ out' \in [frame : Bufs, show : BOOLEAN, ready : BOOLEAN,
                      hidden : BOOLEAN]
         /\ image' = None
         /\ \A r \in Refs : DecoderPicture(r)' = d.pic[d.idx[r]]
<1> DEFINE new == Lowest(FreeBuffers(d))
<1>1. /\ d \in DecoderState /\ Counted(d, Nothing) /\ d.size # 0
      /\ new \in Bufs /\ \A r \in Refs : d.idx[r] # new
  BY ResizedFindsFree
<1>2. /\ dec' = [d EXCEPT !.pic[new] = Garbage]
      /\ out' = [out EXCEPT !.show = show]
      /\ image' = None
      /\ decoded_key_frame' = decoded_key_frame
  BY DEF ReceiveNothing
<1> HIDE DEF new
<1>3. /\ dec' \in DecoderState /\ dec'.cnt = d.cnt /\ dec'.idx = d.idx
      /\ dec'.size = d.size /\ dec'.pic = [d.pic EXCEPT ![new] = Garbage]
  <2>1. Garbage \in Pictures
    BY ReferenceAssumptions DEF Garbage, Pictures
  <2> QED
    BY <1>1, <1>2, <2>1 DEF DecoderState
<1>4. DecoderInv'
  BY <1>1, <1>2, <1>3 DEF DecoderInv, Counted
<1>5. \A r \in Refs : dec'.pic[dec'.idx[r]] = d.pic[d.idx[r]]
  BY <1>1, <1>3 DEF DecoderState, Index
<1> QED
  BY <1>2, <1>4, <1>5 DEF OutInv, DecoderPicture

\* A frame that arrives: every reference moves as the frame says, by value.
LEMMA DeliverMoves ==
  ASSUME BuffersInv, Deliver
  PROVE  /\ DecoderInv' /\ OutInv' /\ ImageIntact'
         /\ \A r \in Refs :
              DecoderPicture(r)' = IF Source(packet, r) = "new"
                                   THEN Result(dec, packet)
                                   ELSE DecoderPicture(Source(packet, r))
<1> DEFINE d == Resized(packet)
           new == Lowest(FreeBuffers(d))
           pic == Result(d, packet)
<1>1. /\ packet # NoFrame /\ MayDecode(packet) /\ Receive(packet, pic)
      /\ astray' = {r \in Refs :
                      IF Source(packet, r) = "new" THEN packet.uses \cap astray # {}
                      ELSE Source(packet, r) \in astray}
  BY DEF Deliver
<1>2. /\ DecoderInv /\ OutInv /\ HeaderOK(packet)
      /\ packet.key \in BOOLEAN /\ packet.show \in BOOLEAN
      /\ packet.pic \in Pictures
      /\ packet.copy_gf = "none" /\ packet.copy_arf \in {"none", "golden"}
      /\ "alt" \in packet.refresh => packet.copy_arf = "none"
      /\ packet.key => /\ packet.size \in Sizes
                       /\ packet.refresh = Refs /\ packet.uses = {}
  BY <1>1 DEF BuffersInv, PacketInv
<1>3. packet.key \/ dec.size # 0
  BY <1>1, <1>2 DEF MayDecode, DecoderInv
<1>4. pic \in Pictures
  BY <1>2, ReferenceAssumptions DEF Result, Garbage, Pictures
<1>5. /\ d \in DecoderState /\ (~packet.key => d = dec)
      /\ new \in Bufs /\ \A r \in Refs : d.idx[r] # new
  BY <1>2, <1>3, ResizedFindsFree
<1>6. pic = Result(dec, packet)
  BY <1>2, <1>5 DEF Result
<1> HIDE DEF d, pic, new
<1>7. /\ DecoderInv' /\ ImageIntact'
      /\ out' \in [frame : Bufs, show : BOOLEAN, ready : BOOLEAN, hidden : BOOLEAN]
      /\ image' \in Pictures \cup {None}
      /\ dec'.pic = [d.pic EXCEPT ![new] = pic]
      /\ dec'.idx = Moved(d.idx, packet, new)
  BY <1>1, <1>2, <1>3, <1>4, ReceiveKeeps DEF d, new
<1>8. OutInv'
  BY <1>1, <1>7 DEF OutInv
<1>9. ASSUME NEW r \in Refs
      PROVE  dec'.pic[dec'.idx[r]] = IF Source(packet, r) = "new" THEN pic
                                     ELSE DecoderPicture(Source(packet, r))
  <2>1. d.pic \in [Bufs -> Pictures] /\ d.idx \in [Refs -> Bufs]
    BY <1>5 DEF DecoderState, Index
  <2>2. dec'.idx[r] = IF Source(packet, r) = "new" THEN new
                      ELSE d.idx[Source(packet, r)]
    BY <1>7 DEF Moved
  <2>3. CASE Source(packet, r) = "new"
    BY <1>5, <1>7, <2>1, <2>2, <2>3
  <2>4. CASE Source(packet, r) # "new"
    <3>1. Source(packet, r) \in Refs /\ ~packet.key
      BY <1>2, <2>4 DEF Source, Refs
    <3> QED
      BY <1>5, <1>7, <2>1, <2>2, <2>4, <3>1 DEF DecoderPicture
  <2> QED
    BY <2>3, <2>4
<1> QED
  BY <1>6, <1>7, <1>8, <1>9 DEF DecoderPicture

\* A frame that is cut short: only a key frame may disturb the references.
LEMMA CutMoves ==
  ASSUME BuffersInv, Cut
  PROVE  /\ DecoderInv' /\ OutInv' /\ image' = None
         /\ \A r \in Refs : DecoderPicture(r)' \in Pictures
         /\ ~packet.key => \A r \in Refs : DecoderPicture(r)' = DecoderPicture(r)
<1>1. /\ packet # NoFrame /\ (dec.size # 0 \/ packet.key)
      /\ astray' = Missed(packet)
  BY DEF Cut
<1>2. PICK show \in {out.show, packet.show} : ReceiveNothing(packet, show)
  BY DEF Cut
<1>3. /\ DecoderInv /\ OutInv
      /\ packet.key \in BOOLEAN /\ packet.show \in BOOLEAN
      /\ packet.key => packet.size \in Sizes
  BY <1>1 DEF BuffersInv, PacketInv
<1>4. show \in BOOLEAN
  BY <1>3 DEF OutInv
<1>5. /\ DecoderInv' /\ image' = None
      /\ out' \in [frame : Bufs, show : BOOLEAN, ready : BOOLEAN, hidden : BOOLEAN]
      /\ \A r \in Refs : DecoderPicture(r)' = Resized(packet).pic[Resized(packet).idx[r]]
  BY <1>1, <1>2, <1>3, <1>4, ReceiveNothingKeeps
<1>6. OutInv'
  BY <1>1, <1>3, <1>5 DEF OutInv, Missed
<1>7. Resized(packet) \in DecoderState /\ (~packet.key => Resized(packet) = dec)
  BY <1>1, <1>3, ResizedFindsFree
<1> QED
  BY <1>5, <1>6, <1>7 DEF DecoderPicture, DecoderState, Index

\* Whatever a damaged frame says, the counts stay exact.
LEMMA DamageKeeps ==
  ASSUME BuffersInv, Damage
  PROVE  DecoderInv' /\ OutInv' /\ ImageIntact'
<1>1. PICK f \in DamagedFrames : MayDecode(f) /\ Receive(f, Garbage)
  BY DEF Damage
<1>2. /\ HeaderOK(f) /\ f.key \in BOOLEAN /\ f.show \in BOOLEAN
      /\ f.key => f.size \in Sizes
  BY <1>1 DEF DamagedFrames, HeaderOK
<1>3. DecoderInv /\ OutInv /\ (f.key \/ dec.size # 0) /\ Garbage \in Pictures
  BY <1>1, ReferenceAssumptions
  DEF BuffersInv, MayDecode, DecoderInv, Garbage, Pictures
<1>4. /\ DecoderInv' /\ ImageIntact'
      /\ out' \in [frame : Bufs, show : BOOLEAN, ready : BOOLEAN, hidden : BOOLEAN]
      /\ image' \in Pictures \cup {None}
  BY <1>1, <1>2, <1>3, ReceiveKeeps
<1> QED
  BY <1>4 DEF Damage, OutInv

\* The application sets a reference on both sides.
LEMMA SetReferenceKeeps ==
  ASSUME BuffersInv, NEW r \in Refs, SetReference(r)
  PROVE  BuffersInv'
<1> DEFINE b == Lowest(FreeBuffers(dec))
           m == RefCntFb(dec, r, b)
<1>1. /\ packet = NoFrame /\ packet' = packet /\ made' = made + 1
      /\ made \in Nat /\ made' \in Pictures
      /\ dec.size # 0 /\ dec.size = enc.size
      /\ enc' = [enc EXCEPT !.pic[enc.idx[r]] = made + 1]
      /\ dec' = [m EXCEPT !.pic[b] = made + 1]
      /\ astray' = astray \ {r}
      /\ out' = out /\ image' = image /\ decoded_key_frame' = decoded_key_frame
  BY ReferenceAssumptions DEF SetReference, BuffersInv, EncoderInv, Pictures
<1>2. enc \in EncoderState /\ made > 0 /\ Marked(enc, Refs)
  BY <1>1 DEF BuffersInv, EncoderInv
<1>3. /\ enc' \in EncoderState
      /\ enc'.flags = enc.flags /\ enc'.idx = enc.idx
  BY <1>1, <1>2 DEF EncoderState
<1>4. EncoderInv'
  BY <1>1, <1>2, <1>3 DEF EncoderInv, Marked
<1>5. dec \in DecoderState /\ Counted(dec, Nothing) /\ Nothing \in Nat
  BY <1>1, ReferenceAssumptions DEF BuffersInv, DecoderInv, Nothing
<1>6. b \in Bufs
  <2>1. DecoderInv
    BY DEF BuffersInv
  <2> DEFINE f == [key |-> FALSE]
  <2>2. ~f.key /\ f.key \in BOOLEAN
    OBVIOUS
  <2> HIDE DEF f
  <2>3. Resized(f) = dec
    BY <2>2 DEF Resized
  <2> QED
    BY <1>1, <2>1, <2>2, <2>3, ResizedFindsFree
<1> HIDE DEF b
<1>7. m \in DecoderState /\ Counted(m, Nothing) /\ m.size = dec.size
  BY <1>5, <1>6, RefCntFbMoves
<1> HIDE DEF m
<1>8. /\ dec' \in DecoderState /\ dec'.cnt = m.cnt /\ dec'.idx = m.idx
      /\ dec'.size = m.size
  BY <1>1, <1>6, <1>7 DEF DecoderState
<1>9. DecoderInv'
  BY <1>1, <1>7, <1>8 DEF BuffersInv, DecoderInv, Counted
<1> QED
  BY <1>1, <1>4, <1>9 DEF BuffersInv, PacketInv, OutInv

-----------------------------------------------------------------------------
(* The buffers are accounted for *)

LEMMA InitInv == Init => IInv
<1> SUFFICES ASSUME Init
             PROVE  IInv
  OBVIOUS
<1>1. /\ 0 \in Bufs /\ 1 \in Bufs /\ 2 \in Bufs /\ 3 \in Bufs
      /\ Garbage \in Pictures /\ 0 \in Pictures
  BY ReferenceAssumptions DEF Bufs, Garbage, Pictures
<1>2. /\ [last |-> 1, golden |-> 2, alt |-> 3] \in Index
      /\ [last |-> 0, golden |-> 0, alt |-> 0] \in Index
  BY <1>1 DEF Index, Refs
<1>3. EncoderInv
  BY <1>1, <1>2 DEF Init, EncoderInv, EncoderState, Marked
<1>4. DecoderInv
  BY <1>1, <1>2 DEF Init, DecoderInv, DecoderState
<1>5. PacketInv /\ OutInv /\ Agreement /\ ImageIntact
  BY <1>1 DEF Init, PacketInv, OutInv, Agreement, ImageIntact
<1> QED
  BY <1>3, <1>4, <1>5 DEF IInv, BuffersInv

\* No step of Next loses or leaks a buffer.
LEMMA NextKeepsBuffers ==
  ASSUME BuffersInv, [Next]_vars
  PROVE  BuffersInv'
<1>1. ASSUME NEW f \in KeyFrames \cup InterFrames, NEW z \in BOOLEAN, Encode(f, z)
      PROVE  BuffersInv'
  BY <1>1, EncodeKeeps DEF BuffersInv, Encode, DecoderInv, OutInv
<1>2. CASE Deliver
  BY <1>2, DeliverMoves DEF Deliver, BuffersInv, EncoderInv, PacketInv
<1>3. CASE Lose
  BY <1>3 DEF Lose, Missed, BuffersInv, EncoderInv, DecoderInv, PacketInv, OutInv
<1>4. CASE Cut
  BY <1>4, CutMoves DEF Cut, BuffersInv, EncoderInv, PacketInv
<1>5. CASE Damage
  BY <1>5, DamageKeeps DEF Damage, BuffersInv, EncoderInv, PacketInv
<1>6. CASE GetFrame
  BY <1>6 DEF GetFrame, BuffersInv, EncoderInv, DecoderInv, PacketInv, OutInv,
     EncoderPicture
<1>7. CASE UNCHANGED vars
  BY <1>7 DEF vars, BuffersInv, EncoderInv, DecoderInv, PacketInv, OutInv,
     EncoderPicture
<1> QED
  BY <1>1, <1>2, <1>3, <1>4, <1>5, <1>6, <1>7 DEF Next

\* One of four buffers is free on each side.
LEMMA BuffersInvAccounts ==
  ASSUME BuffersInv
  PROVE  BuffersAccounted
<1>1. /\ enc \in EncoderState /\ dec \in DecoderState
      /\ DecoderInv /\ made \in Nat
  BY DEF BuffersInv, EncoderInv, DecoderInv, Pictures
<1>2. made > 0 => Marked(enc, Refs)
  BY DEF BuffersInv, EncoderInv
<1>3. FreeMarked(enc) # {}
  <2>1. CASE made > 0
    BY <1>1, <1>2, <2>1, EncoderFindsFree
  <2>2. CASE made = 0
    BY <1>1, <2>2, EncoderFindsFree DEF BuffersInv, EncoderInv
  <2> QED
    BY <1>1, <2>1, <2>2
<1>4. ASSUME dec.size # 0, NEW b \in Bufs
      PROVE  dec.cnt[b] = Cardinality({r \in Refs : dec.idx[r] = b})
  <2>1. b # Nothing
    BY ReferenceAssumptions DEF Bufs, Nothing
  <2>2. dec.idx \in Index /\ Uses(dec.idx, b) \in Nat
    BY <1>1 DEF DecoderState, Uses
  <2>3. dec.cnt[b] = Uses(dec.idx, b)
    BY <1>1, <1>4, <2>1, <2>2 DEF DecoderInv, Counted
  <2> QED
    BY <2>2, <2>3, UsesIsCardinality
<1>5. FreeBuffers(dec) # {}
  <2>1. CASE dec.size = 0
    BY <1>1, <2>1, ReferenceAssumptions DEF DecoderInv, FreeBuffers, Bufs
  <2>2. CASE dec.size # 0
    <3> DEFINE f == [key |-> FALSE]
    <3>1. ~f.key /\ f.key \in BOOLEAN
      OBVIOUS
    <3> HIDE DEF f
    <3>2. Resized(f) = dec
      BY <3>1 DEF Resized
    <3> QED
      BY <1>1, <2>2, <3>1, <3>2, ResizedFindsFree
  <2> QED
    BY <2>1, <2>2
<1> QED
  BY <1>2, <1>3, <1>4, <1>5 DEF BuffersAccounted, Marked

\* With or without VP8_SET_REFERENCE, the encoder's marks and the decoder's
\* counts are those of their references between the calls, and each has a free
\* buffer: the two assertions hold for every number of buffers from four on,
\* whatever is lost, cut or damaged.
THEOREM AccountedWithSetReference == SetReferencesSpec => []BuffersAccounted
<1>1. Init => BuffersInv
  BY InitInv DEF IInv
<1>2. BuffersInv /\ [Next \/ \E r \in Refs : SetReference(r)]_vars => BuffersInv'
  BY NextKeepsBuffers, SetReferenceKeeps
<1>3. BuffersInv => BuffersAccounted
  BY BuffersInvAccounts
<1> QED
  BY <1>1, <1>2, <1>3, PTL DEF SetReferencesSpec

\* The same without VP8_SET_REFERENCE.
THEOREM AlwaysAccounted == Spec => []BuffersAccounted
<1>1. Init => BuffersInv
  BY InitInv DEF IInv
<1>2. BuffersInv /\ [Next]_vars => BuffersInv'
  BY NextKeepsBuffers
<1>3. BuffersInv => BuffersAccounted
  BY BuffersInvAccounts
<1> QED
  BY <1>1, <1>2, <1>3, PTL DEF Spec

-----------------------------------------------------------------------------
(* The decoder predicts from what the encoder predicted from *)

LEMMA NextKeepsInv ==
  ASSUME IInv, [Next]_vars
  PROVE  IInv'
<1>1. BuffersInv /\ BuffersInv' /\ Agreement /\ ImageIntact
  BY NextKeepsBuffers DEF IInv
<1> SUFFICES Agreement' /\ ImageIntact'
  BY <1>1 DEF IInv
<1>2. \A r \in Refs : packet # NoFrame =>
        EncoderPicture(r) = IF Source(packet, r) = "new" THEN packet.pic
                            ELSE packet.from[Source(packet, r)]
  BY <1>1 DEF BuffersInv, PacketInv
<1>3. ASSUME NEW f \in KeyFrames \cup InterFrames, NEW z \in BOOLEAN, Encode(f, z)
      PROVE  Agreement' /\ ImageIntact'
  <2>1. /\ packet = NoFrame /\ packet' = Written(f, enc)
        /\ dec' = dec /\ out' = out /\ astray' = astray /\ image' = image
    BY <1>3 DEF Encode
  <2>2. \A r \in Refs : packet'.from[r] = EncoderPicture(r)
    BY <2>1 DEF Written, EncoderPicture
  <2>3. CASE packet' = NoFrame
    <3>1. DOMAIN Written(f, enc) # DOMAIN NoFrame
      BY DEF Written, NoFrame
    <3> QED
      BY <2>1, <2>3, <3>1
  <2>4. CASE packet' # NoFrame
    BY <1>1, <2>1, <2>2, <2>4
    DEF Agreement, ImageIntact, DecoderPicture, Fetchable
  <2> QED
    BY <2>3, <2>4
<1>4. CASE Deliver
  <2>1. /\ packet # NoFrame /\ packet' = NoFrame /\ enc' = enc
        /\ astray' = {r \in Refs :
                        IF Source(packet, r) = "new"
                        THEN packet.uses \cap astray # {}
                        ELSE Source(packet, r) \in astray}
    BY <1>4 DEF Deliver
  <2>2. /\ ImageIntact'
        /\ \A r \in Refs :
             DecoderPicture(r)' = IF Source(packet, r) = "new"
                                  THEN Result(dec, packet)
                                  ELSE DecoderPicture(Source(packet, r))
    BY <1>1, <1>4, DeliverMoves
  <2>3. /\ packet.uses \in SUBSET Refs
        /\ packet.copy_arf \in {"none", "golden"}
    BY <1>1, <2>1 DEF BuffersInv, PacketInv
  <2>4. ASSUME NEW r \in Refs \ astray'
        PROVE  DecoderPicture(r)' = EncoderPicture(r)
    <3>1. CASE Source(packet, r) = "new"
      <4>1. \A q \in packet.uses : DecoderPicture(q) = packet.from[q]
        BY <1>1, <2>1, <2>3, <2>4, <3>1 DEF Agreement
      <4>2. Result(dec, packet) = packet.pic
        BY <4>1 DEF Result, DecoderPicture
      <4> QED
        BY <1>2, <2>1, <2>2, <3>1, <4>2
    <3>2. CASE Source(packet, r) # "new"
      <4>1. Source(packet, r) \in Refs \ astray
        BY <2>1, <2>3, <2>4, <3>2 DEF Source, Refs
      <4>2. DecoderPicture(Source(packet, r)) = packet.from[Source(packet, r)]
        BY <1>1, <2>1, <4>1 DEF Agreement
      <4> QED
        BY <1>2, <2>1, <2>2, <3>2, <4>2
    <3> QED
      BY <3>1, <3>2
  <2> QED
    BY <2>1, <2>2, <2>4 DEF Agreement, EncoderPicture
<1>5. ASSUME packet # NoFrame, packet' = NoFrame, enc' = enc,
             astray' = Missed(packet),
             ~packet.key => \A r \in Refs : DecoderPicture(r)' = DecoderPicture(r)
      PROVE  Agreement'
  <2>1. ASSUME NEW r \in Refs \ astray'
        PROVE  DecoderPicture(r)' = EncoderPicture(r)
    <3>1. Source(packet, r) = r /\ r # "new" /\ r \notin astray
      BY <1>5, <2>1 DEF Missed, Refs
    <3>2. ~packet.key
      BY <1>1, <1>5, <3>1 DEF BuffersInv, PacketInv, Source
    <3>3. DecoderPicture(r) = packet.from[r]
      BY <1>1, <1>5, <3>1 DEF Agreement
    <3> QED
      BY <1>2, <1>5, <3>1, <3>2, <3>3
  <2> QED
    BY <1>5, <2>1 DEF Agreement, EncoderPicture
<1>6. CASE Lose
  BY <1>1, <1>5, <1>6 DEF Lose, DecoderPicture, ImageIntact, Fetchable
<1>7. CASE Cut
  BY <1>1, <1>5, <1>7, CutMoves DEF Cut, ImageIntact
<1>8. CASE Damage
  BY <1>1, <1>8, DamageKeeps DEF Damage, Agreement
<1>9. CASE GetFrame
  BY <1>1, <1>9
  DEF GetFrame, Agreement, ImageIntact, DecoderPicture, EncoderPicture
<1>10. CASE UNCHANGED vars
  BY <1>1, <1>10
  DEF vars, Agreement, ImageIntact, DecoderPicture, EncoderPicture, Fetchable
<1> QED
  BY <1>3, <1>4, <1>6, <1>7, <1>8, <1>9, <1>10 DEF Next

LEMMA SpecInv == Spec => []IInv
BY InitInv, NextKeepsInv, PTL DEF Spec

\* Type correctness.
THEOREM AlwaysTypeOK == Spec => []TypeOK
<1>1. ASSUME BuffersInv
      PROVE  TypeOK
  <2>1. /\ enc \in EncoderState /\ dec \in DecoderState /\ made \in Pictures
        /\ DecoderInv /\ OutInv
    BY <1>1 DEF BuffersInv, EncoderInv, DecoderInv
  <2>2. ASSUME NEW b \in Bufs
        PROVE  dec.cnt[b] \in 0 .. 3
    <3>1. b # Nothing
      BY ReferenceAssumptions DEF Bufs, Nothing
    <3> QED
      BY <2>1, <3>1 DEF DecoderInv, Counted, Uses
  <2>3. dec.cnt \in [Bufs -> 0 .. 3]
    BY <2>1, <2>2 DEF DecoderState
  <2> QED
    BY <2>1, <2>3 DEF TypeOK, EncoderState, DecoderState, OutInv, DecoderInv
<1> QED
  BY <1>1, SpecInv, PTL DEF IInv

\* Where no loss or damage may show, the decoder's references are the pictures
\* that the encoder predicts from.
THEOREM AlwaysAgree == Spec => []Agreement
BY SpecInv, PTL DEF IInv

\* What the application may fetch stays as it was decoded.
THEOREM ImageAlwaysIntact == Spec => []ImageIntact
BY SpecInv, PTL DEF IInv

-----------------------------------------------------------------------------
(* Three references by value *)

\* The definitions that the two modules share.
LEMMA ValuesShare ==
  /\ Values!Refs = Refs /\ Values!NoFrame = NoFrame
  /\ Values!Garbage = Garbage /\ Values!Pictures = Pictures
  /\ \A f, r : Values!Source(f, r) = Source(f, r)
BY DEF Values!Refs, Refs, Values!NoFrame, NoFrame, Values!Garbage, Garbage,
   Values!Pictures, Pictures, Values!Source, Source

LEMMA ValuesInit ==
  ASSUME Init
  PROVE  Values!Init
BY ReferenceAssumptions, ValuesShare
DEF Init, Values!Init, Refs, Bufs, EncoderPicture, DecoderPicture

\* Every step is a step of the values, or none of them changes.
LEMMA ValuesStep ==
  ASSUME IInv, IInv', [Next]_vars
  PROVE  [Values!Next]_(Values!vars)
<1> USE ValuesShare
<1>1. BuffersInv /\ BuffersInv' /\ ImageIntact
  BY DEF IInv
<1>2. ASSUME packet # NoFrame
      PROVE  /\ packet.key => packet.refresh = Refs /\ packet.uses = {}
             /\ packet.uses \in SUBSET Refs
             /\ packet.copy_arf \in {"none", "golden"}
  BY <1>1, <1>2 DEF BuffersInv, PacketInv
<1>3. ASSUME NEW f \in KeyFrames \cup InterFrames, NEW z \in BOOLEAN, Encode(f, z)
      PROVE  Values!Next
  <2>1. /\ packet = NoFrame /\ packet' = Written(f, enc)
        /\ dec' = dec /\ astray' = astray
    BY <1>3 DEF Encode
  <2>2. DOMAIN Written(f, enc) # DOMAIN NoFrame
    BY DEF Written, NoFrame
  <2>3. packet' # NoFrame
    BY <2>1, <2>2
  <2>4. packet'.from = [r \in Refs |-> EncoderPicture(r)]
    BY <2>1 DEF Written, EncoderPicture
  <2>5. \A r \in Refs :
          EncoderPicture(r)' = IF Source(packet', r) = "new" THEN packet'.pic
                               ELSE packet'.from[Source(packet', r)]
    BY <1>1, <2>3 DEF BuffersInv, PacketInv
  <2>6. Values!Encode(packet')
    BY <2>1, <2>4, <2>5 DEF Values!Encode, Values!Updated, DecoderPicture
  <2> QED
    BY <2>1, <2>3, <2>6 DEF Values!Next
<1>4. ASSUME Deliver
      PROVE  Values!Arrives
  <2>1. /\ packet # NoFrame /\ packet' = NoFrame /\ enc' = enc
        /\ astray' = {r \in Refs :
                        IF Source(packet, r) = "new"
                        THEN packet.uses \cap astray # {}
                        ELSE Source(packet, r) \in astray}
    BY <1>4 DEF Deliver
  <2>2. \A r \in Refs :
          DecoderPicture(r)' = IF Source(packet, r) = "new"
                               THEN Result(dec, packet)
                               ELSE DecoderPicture(Source(packet, r))
    BY <1>1, <1>4, DeliverMoves
  <2>3. \A r \in Refs : Source(packet, r) # "new" => Source(packet, r) \in Refs
    BY <1>2, <2>1 DEF Source, Refs
  <2>4. Values!Result([r \in Refs |-> DecoderPicture(r)], packet)
          = Result(dec, packet)
    BY <1>2, <2>1 DEF Values!Result, Result, DecoderPicture
  <2>5. [r \in Refs |-> DecoderPicture(r)']
          = Values!Updated([r \in Refs |-> DecoderPicture(r)], packet,
                           Result(dec, packet))
    BY <2>2, <2>3 DEF Values!Updated
  <2>6. astray' = Values!Astray(packet)
    BY <2>1 DEF Values!Astray
  <2> QED
    BY <2>1, <2>4, <2>5, <2>6 DEF Values!Arrives, EncoderPicture
<1>5. ASSUME Lose
      PROVE  Values!IsLost
  BY <1>5 DEF Lose, Missed, Values!IsLost, EncoderPicture, DecoderPicture
<1>6. ASSUME Cut
      PROVE  Values!IsLost \/ Values!IsDamaged
  <2>1. /\ packet # NoFrame /\ packet' = NoFrame /\ enc' = enc
        /\ astray' = Missed(packet)
    BY <1>6 DEF Cut
  <2>2. /\ \A r \in Refs : DecoderPicture(r)' \in Pictures
        /\ ~packet.key => \A r \in Refs : DecoderPicture(r)' = DecoderPicture(r)
    BY <1>1, <1>6, CutMoves
  <2>3. CASE packet.key
    <3>1. astray' = Refs
      BY <1>1, <1>2, <2>1, <2>3
      DEF Missed, Source, Refs, BuffersInv, OutInv
    <3> QED
      BY <2>1, <2>2, <3>1 DEF Values!IsDamaged, EncoderPicture
  <2>4. CASE ~packet.key
    BY <2>1, <2>2, <2>4 DEF Missed, Values!IsLost, EncoderPicture
  <2> QED
    BY <2>3, <2>4
<1>7. ASSUME Damage
      PROVE  Values!IsDamaged
  <2>1. \A r \in Refs : DecoderPicture(r)' \in Pictures
    BY <1>1 DEF BuffersInv, DecoderInv, DecoderState, Index, DecoderPicture
  <2> QED
    BY <1>7, <2>1 DEF Damage, Values!IsDamaged, EncoderPicture
<1>8. ASSUME GetFrame \/ UNCHANGED vars
      PROVE  UNCHANGED Values!vars
  BY <1>8 DEF GetFrame, vars, Values!vars, EncoderPicture, DecoderPicture
<1> QED
  BY <1>3, <1>4, <1>5, <1>6, <1>7, <1>8 DEF Next, Values!Next

\* Buffers, marks and counts implement three references by value: whatever this
\* encoder and this decoder do to their references, two that keep one picture
\* for each reference may do.
THEOREM EncoderAndDecoderImplementValues == Spec => ImplementsValues
<1>1. Init => Values!Init
  BY ValuesInit
<1>2. IInv /\ IInv' /\ [Next]_vars => [Values!Next]_(Values!vars)
  BY ValuesStep
<1> QED
  BY <1>1, <1>2, SpecInv, PTL DEF Spec, ImplementsValues, Values!Spec
=============================================================================
