---------------------- MODULE Vp8DecoderThreadsProofs ----------------------
(***************************************************************************)
(* The row threads of the VP8 decoder for pictures of any size, any number *)
(* of threads and every sync range of the code, if a frame of another      *)
(* shape finds the threads back.                                           *)
(***************************************************************************)
EXTENDS Vp8DecoderThreads, TLAPS

\* The threads of a frame.
Threads == decoding_thread_count + 1

\* The thread that row r is for.
Owner(r) == r % Threads

\* A frame is being decoded in threads.
Working == at[0] \notin {"app", "join", "exit"}

\* The thread has been started for the frame, or is the main thread.
Begun(t) == Working /\ (t = 0 \/ start[t] = 0)

\* The thread has rows of the frame, and has begun them.
On(t) == t <= decoding_thread_count /\ t < mb_rows /\ Begun(t)

\* The value of a row's column when its last macroblock is ready.
Ready == Cols + NSync

\* What the main thread's place says of the frame.
MainInv ==
  /\ at[0] \notin {"top", "idle"}
  /\ at[0] \in {"join", "exit"} => ~running
  /\ Working => running /\ mb_rows > 0
  /\ ~Working => end = 0 /\ \A r \in Row : decoded[r] = Cols
  /\ \A r \in Row : r >= mb_rows => decoded[r] = Cols

\* The helpers that no frame starts any more, the starts of the others, and the
\* end of them all.
HelperInv(t) ==
  /\ running /\ decoding_thread_count < t =>
       start[t] = 0 /\ at[t] \in {"top", "idle"}
  /\ t < mb_rows => start[t] <= 1
  /\ t < mb_rows /\ at[0] = "app" => start[t] = 0
  /\ t < mb_rows /\ ~running /\ t > joining => start[t] = 0
  /\ ~running => ~Working /\ at[0] # "app"
  /\ at[t] = "exit" => ~running
  /\ at[t] \notin {"app", "wait", "join"}

\* A thread that is on the frame is in a row of its own or below the picture.
OnInv(t) ==
  On(t) =>
    /\ at[t] \notin {"end", "wait", "top", "idle"} => Owner(row[t]) = t
    /\ at[t] \in {"mb", "spin", "flag", "next"} =>
         row[t] < mb_rows /\ last[t] = row[t]
    /\ at[t] \in {"mb", "spin"} => col[t] < Cols
    /\ at[t] \in {"flag", "next"} => col[t] = Cols
    /\ at[t] = "test" => \/ row[t] = t /\ last[t] = t
                         \/ row[t] = last[t] + Threads /\ last[t] < mb_rows
    /\ at[t] = "end" => row[t] = last[t] + Threads /\ last[t] < mb_rows
    /\ at[t] \in {"test", "end"} => Owner(last[t]) = t
    /\ at[t] \in {"end", "wait", "top", "idle"} => row[t] >= mb_rows

\* Another one is at most on its way out of the frame before, and no longer
\* signals its end.
OffInv(t) ==
  ~On(t) =>
    /\ at[t] \in {"next", "test", "end", "top", "idle", "exit"}
    /\ at[t] = "next" => row[t] + Threads >= mb_rows
    /\ at[t] \in {"test", "end"} => row[t] >= mb_rows
    /\ at[t] \in {"next", "test", "end"} => last[t] # mb_rows - 1

\* How far a row of thread t is, and what its entry of mt_current_mb_col says.
RowInv(r, t) ==
  /\ ~Begun(t) \/ row[t] < r => decoded[r] = 0 /\ current_mb_col[r] = -1
  /\ Begun(t) /\ r < row[t] => decoded[r] = Cols /\ current_mb_col[r] = Ready
  /\ Begun(t) /\ row[t] = r =>
       /\ at[t] = "test" => decoded[r] = 0 /\ current_mb_col[r] = -1
       /\ at[t] \in {"mb", "flag"} =>
            /\ decoded[r] = col[t]
            /\ current_mb_col[r] = IF col[t] = 0 THEN -1 ELSE col[t] - 2
       /\ at[t] = "spin" => decoded[r] = col[t] /\ current_mb_col[r] = col[t] - 1
       /\ at[t] = "next" => decoded[r] = Cols /\ current_mb_col[r] = Ready

RowsInv == Working => \A r \in Row : r < mb_rows => RowInv(r, Owner(r))

\* A thread that got past the spin loop where it last had to has seen the row
\* above NSync macroblocks further.
Above(t) ==
  row[t] > 0 => current_mb_col[row[t] - 1] >= col[t] - (col[t] % NSync) + NSync

AboveInv(t) ==
  On(t) /\ at[t] \in {"mb", "spin"} /\ col[t] % NSync # 0 => Above(t)

\* A row is done after all rows above.
AllAboveInv ==
  Working => \A r, s \in Row :
    r < mb_rows /\ s < r /\ decoded[r] = Cols =>
      decoded[s] = Cols /\ current_mb_col[s] = Ready

\* The end is signalled once, by the thread of the last row.
EndInv ==
  Working => end = IF Begun(Owner(mb_rows - 1))
                      /\ at[Owner(mb_rows - 1)] \in {"wait", "top", "idle"}
                   THEN 1 ELSE 0

ThreadInv(t) == OnInv(t) /\ AboveInv(t)

IInv ==
  /\ TypeOK
  /\ MainInv
  /\ \A t \in Helper : HelperInv(t) /\ OffInv(t)
  /\ \A t \in Thread : ThreadInv(t)
  /\ RowsInv
  /\ AllAboveInv
  /\ EndInv

-----------------------------------------------------------------------------
(* Rows and remainders *)

\* What division and remainder are.
LEMMA DivMod ==
  ASSUME NEW n \in Nat \ {0}, NEW a \in Nat
  PROVE  /\ a \div n \in Nat
         /\ a % n \in 0 .. n - 1
         /\ a = n * (a \div n) + (a % n)
<1>1. a % n \in 0 .. n - 1
  OBVIOUS
<1>2. a \div n \in Int
  OBVIOUS
<1>3. a = n * (a \div n) + (a % n)
  OBVIOUS
<1>4. a \div n >= 0
  OBVIOUS
<1> QED
  BY <1>1, <1>2, <1>3, <1>4

LEMMA ZeroMod ==
  ASSUME NEW n \in Nat \ {0}
  PROVE  0 % n = 0
OBVIOUS

\* A product grows by its factor.
LEMMA Times ==
  ASSUME NEW n \in Nat \ {0}, NEW k \in Int, NEW l \in Int, k < l
  PROVE  n * k + n <= n * l
<1>1. n * (l - k - 1) >= 0
  OBVIOUS
<1>2. n * (l - k - 1) = n * l - n * k - n
  OBVIOUS
<1> QED
  BY <1>1, <1>2

\* Between a row of a thread and its next one there is none of that thread.
LEMMA ModBetween ==
  ASSUME NEW n \in Nat \ {0}, NEW a \in Nat, NEW b \in Nat,
         a % n = b % n, a < b
  PROVE  a + n <= b
<1>1. a = n * (a \div n) + (a % n) /\ b = n * (b \div n) + (a % n)
  BY DivMod
<1>2. a \div n \in Int /\ b \div n \in Int /\ (a % n) \in Int
  BY DivMod
<1>3. CASE a \div n < b \div n
  <2>1. n * (a \div n) + n <= n * (b \div n)
    BY <1>2, <1>3, Times
  <2>2. n * (a \div n) \in Int /\ n * (b \div n) \in Int
    BY <1>2
  <2> QED
    BY <1>1, <1>2, <2>1, <2>2
<1>4. CASE b \div n <= a \div n
  BY <1>1, <1>2, <1>4, Times
<1> QED
  BY <1>2, <1>3, <1>4

\* A thread's next row is its own.
LEMMA ModStep ==
  ASSUME NEW n \in Nat \ {0}, NEW a \in Nat
  PROVE  (a + n) % n = a % n
<1> DEFINE p == a \div n
           q == (a + n) \div n
<1>1. /\ a = n * p + (a % n)
      /\ a + n = n * q + ((a + n) % n)
      /\ p \in Nat /\ q \in Nat
      /\ a % n \in 0 .. n - 1 /\ (a + n) % n \in 0 .. n - 1
  <2>1. a + n \in Nat
    OBVIOUS
  <2>2. a = n * p + (a % n) /\ p \in Nat /\ a % n \in 0 .. n - 1
    BY DivMod
  <2>3. /\ a + n = n * q + ((a + n) % n) /\ q \in Nat
        /\ (a + n) % n \in 0 .. n - 1
    BY <2>1, DivMod
  <2> QED
    BY <2>2, <2>3
<1>2. n * p \in Int /\ n * q \in Int /\ n * (p + 1) = n * p + n
  BY <1>1
<1>3. CASE q < p
  BY <1>1, <1>2, <1>3, Times
<1>4. CASE q = p
  BY <1>1, <1>2, <1>4
<1>5. CASE p + 1 < q
  <2>1. n * (p + 1) + n <= n * q
    BY <1>1, <1>5, Times
  <2> QED
    BY <1>1, <1>2, <2>1
<1>6. CASE q = p + 1
  BY <1>1, <1>2, <1>6
<1> QED
  BY <1>1, <1>3, <1>4, <1>5, <1>6

\* Between two columns where the row above is tested.
LEMMA SameRange ==
  ASSUME NEW c \in Nat, (c + 1) % NSync # 0
  PROVE  c + 1 - ((c + 1) % NSync) = c - (c % NSync)
<1>1. CASE NSync = 1
  BY <1>1
<1>2. CASE NSync = 8
  BY <1>2
<1>3. CASE NSync = 16
  BY <1>3
<1>4. CASE NSync = 32
  BY <1>4
<1> QED
  BY <1>1, <1>2, <1>3, <1>4, DecoderSizes

\* The thread of a row is one of the frame's, and has a row of the frame.
LEMMA OwnerIs ==
  ASSUME TypeOK, NEW r \in Nat
  PROVE  /\ Threads \in Nat \ {0}
         /\ Owner(r) \in 0 .. decoding_thread_count
         /\ Owner(r) \in Thread /\ Owner(r) \in Nat
         /\ Owner(r) <= r
         /\ r <= decoding_thread_count => Owner(r) = r
<1>1. Threads \in Nat \ {0} /\ decoding_thread_count \in 0 .. Helpers
  BY DecoderSizes DEF TypeOK, Threads
<1>2. Owner(r) \in 0 .. Threads - 1
  BY <1>1, DivMod DEF Owner
<1>3. Owner(r) \in 0 .. decoding_thread_count /\ Owner(r) \in Thread
  BY <1>1, <1>2, DecoderSizes DEF Threads, Thread
<1>4. ASSUME r <= decoding_thread_count
      PROVE  Owner(r) = r
  BY <1>1, <1>4 DEF Owner, Threads
<1> QED
  BY <1>1, <1>2, <1>3, <1>4 DEF Threads

-----------------------------------------------------------------------------
(* A thread's step in mt_decode_mb_rows() *)

\* Nothing of the frame itself changes, nor who is on it.
LEMMA SameFrame ==
  ASSUME mb_rows' = mb_rows, decoding_thread_count' = decoding_thread_count,
         start' = start, Working' = Working
  PROVE  /\ Threads' = Threads
         /\ \A r : Owner(r)' = Owner(r)
         /\ \A t : Begun(t)' = Begun(t) /\ On(t)' = On(t)
BY DEF Threads, Owner, Begun, On

\* Who is in mt_decode_mb_rows(): a thread that is on the frame, or one on its
\* way out of an earlier one.
LEMMA InRows ==
  ASSUME IInv, NEW t \in Thread,
         at[t] \in {"test", "mb", "spin", "flag", "next", "end"}
  PROVE  /\ t = 0 => Working /\ On(t)
         /\ ~On(t) => t \in Helper /\ OffInv(t) /\ at[t] \in {"test", "next", "end"}
         /\ On(t) => Working /\ OnInv(t)
         /\ row[t] \in Nat /\ last[t] \in Nat /\ col[t] \in 0 .. Cols
         /\ row[t] < mb_rows => row[t] \in Row
<1>1. TypeOK /\ MainInv /\ ThreadInv(t) /\ (t \in Helper => OffInv(t))
  BY DEF IInv
<1>2. t = 0 => Working /\ On(t)
  BY <1>1 DEF Working, On, Begun, MainInv, TypeOK
<1>3. ~On(t) => t \in Helper
  BY <1>2, DecoderSizes DEF Thread, Helper
<1>4. row[t] \in Nat /\ last[t] \in Nat /\ col[t] \in 0 .. Cols
  BY <1>1 DEF TypeOK
<1>5. row[t] < mb_rows => row[t] \in Row
  BY <1>1, <1>4, DecoderSizes DEF TypeOK, Row
<1> QED
  BY <1>1, <1>2, <1>3, <1>4, <1>5 DEF OffInv, On, Begun, ThreadInv

\* The other threads, where only one moves.
LEMMA OthersStay ==
  ASSUME mb_rows' = mb_rows, decoding_thread_count' = decoding_thread_count,
         running' = running, joining' = joining,
         Working' = Working, (at[0] = "app")' = (at[0] = "app"),
         NEW u, u = 0 \/ start'[u] = start[u],
         at'[u] = at[u], row'[u] = row[u], last'[u] = last[u], col'[u] = col[u]
  PROVE  /\ Begun(u)' = Begun(u) /\ On(u)' = On(u)
         /\ u # 0 /\ HelperInv(u) => HelperInv(u)'
         /\ OffInv(u) => OffInv(u)'
         /\ OnInv(u) => OnInv(u)'
<1>1. Threads' = Threads /\ \A r : Owner(r)' = Owner(r)
  BY DEF Threads, Owner
<1>2. Begun(u)' = Begun(u) /\ On(u)' = On(u)
  BY DEF Begun, On
<1>3. u # 0 /\ HelperInv(u) => HelperInv(u)'
  BY DEF HelperInv
<1>4. OffInv(u) => OffInv(u)'
  BY <1>1, <1>2 DEF OffInv
<1>5. OnInv(u) => OnInv(u)'
  BY <1>1, <1>2 DEF OnInv
<1> QED
  BY <1>2, <1>3, <1>4, <1>5

LEMMA RowStays ==
  ASSUME mb_rows' = mb_rows, decoding_thread_count' = decoding_thread_count,
         NEW r, NEW u, Begun(u)' = Begun(u), at'[u] = at[u], row'[u] = row[u],
         col'[u] = col[u], decoded'[r] = decoded[r],
         current_mb_col'[r] = current_mb_col[r], RowInv(r, u)
  PROVE  RowInv(r, u)'
BY DEF RowInv, Ready

LEMMA AboveStays ==
  ASSUME TypeOK, TypeOK', NEW u \in Thread, OnInv(u), On(u)' = On(u),
         at'[u] = at[u], row'[u] = row[u], col'[u] = col[u],
         \A r \in Row : current_mb_col'[r] >= current_mb_col[r],
         AboveInv(u)
  PROVE  AboveInv(u)'
<1> SUFFICES ASSUME On(u), at[u] \in {"mb", "spin"}, col[u] % NSync # 0, row[u] > 0
             PROVE  current_mb_col'[row[u] - 1] >= col[u] - (col[u] % NSync) + NSync
  BY DEF AboveInv, Above
<1>1. /\ row[u] \in Nat /\ row[u] < mb_rows /\ mb_rows \in 0 .. MaxRows
      /\ col[u] \in Nat
  BY DEF TypeOK, OnInv
<1>2. row[u] - 1 \in Row
  BY <1>1, DecoderSizes DEF Row
<1>3. /\ current_mb_col[row[u] - 1] \in Int /\ current_mb_col'[row[u] - 1] \in Int
      /\ current_mb_col'[row[u] - 1] >= current_mb_col[row[u] - 1]
  BY <1>2, DecoderSizes DEF TypeOK
<1>4. col[u] % NSync \in Int /\ NSync \in Int
  BY <1>1, DecoderSizes
<1>5. current_mb_col[row[u] - 1] >= col[u] - (col[u] % NSync) + NSync
  BY DEF AboveInv, Above
<1> HIDE DEF AboveInv
<1> QED
  BY <1>1, <1>3, <1>4, <1>5

\* The invariant after a step of one thread in its rows, if it holds of this
\* thread and of its rows.
LEMMA StepKeeps ==
  ASSUME IInv, NEW t \in Thread,
         at[t] \in {"test", "mb", "spin", "flag", "next", "end"},
         mb_rows' = mb_rows, decoding_thread_count' = decoding_thread_count,
         start' = start, running' = running, joining' = joining,
         \A u \in Thread : u # t =>
           /\ at'[u] = at[u] /\ row'[u] = row[u]
           /\ last'[u] = last[u] /\ col'[u] = col[u],
         at'[t] \in {"test", "mb", "spin", "flag", "next", "end",
                     IF t = 0 THEN "wait" ELSE "top"},
         \A r \in Row : ~On(t) \/ Owner(r) # t \/ r >= mb_rows =>
           decoded'[r] = decoded[r] /\ current_mb_col'[r] = current_mb_col[r],
         \A r \in Row : current_mb_col'[r] >= current_mb_col[r],
         ~On(t) => end' = end,
         TypeOK', OnInv(t)', OffInv(t)', AboveInv(t)',
         On(t) => \A r \in Row : r < mb_rows /\ Owner(r) = t => RowInv(r, t)',
         AllAboveInv', EndInv'
  PROVE  IInv'
<1>1. /\ TypeOK /\ MainInv /\ RowsInv
      /\ \A u \in Helper : HelperInv(u) /\ OffInv(u)
      /\ \A u \in Thread : OnInv(u) /\ AboveInv(u)
  BY DEF IInv, ThreadInv
<1>2. /\ t = 0 => Working /\ On(t)
      /\ ~On(t) => t \in Helper
      /\ On(t) => Working
  BY InRows
<1>3. 0 \in Thread /\ Helper \subseteq Thread /\ 0 \notin Helper
  BY DecoderSizes DEF Thread, Helper
<1>4. Working' = Working /\ (at[0] = "app")' = (at[0] = "app")
  BY <1>2, <1>3 DEF Working
<1>5. /\ \A r : Owner(r)' = Owner(r)
      /\ \A u : Begun(u)' = Begun(u) /\ On(u)' = On(u)
  BY <1>4, SameFrame
<1>6. MainInv'
  <2>1. /\ at'[0] \notin {"top", "idle"}
        /\ at'[0] \in {"join", "exit"} => ~running'
    BY <1>1, <1>3 DEF MainInv
  <2>2. Working' => running' /\ mb_rows' > 0
    BY <1>1, <1>4 DEF MainInv
  <2>3. \A r \in Row : ~On(t) \/ r >= mb_rows => decoded'[r] = decoded[r]
    OBVIOUS
  <2>4. ~Working => ~On(t)
    BY <1>2
  <2> QED
    BY <1>1, <1>4, <2>1, <2>2, <2>3, <2>4 DEF MainInv
<1>7. ASSUME NEW u \in Helper
      PROVE  HelperInv(u)' /\ OffInv(u)'
  <2>1. CASE u # t
    <3>1. /\ at'[u] = at[u] /\ row'[u] = row[u]
          /\ last'[u] = last[u] /\ col'[u] = col[u]
      BY <1>3, <2>1
    <3>2. u # 0 /\ start'[u] = start[u] /\ HelperInv(u) /\ OffInv(u)
      BY <1>1, <1>3
    <3> QED
      BY <1>4, <3>1, <3>2, OthersStay
  <2>2. CASE u = t
    <3>1. t # 0 /\ HelperInv(t)
      BY <1>1, <1>3, <2>2
    <3>2. at[t] \notin {"top", "idle"} /\ at'[t] \notin {"app", "wait", "join", "exit"}
      BY <3>1
    <3>3. HelperInv(t)'
      BY <1>4, <3>1, <3>2 DEF HelperInv
    <3> QED
      BY <2>2, <3>3
  <2> QED
    BY <2>1, <2>2
<1>8. ASSUME NEW u \in Thread
      PROVE  ThreadInv(u)'
  <2>1. CASE u # t
    <3>1. /\ at'[u] = at[u] /\ row'[u] = row[u]
          /\ last'[u] = last[u] /\ col'[u] = col[u]
      BY <2>1
    <3>2. OnInv(u)'
      <4>1. start'[u] = start[u] /\ OnInv(u)
        BY <1>1
      <4> QED
        BY <1>4, <3>1, <4>1, OthersStay
    <3>3. AboveInv(u)'
      BY <1>1, <1>5, <3>1, AboveStays
    <3> QED
      BY <3>2, <3>3 DEF ThreadInv
  <2>2. CASE u = t
    BY <2>2 DEF ThreadInv
  <2> QED
    BY <2>1, <2>2
<1>9. RowsInv'
  <2> SUFFICES ASSUME Working, NEW r \in Row, r < mb_rows
               PROVE  RowInv(r, Owner(r))'
    BY <1>4 DEF RowsInv
  <2> DEFINE u == Owner(r)
  <2>1. r \in Nat /\ u \in Thread /\ RowInv(r, u) /\ u' = u
    BY <1>1, <1>5, DecoderSizes, OwnerIs DEF Row, RowsInv
  <2>2. CASE u # t
    <3>1. /\ at'[u] = at[u] /\ row'[u] = row[u] /\ col'[u] = col[u]
          /\ decoded'[r] = decoded[r] /\ current_mb_col'[r] = current_mb_col[r]
      BY <2>1, <2>2
    <3>2. RowInv(r, u)'
      <4> HIDE DEF u
      <4> QED
        BY <1>5, <2>1, <3>1, RowStays
    <3> QED
      BY <3>2
  <2>3. CASE u = t
    <3>1. u <= decoding_thread_count /\ u < mb_rows
      <4>1. r \in Nat /\ mb_rows \in Nat
        BY <1>1, <2>1, DecoderSizes DEF TypeOK
      <4>2. u \in 0 .. decoding_thread_count /\ u \in Nat /\ u <= r
        BY <1>1, <4>1, OwnerIs
      <4> QED
        BY <1>1, <4>1, <4>2, DecoderSizes DEF TypeOK
    <3>2. CASE On(t)
      <4>1. Owner(r) = t
        BY <2>3
      <4>2. RowInv(r, t)'
        BY <3>2, <4>1
      <4> QED
        BY <1>5, <4>1, <4>2
    <3>3. CASE ~On(t)
      <4>1. ~Begun(u) /\ ~Begun(u)'
        BY <1>5, <2>3, <3>1, <3>3 DEF On
      <4>2. decoded'[r] = decoded[r] /\ current_mb_col'[r] = current_mb_col[r]
        BY <3>3
      <4>3. RowInv(r, u)'
        <5> HIDE DEF u
        <5> QED
          BY <2>1, <4>1, <4>2 DEF RowInv
      <4> QED
        BY <4>3
    <3> QED
      BY <3>2, <3>3
  <2> QED
    BY <2>2, <2>3
<1> QED
  BY <1>6, <1>7, <1>8, <1>9 DEF IInv

LEMMA EndStays ==
  ASSUME TypeOK, EndInv, NEW t \in Thread,
         at[t] \in {"test", "mb", "spin", "flag", "next", "end"},
         mb_rows' = mb_rows, decoding_thread_count' = decoding_thread_count,
         start' = start, end' = end, Working' = Working,
         \A u \in Thread : u # t => at'[u] = at[u],
         at'[t] \in {"test", "mb", "spin", "flag", "next", "end"},
         Working => mb_rows > 0
  PROVE  EndInv'
<1> SUFFICES ASSUME Working
             PROVE  EndInv'
  BY DEF EndInv
<1> DEFINE L == Owner(mb_rows - 1)
<1>1. L \in Thread
  BY DecoderSizes, OwnerIs DEF TypeOK
<1>2. Begun(L)' = Begun(L) /\ L' = L
  BY SameFrame
<1>3. at'[L] \in {"wait", "top", "idle"} <=> at[L] \in {"wait", "top", "idle"}
  BY <1>1
<1>4. end = IF Begun(L) /\ at[L] \in {"wait", "top", "idle"} THEN 1 ELSE 0
  BY DEF EndInv
<1> HIDE DEF L
<1>5. end' = IF Begun(L)' /\ at'[L] \in {"wait", "top", "idle"} THEN 1 ELSE 0
  BY <1>2, <1>3, <1>4
<1> QED
  BY <1>2, <1>5 DEF EndInv, L

LEMMA AllAboveStays ==
  ASSUME AllAboveInv, Working' = Working, mb_rows' = mb_rows, decoded' = decoded,
         \A s \in Row : decoded[s] = Cols /\ current_mb_col[s] = Ready =>
           current_mb_col'[s] = Ready
  PROVE  AllAboveInv'
BY DEF AllAboveInv, Ready

LEMMA TestRowInv ==
  ASSUME IInv, NEW t \in Thread, TestRow(t)
  PROVE  IInv'
<1>1. TypeOK /\ MainInv /\ RowsInv /\ AllAboveInv /\ EndInv /\ AboveInv(t)
  BY DEF IInv, ThreadInv
<1>2. /\ at[t] = "test"
      /\ mb_rows' = mb_rows /\ decoding_thread_count' = decoding_thread_count
      /\ current_mb_col' = current_mb_col /\ row' = row /\ start' = start
      /\ end' = end /\ running' = running /\ joining' = joining
      /\ decoded' = decoded
  BY DEF TestRow
<1>3. /\ t = 0 => Working /\ On(t)
      /\ ~On(t) => OffInv(t)
      /\ On(t) => Working /\ OnInv(t)
      /\ row[t] \in Nat /\ last[t] \in Nat
      /\ row[t] < mb_rows => row[t] \in Row
  BY <1>2, InRows
<1>4. /\ at \in [Thread -> Place] /\ col \in [Thread -> 0 .. Cols]
      /\ last \in [Thread -> Nat] /\ row \in [Thread -> Nat]
      /\ Cols \in Nat \ {0} /\ 0 \in Thread
      /\ mb_rows \in Nat /\ decoding_thread_count \in Nat
  BY <1>1, DecoderSizes DEF TypeOK, Thread
<1>5. \/ /\ row[t] < mb_rows /\ On(t)
         /\ at' = [at EXCEPT ![t] = "mb"]
         /\ last' = [last EXCEPT ![t] = row[t]]
         /\ col' = [col EXCEPT ![t] = 0]
      \/ /\ row[t] >= mb_rows
         /\ at' = [at EXCEPT ![t] = "end"]
         /\ last' = last /\ col' = col
  BY <1>2, <1>3, <1>4 DEF TestRow, OffInv
<1>6. /\ at' \in [Thread -> Place]
      /\ at'[t] = IF row[t] < mb_rows THEN "mb" ELSE "end"
      /\ \A u \in Thread : u # t =>
           /\ at'[u] = at[u] /\ row'[u] = row[u]
           /\ last'[u] = last[u] /\ col'[u] = col[u]
      /\ row[t] < mb_rows => On(t) /\ last'[t] = row[t] /\ col'[t] = 0
      /\ row[t] >= mb_rows => last'[t] = last[t]
  BY <1>2, <1>3, <1>4, <1>5 DEF Place
<1>7. TypeOK'
  BY <1>1, <1>2, <1>3, <1>4, <1>5, <1>6 DEF TypeOK
<1>8. Working' = Working
  BY <1>2, <1>4, <1>6 DEF Working
<1>9. /\ Threads' = Threads
      /\ \A r : Owner(r)' = Owner(r)
      /\ \A u : Begun(u)' = Begun(u) /\ On(u)' = On(u)
  BY <1>2, <1>8, SameFrame
<1>10. OnInv(t)'
  BY <1>2, <1>3, <1>4, <1>6, <1>9 DEF OnInv, On
<1>11. OffInv(t)'
  BY <1>2, <1>3, <1>4, <1>6, <1>9 DEF OffInv
<1>12. AboveInv(t)'
  BY <1>4, <1>6, DecoderSizes DEF AboveInv
<1>13. ASSUME On(t), NEW r \in Row, r < mb_rows, Owner(r) = t
       PROVE  RowInv(r, t)'
  <2>1. RowInv(r, t)
    BY <1>1, <1>3, <1>13 DEF RowsInv
  <2> QED
    BY <1>2, <1>3, <1>4, <1>6, <1>9, <2>1, DecoderSizes DEF RowInv, Ready, Row
<1>14. AllAboveInv'
  BY <1>1, <1>2, <1>8, AllAboveStays
<1>15. EndInv'
  BY <1>1, <1>2, <1>6, <1>8, EndStays DEF MainInv
<1>16. \A r \in Row : current_mb_col'[r] >= current_mb_col[r]
  BY <1>1, <1>2, DecoderSizes DEF TypeOK
<1> QED
  BY <1>2, <1>6, <1>7, <1>10, <1>11, <1>12, <1>13, <1>14, <1>15, <1>16, StepKeeps

LEMMA StartMbInv ==
  ASSUME IInv, NEW t \in Thread, StartMb(t)
  PROVE  IInv'
<1>1. TypeOK /\ MainInv /\ RowsInv /\ AllAboveInv /\ EndInv /\ AboveInv(t)
  BY DEF IInv, ThreadInv
<1>2. /\ at[t] = "mb"
      /\ mb_rows' = mb_rows /\ decoding_thread_count' = decoding_thread_count
      /\ current_mb_col' = [current_mb_col EXCEPT ![row[t]] = col[t] - 1]
      /\ at' = [at EXCEPT ![t] = "spin"]
      /\ row' = row /\ col' = col /\ last' = last /\ start' = start
      /\ end' = end /\ running' = running /\ joining' = joining
      /\ decoded' = decoded
  BY DEF StartMb
<1>3. On(t) /\ Working /\ OnInv(t)
  BY <1>2, InRows
<1>4. /\ at \in [Thread -> Place]
      /\ current_mb_col \in [Row -> -1 .. Cols + NSync]
      /\ row[t] \in Nat /\ col[t] \in 0 .. Cols
      /\ mb_rows \in Nat /\ decoding_thread_count \in Nat
      /\ Cols \in Nat \ {0} /\ NSync \in Nat \ {0} /\ 0 \in Thread
  BY <1>1, DecoderSizes DEF TypeOK, Thread
<1>5. /\ row[t] < mb_rows /\ last[t] = row[t] /\ col[t] < Cols
      /\ Owner(row[t]) = t /\ row[t] \in Row
  BY <1>2, <1>3, InRows DEF OnInv
<1>6. /\ at' \in [Thread -> Place] /\ at'[t] = "spin"
      /\ \A u \in Thread : u # t => at'[u] = at[u]
  BY <1>2, <1>4 DEF Place
<1>7. Working' = Working
  BY <1>2, <1>4, <1>6 DEF Working
<1>8. /\ Threads' = Threads
      /\ \A r : Owner(r)' = Owner(r)
      /\ \A u : Begun(u)' = Begun(u) /\ On(u)' = On(u)
  BY <1>2, <1>7, SameFrame
<1>9. \A r \in Row : r < mb_rows => RowInv(r, Owner(r))
  BY <1>1, <1>3 DEF RowsInv
<1>10. /\ decoded[row[t]] = col[t]
       /\ current_mb_col[row[t]] = IF col[t] = 0 THEN -1 ELSE col[t] - 2
  BY <1>2, <1>3, <1>5, <1>9 DEF RowInv, On
<1>11. TypeOK'
  <2>1. current_mb_col' \in [Row -> -1 .. Cols + NSync]
    <3>1. col[t] - 1 \in -1 .. Cols + NSync
      BY <1>4
    <3> QED
      BY <1>2, <1>4, <3>1
  <2> QED
    BY <1>1, <1>2, <1>6, <2>1 DEF TypeOK
<1>12. OnInv(t)'
  BY <1>2, <1>3, <1>5, <1>6, <1>8 DEF OnInv
<1>13. OffInv(t)'
  BY <1>3, <1>8 DEF OffInv
<1>14. AboveInv(t)'
  <2>1. row[t] > 0 => row[t] - 1 \in Row /\ row[t] - 1 # row[t]
    BY <1>4, <1>5, DecoderSizes DEF Row
  <2> QED
    BY <1>1, <1>2, <1>3, <1>4, <1>6, <2>1 DEF AboveInv, Above
<1>15. ASSUME NEW r \in Row, r < mb_rows, Owner(r) = t
       PROVE  RowInv(r, t)'
  <2>1. RowInv(r, t)
    BY <1>9, <1>15
  <2> QED
    BY <1>2, <1>4, <1>5, <1>6, <1>8, <1>10, <2>1 DEF RowInv, Ready
<1>16. AllAboveInv'
  <2>1. current_mb_col[row[t]] # Ready
    BY <1>4, <1>10 DEF Ready
  <2> QED
    BY <1>1, <1>2, <1>4, <1>7, <2>1, AllAboveStays
<1>17. EndInv'
  BY <1>1, <1>2, <1>6, <1>7, EndStays DEF MainInv
<1>18. \A r \in Row : current_mb_col'[r] >= current_mb_col[r]
  BY <1>2, <1>4, <1>10
<1>19. \A r \in Row : Owner(r) # t \/ r >= mb_rows =>
         decoded'[r] = decoded[r] /\ current_mb_col'[r] = current_mb_col[r]
  BY <1>2, <1>4, <1>5
<1> QED
  BY <1>2, <1>3, <1>6, <1>11, <1>12, <1>13, <1>14, <1>15, <1>16, <1>17, <1>18,
     <1>19, StepKeeps

LEMMA FlagRowInv ==
  ASSUME IInv, NEW t \in Thread, FlagRow(t)
  PROVE  IInv'
<1>1. TypeOK /\ MainInv /\ RowsInv /\ AllAboveInv /\ EndInv
  BY DEF IInv
<1>2. /\ at[t] = "flag"
      /\ mb_rows' = mb_rows /\ decoding_thread_count' = decoding_thread_count
      /\ current_mb_col' = [current_mb_col EXCEPT ![row[t]] = Ready]
      /\ at' = [at EXCEPT ![t] = "next"]
      /\ row' = row /\ col' = col /\ last' = last /\ start' = start
      /\ end' = end /\ running' = running /\ joining' = joining
      /\ decoded' = decoded
  BY DEF FlagRow, Ready
<1>3. On(t) /\ Working /\ OnInv(t)
  BY <1>2, InRows
<1>4. /\ at \in [Thread -> Place]
      /\ current_mb_col \in [Row -> -1 .. Ready]
      /\ row[t] \in Nat
      /\ mb_rows \in Nat /\ decoding_thread_count \in Nat
      /\ Ready \in Nat /\ 0 \in Thread
  BY <1>1, DecoderSizes DEF TypeOK, Thread, Ready
<1>5. /\ row[t] < mb_rows /\ last[t] = row[t] /\ col[t] = Cols
      /\ Owner(row[t]) = t /\ row[t] \in Row
  BY <1>2, <1>3, InRows DEF OnInv
<1>6. /\ at' \in [Thread -> Place] /\ at'[t] = "next"
      /\ \A u \in Thread : u # t => at'[u] = at[u]
  BY <1>2, <1>4 DEF Place
<1>7. Working' = Working
  BY <1>2, <1>4, <1>6 DEF Working
<1>8. /\ Threads' = Threads /\ Ready' = Ready
      /\ \A r : Owner(r)' = Owner(r)
      /\ \A u : Begun(u)' = Begun(u) /\ On(u)' = On(u)
  BY <1>2, <1>7, SameFrame DEF Ready
<1>9. \A r \in Row : r < mb_rows => RowInv(r, Owner(r))
  BY <1>1, <1>3 DEF RowsInv
<1>10. TypeOK'
  <2>1. current_mb_col' \in [Row -> -1 .. Cols + NSync]
    <3>1. Ready \in -1 .. Cols + NSync
      BY DecoderSizes DEF Ready
    <3> QED
      BY <1>2, <1>4, <3>1 DEF Ready
  <2> QED
    BY <1>1, <1>2, <1>6, <2>1 DEF TypeOK
<1>11. OnInv(t)'
  BY <1>2, <1>3, <1>5, <1>6, <1>8 DEF OnInv
<1>12. OffInv(t)' /\ AboveInv(t)'
  BY <1>3, <1>6, <1>8 DEF OffInv, AboveInv
<1>13. ASSUME NEW r \in Row, r < mb_rows, Owner(r) = t
       PROVE  RowInv(r, t)'
  <2>1. RowInv(r, t)
    BY <1>9, <1>13
  <2>2. CASE r = row[t]
    <3>1. decoded[r] = Cols
      BY <1>2, <1>3, <1>5, <2>1, <2>2 DEF RowInv, On
    <3>2. current_mb_col'[r] = Ready
      BY <1>2, <1>4, <1>5, <2>2
    <3> QED
      BY <1>2, <1>3, <1>4, <1>6, <1>8, <2>2, <3>1, <3>2 DEF RowInv, On
  <2>3. CASE r # row[t]
    <3>1. current_mb_col'[r] = current_mb_col[r]
      BY <1>2, <1>4, <2>3
    <3> QED
      BY <1>2, <1>8, <2>1, <2>3, <3>1 DEF RowInv
  <2> QED
    BY <2>2, <2>3
<1>14. AllAboveInv'
  BY <1>1, <1>2, <1>4, <1>7, AllAboveStays
<1>15. EndInv'
  BY <1>1, <1>2, <1>6, <1>7, EndStays DEF MainInv
<1>16. \A r \in Row : current_mb_col'[r] >= current_mb_col[r]
  BY <1>2, <1>4
<1>17. \A r \in Row : Owner(r) # t \/ r >= mb_rows =>
         decoded'[r] = decoded[r] /\ current_mb_col'[r] = current_mb_col[r]
  BY <1>2, <1>4, <1>5
<1> QED
  BY <1>2, <1>3, <1>6, <1>10, <1>11, <1>12, <1>13, <1>14, <1>15, <1>16, <1>17,
     StepKeeps

\* A thread that leaves the spin loop has the row above far enough: a row's
\* entry of mt_current_mb_col never runs ahead of its macroblocks.
LEMMA RowAbove ==
  ASSUME IInv, NEW t \in Thread, at[t] = "spin", ~MustSpin(t), row[t] > 0
  PROVE  /\ Above(t)
         /\ \/ decoded[row[t] - 1] = Cols /\ current_mb_col[row[t] - 1] = Ready
            \/ decoded[row[t] - 1] >= col[t] + 2 /\ col[t] + 1 < Cols
<1> DEFINE a == row[t] - 1
           u == Owner(a)
<1>1. TypeOK /\ MainInv /\ RowsInv /\ AboveInv(t)
  BY DEF IInv, ThreadInv
<1>2. On(t) /\ Working /\ OnInv(t)
  BY InRows
<1>3. /\ row[t] \in Nat /\ col[t] \in 0 .. Cols /\ mb_rows \in Nat
      /\ mb_rows <= MaxRows /\ row[t] < mb_rows /\ col[t] < Cols
      /\ Cols \in Nat \ {0} /\ NSync \in Nat \ {0} /\ MaxRows \in Nat
  BY <1>1, <1>2, DecoderSizes DEF TypeOK, OnInv
<1>4. a \in Row /\ a \in Nat /\ a < mb_rows
  BY <1>3 DEF Row
<1>5. /\ current_mb_col[a] \in Int /\ decoded[a] \in 0 .. Cols
      /\ decoding_thread_count \in Nat
  BY <1>1, <1>4, DecoderSizes DEF TypeOK
<1>6. Above(t)
  <2>1. CASE col[t] % NSync = 0
    <3>1. ~(col[t] > current_mb_col[a] - NSync)
      BY <2>1 DEF MustSpin
    <3>2. col[t] <= current_mb_col[a] - NSync
      BY <1>3, <1>5, <3>1
    <3>3. col[t] - (col[t] % NSync) + NSync = col[t] + NSync
      BY <1>3, <2>1
    <3>4. current_mb_col[a] >= col[t] + NSync
      BY <1>3, <1>5, <3>2
    <3> QED
      BY <3>3, <3>4 DEF Above
  <2>2. CASE col[t] % NSync # 0
    BY <1>1, <1>2, <2>2 DEF AboveInv
  <2> QED
    BY <2>1, <2>2
<1> SUFFICES \/ decoded[a] = Cols /\ current_mb_col[a] = Ready
             \/ decoded[a] >= col[t] + 2 /\ col[t] + 1 < Cols
  BY <1>6
<1>7. current_mb_col[a] >= col[t] + 1
  <2>1. col[t] % NSync \in 0 .. NSync - 1
    BY <1>3
  <2>2. current_mb_col[a] >= col[t] - (col[t] % NSync) + NSync
    BY <1>6 DEF Above
  <2> QED
    BY <1>3, <1>5, <2>1, <2>2
<1>8. u \in Thread /\ u <= decoding_thread_count /\ u < mb_rows
  <2>1. u \in 0 .. decoding_thread_count /\ u \in Thread /\ u <= a /\ u \in Nat
    BY <1>1, <1>4, OwnerIs
  <2> QED
    BY <1>3, <1>4, <1>5, <2>1
<1>9. RowInv(a, u)
  BY <1>1, <1>2, <1>4 DEF RowsInv
<1> HIDE DEF a, u
<1>10. Begun(u) /\ row[u] >= a
  BY <1>1, <1>3, <1>4, <1>5, <1>7, <1>8, <1>9 DEF RowInv, TypeOK
<1>11. CASE a < row[u]
  BY <1>9, <1>10, <1>11 DEF RowInv
<1>12. CASE row[u] = a
  <2>1. On(u) /\ OnInv(u)
    BY <1>8, <1>10 DEF On, IInv, ThreadInv
  <2>2. at[u] \notin {"end", "wait", "top", "idle"}
    BY <1>3, <1>4, <1>12, <2>1 DEF OnInv
  <2>3. at[u] \in {"test", "mb", "spin", "flag", "next"}
    <3>1. at[u] \in Place
      BY <1>1, <1>8 DEF TypeOK
    <3>2. CASE u = 0
      BY <1>2, <2>2, <3>1, <3>2 DEF Place, Working
    <3>3. CASE u # 0
      <4>1. u \in Helper
        BY <1>8, <3>3, DecoderSizes DEF Thread, Helper
      <4>2. HelperInv(u)
        BY <4>1 DEF IInv
      <4> QED
        BY <1>2, <2>2, <3>1, <4>2 DEF HelperInv, Place
    <3> QED
      BY <3>2, <3>3
  <2>4. col[u] \in 0 .. Cols
    BY <1>1, <1>8 DEF TypeOK
  <2>5. at[u] # "test"
    BY <1>3, <1>7, <1>9, <1>10, <1>12 DEF RowInv
  <2>6. CASE at[u] = "next"
    BY <1>9, <1>10, <1>12, <2>6 DEF RowInv
  <2>7. CASE at[u] \in {"mb", "flag", "spin"}
    <3>1. decoded[a] >= col[t] + 2
      BY <1>3, <1>7, <1>9, <1>10, <1>12, <2>4, <2>7 DEF RowInv
    <3> QED
      BY <1>3, <1>5, <3>1
  <2> QED
    BY <2>3, <2>5, <2>6, <2>7
<1> QED
  BY <1>1, <1>4, <1>8, <1>10, <1>11, <1>12 DEF TypeOK

LEMMA DecodeMbInv ==
  ASSUME IInv, NEW t \in Thread, DecodeMb(t)
  PROVE  IInv'
<1>1. TypeOK /\ MainInv /\ RowsInv /\ AllAboveInv /\ EndInv
  BY DEF IInv
<1>2. /\ at[t] = "spin" /\ ~MustSpin(t)
      /\ mb_rows' = mb_rows /\ decoding_thread_count' = decoding_thread_count
      /\ decoded' = [decoded EXCEPT ![row[t]] = col[t] + 1]
      /\ col' = [col EXCEPT ![t] = @ + 1]
      /\ at' = [at EXCEPT ![t] = IF col[t] + 1 < Cols THEN "mb" ELSE "flag"]
      /\ row' = row /\ current_mb_col' = current_mb_col /\ last' = last
      /\ start' = start /\ end' = end /\ running' = running /\ joining' = joining
  BY DEF DecodeMb
<1>3. On(t) /\ Working /\ OnInv(t)
  BY <1>2, InRows
<1>4. /\ at \in [Thread -> Place] /\ col \in [Thread -> 0 .. Cols]
      /\ decoded \in [Row -> 0 .. Cols]
      /\ row[t] \in Nat /\ col[t] \in Nat
      /\ mb_rows \in Nat /\ decoding_thread_count \in Nat
      /\ Cols \in Nat \ {0} /\ NSync \in Nat \ {0} /\ 0 \in Thread
  BY <1>1, DecoderSizes DEF TypeOK, Thread
<1>5. /\ row[t] < mb_rows /\ last[t] = row[t] /\ col[t] < Cols
      /\ Owner(row[t]) = t /\ row[t] \in Row
  BY <1>2, <1>3, InRows DEF OnInv
<1>6. /\ at' \in [Thread -> Place]
      /\ at'[t] = IF col[t] + 1 < Cols THEN "mb" ELSE "flag"
      /\ col' \in [Thread -> 0 .. Cols] /\ col'[t] = col[t] + 1
      /\ \A u \in Thread : u # t => at'[u] = at[u] /\ col'[u] = col[u]
      /\ decoded' \in [Row -> 0 .. Cols] /\ decoded'[row[t]] = col[t] + 1
      /\ \A r \in Row : r # row[t] => decoded'[r] = decoded[r]
  <2>1. col[t] + 1 \in 0 .. Cols
    BY <1>4, <1>5
  <2> QED
    BY <1>2, <1>4, <1>5, <2>1 DEF Place
<1>7. Working' = Working
  BY <1>2, <1>4, <1>6 DEF Working
<1>8. /\ Threads' = Threads /\ Ready' = Ready
      /\ \A r : Owner(r)' = Owner(r)
      /\ \A u : Begun(u)' = Begun(u) /\ On(u)' = On(u)
  BY <1>2, <1>7, SameFrame DEF Ready
<1>9. \A r \in Row : r < mb_rows => RowInv(r, Owner(r))
  BY <1>1, <1>3 DEF RowsInv
<1>10. decoded[row[t]] = col[t] /\ current_mb_col[row[t]] = col[t] - 1
  BY <1>2, <1>3, <1>5, <1>9 DEF RowInv, On
<1>11. TypeOK'
  BY <1>1, <1>2, <1>6 DEF TypeOK
<1>12. OnInv(t)'
  BY <1>2, <1>3, <1>4, <1>5, <1>6, <1>8 DEF OnInv
<1>13. OffInv(t)'
  BY <1>3, <1>8 DEF OffInv
<1>14. AboveInv(t)'
  <2> DEFINE c == col[t] + 1
  <2> SUFFICES ASSUME c % NSync # 0, row[t] > 0
               PROVE  current_mb_col[row[t] - 1] >= c - (c % NSync) + NSync
    <3>1. col'[t] = c /\ row'[t] = row[t] /\ current_mb_col' = current_mb_col
      BY <1>2, <1>6
    <3> HIDE DEF c
    <3> QED
      BY <3>1 DEF AboveInv, Above
  <2>1. c - (c % NSync) = col[t] - (col[t] % NSync)
    BY <1>4, SameRange
  <2>2. Above(t)
    BY <1>2, RowAbove
  <2>3. current_mb_col[row[t] - 1] >= col[t] - (col[t] % NSync) + NSync
    BY <2>2 DEF Above
  <2> HIDE DEF c
  <2> QED
    BY <2>1, <2>3
<1>15. ASSUME NEW r \in Row, r < mb_rows, Owner(r) = t
       PROVE  RowInv(r, t)'
  <2>1. RowInv(r, t)
    BY <1>9, <1>15
  <2>2. CASE r = row[t]
    BY <1>2, <1>3, <1>4, <1>5, <1>6, <1>8, <1>10, <2>2 DEF RowInv, On
  <2>3. CASE r # row[t]
    BY <1>2, <1>6, <1>8, <2>1, <2>3 DEF RowInv
  <2> QED
    BY <2>2, <2>3
<1>16. AllAboveInv'
  <2> SUFFICES ASSUME NEW r \in Row, NEW s \in Row, r < mb_rows, s < r,
                      decoded'[r] = Cols
               PROVE  decoded'[s] = Cols /\ current_mb_col[s] = Ready
    BY <1>2, <1>7, <1>8 DEF AllAboveInv
  <2>1. r \in Nat /\ s \in Nat
    BY DecoderSizes DEF Row
  <2>2. CASE r = row[t]
    <3>1. row[t] > 0 /\ row[t] - 1 \in Row /\ col[t] + 1 = Cols
      <4>1. col[t] + 1 = Cols
        BY <1>6, <2>2
      <4>2. row[t] > 0 /\ row[t] - 1 \in Row
        BY <2>1, <2>2, DecoderSizes DEF Row
      <4> QED
        BY <4>1, <4>2
    <3>2. decoded[r - 1] = Cols /\ current_mb_col[r - 1] = Ready
      BY <1>2, <1>4, <2>2, <3>1, RowAbove
    <3>3. s = r - 1 \/ s < r - 1
      BY <2>1
    <3>4. decoded[s] = Cols /\ current_mb_col[s] = Ready
      BY <1>1, <1>3, <1>4, <1>5, <2>1, <2>2, <3>1, <3>2, <3>3 DEF AllAboveInv
    <3> QED
      BY <1>6, <2>1, <2>2, <3>4
  <2>3. CASE r # row[t]
    <3>1. decoded[s] = Cols /\ current_mb_col[s] = Ready
      BY <1>1, <1>3, <1>6, <2>3 DEF AllAboveInv
    <3>2. s # row[t]
      BY <1>4, <1>5, <1>10, <3>1
    <3> QED
      BY <1>6, <3>1, <3>2
  <2> QED
    BY <2>2, <2>3
<1>17. EndInv'
  BY <1>1, <1>2, <1>6, <1>7, EndStays DEF MainInv
<1>18. \A r \in Row : current_mb_col'[r] >= current_mb_col[r]
  BY <1>1, <1>2, DecoderSizes DEF TypeOK
<1>19. \A r \in Row : Owner(r) # t \/ r >= mb_rows => decoded'[r] = decoded[r]
  BY <1>4, <1>5, <1>6
<1> QED
  BY <1>2, <1>3, <1>6, <1>11, <1>12, <1>13, <1>14, <1>15, <1>16, <1>17, <1>18,
     <1>19, StepKeeps

LEMMA NextRowInv ==
  ASSUME IInv, NEW t \in Thread, NextRow(t)
  PROVE  IInv'
<1>1. TypeOK /\ MainInv /\ RowsInv /\ AllAboveInv /\ EndInv
  BY DEF IInv
<1>2. /\ at[t] = "next"
      /\ mb_rows' = mb_rows /\ decoding_thread_count' = decoding_thread_count
      /\ row' = [row EXCEPT ![t] = @ + decoding_thread_count + 1]
      /\ at' = [at EXCEPT ![t] = "test"]
      /\ col' = col /\ current_mb_col' = current_mb_col /\ last' = last
      /\ start' = start /\ end' = end /\ running' = running /\ joining' = joining
      /\ decoded' = decoded
  BY DEF NextRow
<1>3. /\ ~On(t) => OffInv(t)
      /\ On(t) => Working /\ OnInv(t)
      /\ row[t] \in Nat
      /\ row[t] < mb_rows => row[t] \in Row
  BY <1>2, InRows
<1>4. /\ at \in [Thread -> Place] /\ row \in [Thread -> Nat]
      /\ mb_rows \in Nat /\ decoding_thread_count \in Nat
      /\ Threads \in Nat \ {0} /\ 0 \in Thread
  BY <1>1, DecoderSizes DEF TypeOK, Thread, Threads
<1>5. /\ at' \in [Thread -> Place] /\ at'[t] = "test"
      /\ row' \in [Thread -> Nat] /\ row'[t] = row[t] + Threads
      /\ \A u \in Thread : u # t => at'[u] = at[u] /\ row'[u] = row[u]
  <2>1. row[t] + decoding_thread_count + 1 = row[t] + Threads
    BY <1>3, <1>4 DEF Threads
  <2>2. row[t] + Threads \in Nat
    BY <1>3, <1>4
  <2> QED
    BY <1>2, <1>4, <2>1, <2>2 DEF Place
<1>6. Working' = Working
  BY <1>2, <1>4, <1>5 DEF Working
<1>7. /\ Threads' = Threads
      /\ \A r : Owner(r)' = Owner(r)
      /\ \A u : Begun(u)' = Begun(u) /\ On(u)' = On(u)
  BY <1>2, <1>6, SameFrame
<1>8. TypeOK'
  BY <1>1, <1>2, <1>5 DEF TypeOK
<1>9. On(t) => /\ Owner(row[t]) = t /\ Owner(row[t] + Threads) = t
               /\ row[t] < mb_rows /\ last[t] = row[t]
  <2>1. (row[t] + Threads) % Threads = row[t] % Threads
    BY <1>3, <1>4, ModStep
  <2> QED
    BY <1>2, <1>3, <2>1 DEF OnInv, Owner
<1>10. OnInv(t)'
  BY <1>2, <1>3, <1>4, <1>5, <1>7, <1>9 DEF OnInv
<1>11. OffInv(t)'
  BY <1>2, <1>3, <1>4, <1>5, <1>7 DEF OffInv
<1>12. AboveInv(t)'
  BY <1>5 DEF AboveInv
<1>13. ASSUME On(t), NEW r \in Row, r < mb_rows, Owner(r) = t
       PROVE  RowInv(r, t)'
  <2>1. RowInv(r, t) /\ r \in Nat /\ Begun(t)
    BY <1>1, <1>3, <1>13, DecoderSizes DEF RowsInv, Row, On
  <2>2. CASE r <= row[t]
    <3>1. decoded[r] = Cols /\ current_mb_col[r] = Ready
      BY <1>2, <1>3, <2>1, <2>2 DEF RowInv
    <3>2. r < row'[t]
      BY <1>3, <1>4, <1>5, <2>1, <2>2
    <3> QED
      BY <1>2, <1>5, <1>7, <2>1, <3>1, <3>2 DEF RowInv, Ready
  <2>3. CASE row[t] < r
    <3>1. row[t] % Threads = r % Threads
      BY <1>9, <1>13 DEF Owner
    <3>2. row'[t] <= r
      BY <1>3, <1>4, <1>5, <2>1, <2>3, <3>1, ModBetween
    <3>3. decoded[r] = 0 /\ current_mb_col[r] = -1
      BY <2>1, <2>3 DEF RowInv
    <3> QED
      BY <1>2, <1>3, <1>4, <1>5, <1>7, <2>1, <3>2, <3>3 DEF RowInv, Ready
  <2> QED
    BY <1>3, <2>1, <2>2, <2>3
<1>14. AllAboveInv'
  BY <1>1, <1>2, <1>6, AllAboveStays
<1>15. EndInv'
  BY <1>1, <1>2, <1>5, <1>6, EndStays DEF MainInv
<1>16. \A r \in Row : current_mb_col'[r] >= current_mb_col[r]
  BY <1>1, <1>2, DecoderSizes DEF TypeOK
<1> QED
  BY <1>2, <1>5, <1>8, <1>10, <1>11, <1>12, <1>13, <1>14, <1>15, <1>16, StepKeeps

\* Only the thread of the last row signals the end.
LEMMA LastRowEnds ==
  ASSUME IInv, NEW t \in Thread, at[t] = "end", On(t)
  PROVE  last[t] = mb_rows - 1 <=> t = Owner(mb_rows - 1)
<1>1. TypeOK /\ OnInv(t) /\ Working
  BY DEF IInv, ThreadInv, On, Begun
<1>2. /\ last[t] \in Nat /\ row[t] \in Nat /\ mb_rows \in Nat
      /\ row[t] = last[t] + Threads /\ last[t] < mb_rows
      /\ Owner(last[t]) = t /\ row[t] >= mb_rows
  BY <1>1, DecoderSizes DEF TypeOK, OnInv
<1>3. Threads \in Nat \ {0} /\ mb_rows - 1 \in Nat
  BY <1>1, <1>2, OwnerIs
<1>4. ASSUME t = Owner(mb_rows - 1), last[t] # mb_rows - 1
      PROVE  FALSE
  <2>1. last[t] % Threads = (mb_rows - 1) % Threads
    BY <1>2, <1>4 DEF Owner
  <2>2. last[t] < mb_rows - 1
    BY <1>2, <1>4
  <2>3. last[t] + Threads <= mb_rows - 1
    BY <1>2, <1>3, <2>1, <2>2, ModBetween
  <2> QED
    BY <1>2, <1>3, <2>3
<1> QED
  BY <1>2, <1>4

LEMMA SignalEndInv ==
  ASSUME IInv, NEW t \in Thread, SignalEnd(t)
  PROVE  IInv'
<1>1. TypeOK /\ MainInv /\ RowsInv /\ AllAboveInv /\ EndInv
  BY DEF IInv
<1>2. /\ at[t] = "end"
      /\ mb_rows' = mb_rows /\ decoding_thread_count' = decoding_thread_count
      /\ end' = IF last[t] = mb_rows - 1 THEN end + 1 ELSE end
      /\ at' = [at EXCEPT ![t] = IF t = 0 THEN "wait" ELSE "top"]
      /\ row' = row /\ col' = col /\ current_mb_col' = current_mb_col
      /\ last' = last /\ start' = start /\ running' = running
      /\ joining' = joining /\ decoded' = decoded
  BY DEF SignalEnd
<1>3. /\ ~On(t) => t \in Helper /\ OffInv(t)
      /\ On(t) => Working /\ OnInv(t)
      /\ row[t] \in Nat
  BY <1>2, InRows
<1>4. /\ at \in [Thread -> Place] /\ end \in Nat
      /\ mb_rows \in Nat /\ decoding_thread_count \in Nat /\ 0 \in Thread
  BY <1>1, DecoderSizes DEF TypeOK, Thread
<1>5. /\ at' \in [Thread -> Place]
      /\ at'[t] = IF t = 0 THEN "wait" ELSE "top"
      /\ \A u \in Thread : u # t => at'[u] = at[u]
  BY <1>2, <1>4 DEF Place
<1>6. Working' = Working
  BY <1>2, <1>4, <1>5 DEF Working
<1>7. /\ Threads' = Threads
      /\ \A r : Owner(r)' = Owner(r)
      /\ \A u : Begun(u)' = Begun(u) /\ On(u)' = On(u)
  BY <1>2, <1>6, SameFrame
<1>8. TypeOK'
  BY <1>1, <1>2, <1>4, <1>5 DEF TypeOK
<1>9. ~On(t) => end' = end
  BY <1>2, <1>3 DEF OffInv
<1>10. OnInv(t)'
  BY <1>2, <1>3, <1>4, <1>5, <1>7 DEF OnInv
<1>11. OffInv(t)' /\ AboveInv(t)'
  BY <1>2, <1>3, <1>5, <1>7, DecoderSizes DEF OffInv, AboveInv, Helper
<1>12. ASSUME On(t), NEW r \in Row, r < mb_rows, Owner(r) = t
       PROVE  RowInv(r, t)'
  <2>1. RowInv(r, t) /\ r \in Nat
    BY <1>1, <1>3, <1>12, DecoderSizes DEF RowsInv, Row
  <2>2. r < row[t]
    BY <1>2, <1>3, <1>4, <1>12, <2>1 DEF OnInv
  <2> QED
    BY <1>2, <1>3, <1>7, <2>1, <2>2 DEF RowInv, Ready
<1>13. AllAboveInv'
  BY <1>1, <1>2, <1>6, AllAboveStays
<1>14. EndInv'
  <2> SUFFICES ASSUME Working
               PROVE  EndInv'
    BY <1>6 DEF EndInv
  <2> DEFINE L == Owner(mb_rows - 1)
  <2>1. mb_rows - 1 \in Nat
    BY <1>1, <1>4 DEF MainInv
  <2>2. /\ L \in Thread /\ L \in Nat /\ L <= decoding_thread_count
        /\ L <= mb_rows - 1
    BY <1>1, <2>1, OwnerIs
  <2>3. L' = L /\ Begun(L)' = Begun(L)
    BY <1>2, <1>7
  <2>4. end = IF Begun(L) /\ at[L] \in {"wait", "top", "idle"} THEN 1 ELSE 0
    BY <1>1 DEF EndInv
  <2>5. On(L) <=> Begun(L)
    BY <1>4, <2>1, <2>2 DEF On
  <2>6. On(t) => (last[t] = mb_rows - 1 <=> t = L)
    BY <1>2, LastRowEnds
  <2> HIDE DEF L
  <2>7. end' = IF Begun(L)' /\ at'[L] \in {"wait", "top", "idle"} THEN 1 ELSE 0
    <3>1. CASE t = L
      BY <1>2, <1>4, <1>5, <1>9, <2>2, <2>3, <2>4, <2>5, <2>6, <3>1
    <3>2. CASE t # L
      BY <1>2, <1>5, <1>9, <2>2, <2>3, <2>4, <2>6, <3>2
    <3> QED
      BY <3>1, <3>2
  <2> QED
    BY <2>3, <2>7 DEF EndInv, L
<1>15. \A r \in Row : current_mb_col'[r] >= current_mb_col[r]
  BY <1>1, <1>2, DecoderSizes DEF TypeOK
<1> QED
  BY <1>2, <1>5, <1>8, <1>9, <1>10, <1>11, <1>12, <1>13, <1>14, <1>15, StepKeeps

-----------------------------------------------------------------------------
(* A thread's step outside its rows *)

\* The invariant after a step of a helper, if it holds of this thread and of
\* its rows.
LEMMA HelperKeeps ==
  ASSUME IInv, NEW t \in Helper,
         mb_rows' = mb_rows, decoding_thread_count' = decoding_thread_count,
         current_mb_col' = current_mb_col, col' = col, end' = end,
         running' = running, joining' = joining, decoded' = decoded,
         \A u \in Thread : u # t =>
           at'[u] = at[u] /\ row'[u] = row[u] /\ last'[u] = last[u],
         \A u \in Helper : u # t => start'[u] = start[u],
         TypeOK', HelperInv(t)', OffInv(t)', ThreadInv(t)',
         Working => \A r \in Row : r < mb_rows /\ Owner(r) = t => RowInv(r, t)',
         EndInv'
  PROVE  IInv'
<1>1. /\ TypeOK /\ MainInv /\ RowsInv /\ AllAboveInv
      /\ \A u \in Helper : HelperInv(u) /\ OffInv(u)
      /\ \A u \in Thread : OnInv(u) /\ AboveInv(u)
  BY DEF IInv, ThreadInv
<1>2. /\ 0 \in Thread /\ Helper \subseteq Thread /\ 0 \notin Helper
      /\ \A u \in Thread : u = 0 \/ u \in Helper
  BY DecoderSizes DEF Thread, Helper
<1>3. /\ at'[0] = at[0] /\ Working' = Working
      /\ (at[0] = "app")' = (at[0] = "app")
  BY <1>2 DEF Working
<1>4. MainInv'
  BY <1>1, <1>3 DEF MainInv
<1>5. ASSUME NEW u \in Thread, u # t
      PROVE  /\ Begun(u)' = Begun(u) /\ On(u)' = On(u)
             /\ u # 0 => HelperInv(u)' /\ OffInv(u)'
             /\ OnInv(u)'
  <2>1. /\ u = 0 \/ start'[u] = start[u]
        /\ at'[u] = at[u] /\ row'[u] = row[u] /\ last'[u] = last[u]
        /\ col'[u] = col[u] /\ OnInv(u)
        /\ u # 0 => HelperInv(u) /\ OffInv(u)
    BY <1>1, <1>2, <1>5
  <2> QED
    BY <1>3, <2>1, OthersStay
<1>6. ASSUME NEW u \in Thread
      PROVE  ThreadInv(u)'
  <2>1. CASE u # t
    <3>1. /\ at'[u] = at[u] /\ row'[u] = row[u] /\ col'[u] = col[u]
          /\ On(u)' = On(u) /\ OnInv(u) /\ AboveInv(u) /\ OnInv(u)'
      BY <1>1, <1>5, <2>1
    <3>2. \A r \in Row : current_mb_col'[r] >= current_mb_col[r]
      BY <1>1, DecoderSizes DEF TypeOK
    <3>3. AboveInv(u)'
      BY <1>1, <3>1, <3>2, AboveStays
    <3> QED
      BY <3>1, <3>3 DEF ThreadInv
  <2>2. CASE u = t
    BY <2>2
  <2> QED
    BY <2>1, <2>2
<1>7. RowsInv'
  <2> SUFFICES ASSUME Working, NEW r \in Row, r < mb_rows
               PROVE  RowInv(r, Owner(r))'
    BY <1>3 DEF RowsInv
  <2> DEFINE u == Owner(r)
  <2>1. r \in Nat /\ u \in Thread /\ RowInv(r, u) /\ u' = u
    BY <1>1, DecoderSizes, OwnerIs DEF Row, RowsInv, Owner, Threads
  <2>2. CASE u # t
    <3>1. /\ at'[u] = at[u] /\ row'[u] = row[u] /\ Begun(u)' = Begun(u)
      BY <1>5, <2>1, <2>2
    <3> HIDE DEF u
    <3>2. RowInv(r, u)'
      BY <2>1, <3>1, RowStays
    <3> QED
      BY <2>1, <3>2 DEF u
  <2>3. CASE u = t
    BY <2>1, <2>3
  <2> QED
    BY <2>2, <2>3
<1>8. AllAboveInv'
  BY <1>1, <1>3, AllAboveStays
<1> QED
  BY <1>2, <1>4, <1>5, <1>6, <1>7, <1>8 DEF IInv

LEMMA ThreadTopInv ==
  ASSUME IInv, NEW t \in Helper, ThreadTop(t)
  PROVE  IInv'
<1>1. /\ TypeOK /\ MainInv /\ RowsInv /\ EndInv /\ HelperInv(t) /\ OffInv(t)
      /\ OnInv(t) /\ t \in Thread /\ t # 0 /\ t \in Nat
  BY DecoderSizes DEF IInv, ThreadInv, Helper, Thread
<1>2. /\ at[t] = "top"
      /\ mb_rows' = mb_rows /\ decoding_thread_count' = decoding_thread_count
      /\ at' = [at EXCEPT ![t] = IF running THEN "idle" ELSE "exit"]
      /\ row' = row /\ col' = col /\ current_mb_col' = current_mb_col
      /\ last' = last /\ start' = start /\ end' = end /\ running' = running
      /\ joining' = joining /\ decoded' = decoded
  BY DEF ThreadTop
<1>3. /\ at \in [Thread -> Place] /\ mb_rows \in Nat
      /\ decoding_thread_count \in Nat /\ 0 \in Thread
  BY <1>1, DecoderSizes DEF TypeOK, Thread
<1>4. /\ at' \in [Thread -> Place]
      /\ running => at'[t] = "idle"
      /\ ~running => at'[t] = "exit"
      /\ \A u \in Thread : u # t => at'[u] = at[u]
  BY <1>1, <1>2, <1>3 DEF Place
<1>5. Working' = Working /\ at'[0] = at[0]
  BY <1>1, <1>3, <1>4 DEF Working
<1>6. /\ Threads' = Threads
      /\ \A r : Owner(r)' = Owner(r)
      /\ \A u : Begun(u)' = Begun(u) /\ On(u)' = On(u)
  BY <1>2, <1>5, SameFrame
<1>7. TypeOK'
  BY <1>1, <1>2, <1>4 DEF TypeOK
<1>8. HelperInv(t)'
  BY <1>1, <1>2, <1>4, <1>5 DEF HelperInv
<1>9. OffInv(t)'
  BY <1>1, <1>2, <1>4, <1>6 DEF OffInv
<1>10. Working => running
  BY <1>1 DEF MainInv
<1>11. OnInv(t)'
  BY <1>1, <1>2, <1>4, <1>6, <1>10 DEF OnInv, On, Begun
<1>12. AboveInv(t)'
  BY <1>4 DEF AboveInv
<1>13. ASSUME Working, NEW r \in Row, r < mb_rows, Owner(r) = t
       PROVE  RowInv(r, t)'
  <2>1. RowInv(r, t)
    BY <1>1, <1>13 DEF RowsInv
  <2> QED
    BY <1>2, <1>4, <1>6, <1>10, <1>13, <2>1 DEF RowInv, Ready
<1>14. EndInv'
  <2> SUFFICES ASSUME Working
               PROVE  EndInv'
    BY <1>5 DEF EndInv
  <2> DEFINE L == Owner(mb_rows - 1)
  <2>1. L \in Thread
    BY <1>1, <1>3, OwnerIs DEF MainInv
  <2>2. L' = L /\ Begun(L)' = Begun(L)
    BY <1>2, <1>6
  <2>3. end = IF Begun(L) /\ at[L] \in {"wait", "top", "idle"} THEN 1 ELSE 0
    BY <1>1 DEF EndInv
  <2> HIDE DEF L
  <2>4. at'[L] \in {"wait", "top", "idle"} <=> at[L] \in {"wait", "top", "idle"}
    BY <1>2, <1>4, <1>10, <2>1
  <2>5. end' = IF Begun(L)' /\ at'[L] \in {"wait", "top", "idle"} THEN 1 ELSE 0
    BY <1>2, <2>2, <2>3, <2>4
  <2> QED
    BY <2>2, <2>5 DEF EndInv, L
<1> QED
  BY <1>2, <1>4, <1>7, <1>8, <1>9, <1>11, <1>12, <1>13, <1>14, HelperKeeps
  DEF ThreadInv

LEMMA ThreadStartInv ==
  ASSUME IInv, NEW t \in Helper, ThreadStart(t)
  PROVE  IInv'
<1>1. /\ TypeOK /\ MainInv /\ RowsInv /\ EndInv /\ HelperInv(t) /\ OffInv(t)
      /\ t \in Thread /\ t # 0 /\ t \in Nat
  BY DecoderSizes DEF IInv, ThreadInv, Helper, Thread
<1>2. /\ at[t] = "idle" /\ start[t] > 0
      /\ mb_rows' = mb_rows /\ decoding_thread_count' = decoding_thread_count
      /\ start' = [start EXCEPT ![t] = @ - 1]
      /\ at' = [at EXCEPT ![t] = IF running THEN "test" ELSE "exit"]
      /\ row' = [row EXCEPT ![t] = t] /\ last' = [last EXCEPT ![t] = t]
      /\ col' = col /\ current_mb_col' = current_mb_col
      /\ end' = end /\ running' = running /\ joining' = joining
      /\ decoded' = decoded
  BY DEF ThreadStart
<1>3. /\ at \in [Thread -> Place] /\ row \in [Thread -> Nat]
      /\ last \in [Thread -> Nat] /\ start \in [Helper -> Nat]
      /\ mb_rows \in Nat /\ decoding_thread_count \in Nat /\ 0 \in Thread
      /\ running \in BOOLEAN
  BY <1>1, DecoderSizes DEF TypeOK, Thread
<1>4. /\ at' \in [Thread -> Place]
      /\ running => at'[t] = "test"
      /\ ~running => at'[t] = "exit"
      /\ row' \in [Thread -> Nat] /\ row'[t] = t
      /\ last' \in [Thread -> Nat] /\ last'[t] = t
      /\ \A u \in Thread : u # t =>
           at'[u] = at[u] /\ row'[u] = row[u] /\ last'[u] = last[u]
  BY <1>1, <1>2, <1>3 DEF Place
<1>5. /\ start[t] \in Nat /\ start[t] - 1 \in Nat
      /\ start' \in [Helper -> Nat] /\ start'[t] = start[t] - 1
      /\ \A u \in Helper : u # t => start'[u] = start[u]
  <2>1. start[t] \in Nat /\ start[t] - 1 \in Nat
    BY <1>2, <1>3
  <2> QED
    BY <1>2, <1>3, <2>1
<1>6. Working' = Working /\ at'[0] = at[0]
  BY <1>1, <1>3, <1>4 DEF Working
<1>7. /\ Threads' = Threads
      /\ \A r : Owner(r)' = Owner(r)
      /\ \A u \in Thread : u # t => Begun(u)' = Begun(u)
  <2>1. \A u \in Thread : u # t => u = 0 \/ start'[u] = start[u]
    BY <1>5 DEF Thread, Helper
  <2> QED
    BY <1>2, <1>6, <2>1 DEF Threads, Owner, Begun
<1>8. TypeOK'
  BY <1>1, <1>2, <1>4, <1>5 DEF TypeOK
<1>9. running => t <= decoding_thread_count
  BY <1>1, <1>2, <1>3 DEF HelperInv
<1>10. t < mb_rows => start[t] = 1 /\ (running <=> Working)
  BY <1>1, <1>2, <1>3, <1>5 DEF HelperInv, MainInv, Working
<1>11. t < mb_rows /\ Working => /\ running /\ ~Begun(t) /\ Begun(t)'
                                 /\ On(t)' /\ Owner(t) = t
  <2> SUFFICES ASSUME t < mb_rows, Working
               PROVE  running /\ ~Begun(t) /\ Begun(t)' /\ On(t)' /\ Owner(t) = t
    OBVIOUS
  <2>1. start[t] = 1 /\ start'[t] = 0 /\ running
    BY <1>5, <1>10
  <2>2. Owner(t) = t
    BY <1>1, <1>9, <2>1, OwnerIs
  <2> QED
    BY <1>1, <1>2, <1>6, <1>9, <2>1, <2>2 DEF Begun, On
<1>12. HelperInv(t)'
  <2>1. t < mb_rows => start'[t] = 0
    BY <1>5, <1>10
  <2> QED
    BY <1>1, <1>2, <1>4, <1>6, <1>9, <2>1 DEF HelperInv
<1>13. OffInv(t)'
  <2>1. ~On(t)' /\ running => t >= mb_rows
    BY <1>1, <1>3, <1>10, <1>11
  <2> QED
    BY <1>1, <1>2, <1>3, <1>4, <2>1 DEF OffInv
<1>14. OnInv(t)' /\ AboveInv(t)'
  <2>1. On(t)' => running /\ Owner(t)' = t
    BY <1>1, <1>2, <1>6, <1>7, <1>10, <1>11 DEF On, Begun
  <2> QED
    BY <1>4, <2>1 DEF OnInv, AboveInv
<1>15. ASSUME Working, NEW r \in Row, r < mb_rows, Owner(r) = t
       PROVE  RowInv(r, t)'
  <2>1. RowInv(r, t) /\ r \in Nat
    BY <1>1, <1>15, DecoderSizes DEF RowsInv, Row
  <2>2. t <= r
    BY <1>1, <1>15, <2>1, OwnerIs
  <2>3. t < mb_rows
    BY <1>1, <1>3, <1>15, <2>1, <2>2
  <2>4. decoded[r] = 0 /\ current_mb_col[r] = -1
    BY <1>11, <1>15, <2>1, <2>3 DEF RowInv
  <2> QED
    BY <1>1, <1>2, <1>4, <1>11, <1>15, <2>1, <2>2, <2>3, <2>4 DEF RowInv, Ready
<1>16. EndInv'
  <2> SUFFICES ASSUME Working
               PROVE  EndInv'
    BY <1>6 DEF EndInv
  <2> DEFINE L == Owner(mb_rows - 1)
  <2>1. mb_rows - 1 \in Nat
    BY <1>1, <1>3 DEF MainInv
  <2>2. L \in Thread /\ L \in Nat /\ L <= mb_rows - 1 /\ L' = L
    BY <1>1, <1>2, <1>7, <2>1, OwnerIs
  <2>3. end = IF Begun(L) /\ at[L] \in {"wait", "top", "idle"} THEN 1 ELSE 0
    BY <1>1 DEF EndInv
  <2> HIDE DEF L
  <2>4. end' = IF Begun(L)' /\ at'[L] \in {"wait", "top", "idle"} THEN 1 ELSE 0
    <3>1. CASE L = t
      <4>1. t < mb_rows
        BY <1>3, <2>2, <3>1
      <4> QED
        BY <1>2, <1>4, <1>11, <2>3, <3>1, <4>1
    <3>2. CASE L # t
      BY <1>2, <1>4, <1>7, <2>2, <2>3, <3>2
    <3> QED
      BY <3>1, <3>2
  <2> QED
    BY <2>2, <2>4 DEF EndInv, L
<1> QED
  BY <1>2, <1>4, <1>5, <1>8, <1>12, <1>13, <1>14, <1>15, <1>16, HelperKeeps
  DEF ThreadInv

-----------------------------------------------------------------------------
(* The main thread's steps between frames *)

\* Where no frame is being decoded nothing is asked of threads and rows but
\* where the threads are.
LEMMA NotWorking ==
  ASSUME TypeOK', MainInv', ~Working',
         \A t \in Helper : HelperInv(t)' /\ OffInv(t)'
  PROVE  IInv'
BY DEF IInv, ThreadInv, OnInv, AboveInv, RowsInv, AllAboveInv, EndInv, On, Begun

\* When the thread of the last row is past it every row is done.
LEMMA RowsDone ==
  ASSUME IInv, Working, Begun(Owner(mb_rows - 1)),
         at[Owner(mb_rows - 1)] \in {"end", "wait", "top", "idle"}
  PROVE  \A r \in Row : r < mb_rows => decoded[r] = Cols /\ current_mb_col[r] = Ready
<1>1. /\ TypeOK /\ MainInv /\ RowsInv /\ AllAboveInv
      /\ \A t \in Thread : OnInv(t)
  BY DEF IInv, ThreadInv
<1> DEFINE L == Owner(mb_rows - 1)
<1>2. mb_rows - 1 \in Nat /\ mb_rows - 1 \in Row /\ mb_rows \in Nat
  BY <1>1, DecoderSizes DEF MainInv, TypeOK, Row
<1>3. /\ L \in Thread /\ L \in Nat /\ L <= decoding_thread_count
      /\ L <= mb_rows - 1
  BY <1>1, <1>2, OwnerIs
<1>4. Begun(L) /\ at[L] \in {"end", "wait", "top", "idle"} /\ RowInv(mb_rows - 1, L)
  BY <1>1, <1>2 DEF RowsInv
<1> HIDE DEF L
<1>5. On(L) /\ OnInv(L)
  BY <1>1, <1>2, <1>3, <1>4 DEF On
<1>6. row[L] \in Nat /\ row[L] >= mb_rows
  BY <1>1, <1>3, <1>4, <1>5 DEF OnInv, TypeOK
<1>7. decoded[mb_rows - 1] = Cols /\ current_mb_col[mb_rows - 1] = Ready
  BY <1>2, <1>4, <1>6 DEF RowInv
<1> SUFFICES ASSUME NEW r \in Row, r < mb_rows
             PROVE  decoded[r] = Cols /\ current_mb_col[r] = Ready
  OBVIOUS
<1>8. r = mb_rows - 1 \/ r < mb_rows - 1
  BY <1>2, DecoderSizes DEF Row
<1>9. CASE r < mb_rows - 1
  BY <1>1, <1>2, <1>7, <1>9 DEF AllAboveInv
<1> QED
  BY <1>7, <1>8, <1>9

\* When the end has been signalled every row is done, and the thread of the last
\* one has left the frame.
LEMMA AllDone ==
  ASSUME IInv, Working, end > 0
  PROVE  /\ end = 1
         /\ at[Owner(mb_rows - 1)] \in {"wait", "top", "idle"}
         /\ \A r \in Row : r < mb_rows => decoded[r] = Cols /\ current_mb_col[r] = Ready
<1>1. /\ end = 1 /\ Begun(Owner(mb_rows - 1))
      /\ at[Owner(mb_rows - 1)] \in {"wait", "top", "idle"}
  BY DEF IInv, EndInv
<1> QED
  BY <1>1, RowsDone

\* Then every thread that has rows has begun the frame, and has no row left.
LEMMA LeavesFrame ==
  ASSUME IInv, Working, end > 0, NEW t \in Helper
  PROVE  /\ t < mb_rows => start[t] = 0
         /\ at[t] \in {"next", "test", "end", "top", "idle", "exit"}
         /\ at[t] = "next" => row[t] + Threads >= mb_rows
         /\ at[t] \in {"test", "end"} => row[t] >= mb_rows
         /\ at[t] \in {"next", "test", "end"} => last[t] # mb_rows - 1
<1>1. /\ TypeOK /\ MainInv /\ RowsInv /\ HelperInv(t) /\ OffInv(t) /\ OnInv(t)
      /\ t \in Thread /\ t # 0 /\ t \in Nat
  BY DecoderSizes DEF IInv, ThreadInv, Helper, Thread
<1>2. /\ at[Owner(mb_rows - 1)] \in {"wait", "top", "idle"}
      /\ \A r \in Row : r < mb_rows => decoded[r] = Cols /\ current_mb_col[r] = Ready
  BY AllDone
<1>3. /\ mb_rows \in 0 .. MaxRows /\ mb_rows \in Nat
      /\ Threads \in Nat \ {0} /\ decoding_thread_count \in Nat
      /\ row[t] \in Nat /\ last[t] \in Nat /\ col[t] \in 0 .. Cols
      /\ start[t] \in Nat /\ Cols \in Nat \ {0} /\ Ready = Cols + NSync
      /\ NSync \in Nat \ {0}
  BY <1>1, DecoderSizes DEF TypeOK, Threads, Ready
<1>4. \A r \in Nat : r < mb_rows => r \in Row
  BY <1>3, DecoderSizes DEF Row
<1>5. t < mb_rows => start[t] = 0
  <2> SUFFICES ASSUME t < mb_rows, start[t] # 0
               PROVE  FALSE
    OBVIOUS
  <2>1. t <= decoding_thread_count
    BY <1>1, <1>3 DEF HelperInv, MainInv
  <2>2. Owner(t) = t
    BY <1>1, <2>1, OwnerIs
  <2>3. t \in Row /\ RowInv(t, t)
    BY <1>1, <1>4, <2>2 DEF RowsInv
  <2>4. decoded[t] = 0
    BY <1>1, <2>3 DEF RowInv, Begun
  <2> QED
    BY <1>2, <1>3, <2>3, <2>4
<1>6. CASE ~On(t)
  BY <1>1, <1>5, <1>6 DEF OffInv
<1>7. CASE On(t)
  <2>1. Begun(t)
    BY <1>7 DEF On
  <2>2. \A r \in Nat : r < mb_rows /\ Owner(r) = t =>
          RowInv(r, t) /\ decoded[r] = Cols /\ current_mb_col[r] = Ready
    BY <1>1, <1>2, <1>4 DEF RowsInv
  <2>3. at[t] \notin {"mb", "spin", "flag"}
    <3> SUFFICES ASSUME at[t] \in {"mb", "spin", "flag"}
                 PROVE  FALSE
      OBVIOUS
    <3>1. Owner(row[t]) = t /\ row[t] < mb_rows
      BY <1>1, <1>7 DEF OnInv
    <3>2. RowInv(row[t], t) /\ current_mb_col[row[t]] = Ready
      BY <1>3, <2>2, <3>1
    <3>3. current_mb_col[row[t]] <= col[t]
      BY <1>3, <2>1, <3>2 DEF RowInv
    <3> QED
      BY <1>3, <3>2, <3>3
  <2>4. at[t] \in Place /\ at[t] \notin {"app", "wait", "join", "exit"}
    BY <1>1 DEF TypeOK, HelperInv, MainInv
  <2>5. at[t] = "next" => row[t] + Threads >= mb_rows
    <3> SUFFICES ASSUME at[t] = "next", ~(row[t] + Threads >= mb_rows)
                 PROVE  FALSE
      OBVIOUS
    <3> DEFINE r == row[t] + Threads
    <3>1. r \in Nat /\ r < mb_rows /\ row[t] < r
      BY <1>3
    <3>2. Owner(row[t]) = t
      BY <1>1, <1>7 DEF OnInv
    <3>3. Owner(r) = t
      BY <1>3, <3>2, ModStep DEF Owner
    <3> HIDE DEF r
    <3>4. decoded[r] = 0 /\ decoded[r] = Cols
      BY <2>2, <3>1, <3>3 DEF RowInv
    <3> QED
      BY <1>3, <3>4
  <2>6. at[t] \in {"test", "end"} => row[t] >= mb_rows
    <3>1. CASE at[t] = "end"
      BY <1>1, <1>7, <3>1 DEF OnInv
    <3>2. CASE at[t] = "test" /\ row[t] < mb_rows
      <4>1. Owner(row[t]) = t
        BY <1>1, <1>7, <3>2 DEF OnInv
      <4>2. RowInv(row[t], t) /\ decoded[row[t]] = Cols
        BY <1>3, <2>2, <3>2, <4>1
      <4> QED
        BY <1>3, <2>1, <3>2, <4>2 DEF RowInv
    <3> QED
      BY <1>3, <3>1, <3>2
  <2>7. at[t] \in {"next", "test", "end"} => Owner(last[t]) = t
    BY <1>1, <1>7 DEF OnInv
  <2> QED
    BY <1>2, <1>5, <2>3, <2>4, <2>5, <2>6, <2>7 DEF Place
<1> QED
  BY <1>6, <1>7

LEMMA EndFrameInv ==
  ASSUME IInv, EndFrame
  PROVE  IInv'
<1>1. /\ TypeOK /\ MainInv
      /\ \A t \in Helper : HelperInv(t)
      /\ 0 \in Thread /\ 0 \notin Helper /\ Helper \subseteq Thread
  BY DecoderSizes DEF IInv, Helper, Thread
<1>2. /\ at[0] = "wait" /\ end > 0 /\ end' = end - 1
      /\ mb_rows' = mb_rows /\ decoding_thread_count' = decoding_thread_count
      /\ at' = [at EXCEPT ![0] = "app"]
      /\ row' = row /\ col' = col /\ current_mb_col' = current_mb_col
      /\ last' = last /\ start' = start /\ running' = running
      /\ joining' = joining /\ decoded' = decoded
  BY DEF EndFrame
<1>3. Working
  BY <1>2 DEF Working
<1>4. /\ end' = 0 /\ running
      /\ \A r \in Row : decoded[r] = Cols
  <2>1. \A r \in Row : r < mb_rows \/ r >= mb_rows
    BY <1>1, DecoderSizes DEF TypeOK, Row
  <2> QED
    BY <1>1, <1>2, <1>3, <2>1, AllDone DEF MainInv
<1>5. /\ at' \in [Thread -> Place] /\ at'[0] = "app"
      /\ \A t \in Helper : at'[t] = at[t]
  BY <1>1, <1>2 DEF TypeOK, Place
<1>6. ~Working' /\ Threads' = Threads
  BY <1>2, <1>5 DEF Working, Threads
<1>7. TypeOK'
  BY <1>1, <1>2, <1>4, <1>5 DEF TypeOK
<1>8. MainInv'
  BY <1>1, <1>2, <1>4, <1>5, <1>6 DEF MainInv
<1>9. ASSUME NEW t \in Helper
      PROVE  HelperInv(t)' /\ OffInv(t)'
  <2>1. HelperInv(t)'
    BY <1>1, <1>2, <1>3, <1>4, <1>5, <1>6, LeavesFrame DEF HelperInv
  <2>2. OffInv(t)'
    BY <1>2, <1>3, <1>5, <1>6, LeavesFrame DEF OffInv
  <2> QED
    BY <2>1, <2>2
<1> QED
  BY <1>6, <1>7, <1>8, <1>9, NotWorking

LEMMA RemoveThreadsInv ==
  ASSUME IInv, RemoveThreads
  PROVE  IInv'
<1>1. /\ TypeOK /\ MainInv
      /\ \A t \in Helper : HelperInv(t) /\ OffInv(t)
      /\ 0 \in Thread /\ 0 \notin Helper /\ Helper \subseteq Thread
      /\ 1 \in Helper /\ 1 \in 0 .. Helpers
  BY DecoderSizes DEF IInv, Helper, Thread
<1>2. /\ at[0] = "app" /\ running /\ running' = FALSE /\ joining' = 1
      /\ start' = [start EXCEPT ![1] = @ + 1]
      /\ mb_rows' = mb_rows /\ decoding_thread_count' = decoding_thread_count
      /\ at' = [at EXCEPT ![0] = "join"]
      /\ row' = row /\ col' = col /\ current_mb_col' = current_mb_col
      /\ last' = last /\ end' = end /\ decoded' = decoded
  BY DEF RemoveThreads
<1>3. /\ at' \in [Thread -> Place] /\ at'[0] = "join"
      /\ \A t \in Helper : at'[t] = at[t]
      /\ start' \in [Helper -> Nat]
      /\ \A t \in Helper : start'[t] = IF t = 1 THEN start[1] + 1 ELSE start[t]
  BY <1>1, <1>2 DEF TypeOK, Place
<1>4. ~Working /\ ~Working' /\ Threads' = Threads /\ \A t : ~On(t) /\ ~On(t)'
  BY <1>2, <1>3 DEF Working, Threads, On, Begun
<1>5. TypeOK'
  BY <1>1, <1>2, <1>3 DEF TypeOK
<1>6. MainInv'
  BY <1>1, <1>2, <1>3, <1>4 DEF MainInv
<1>7. ASSUME NEW t \in Helper
      PROVE  HelperInv(t)' /\ OffInv(t)'
  <2>1. t < mb_rows => start'[t] <= 1 /\ (t > 1 => start'[t] = 0)
    BY <1>1, <1>2, <1>3 DEF HelperInv, Helper
  <2>2. HelperInv(t)'
    BY <1>1, <1>2, <1>3, <1>4, <2>1 DEF HelperInv
  <2>3. OffInv(t)'
    BY <1>1, <1>2, <1>3, <1>4 DEF OffInv
  <2> QED
    BY <2>2, <2>3
<1> QED
  BY <1>4, <1>5, <1>6, <1>7, NotWorking

LEMMA JoinThreadInv ==
  ASSUME IInv, JoinThread
  PROVE  IInv'
<1>1. /\ TypeOK /\ MainInv
      /\ \A t \in Helper : HelperInv(t) /\ OffInv(t)
      /\ 0 \in Thread /\ 0 \notin Helper /\ Helper \subseteq Thread
      /\ joining \in 0 .. Helpers
  BY DecoderSizes DEF IInv, Helper, Thread, TypeOK
<1>2. /\ at[0] = "join" /\ ~running
      /\ \/ /\ at' = [at EXCEPT ![0] = "exit"]
            /\ start' = start /\ joining' = joining
         \/ /\ joining # Helpers
            /\ joining' = joining + 1
            /\ start' = [start EXCEPT ![joining + 1] = @ + 1]
            /\ at' = at
      /\ mb_rows' = mb_rows /\ decoding_thread_count' = decoding_thread_count
      /\ row' = row /\ col' = col /\ current_mb_col' = current_mb_col
      /\ last' = last /\ end' = end /\ decoded' = decoded /\ running' = running
  BY <1>1 DEF JoinThread, MainInv
<1>3. /\ at' \in [Thread -> Place] /\ at'[0] \in {"join", "exit"}
      /\ \A t \in Helper : at'[t] = at[t]
  BY <1>1, <1>2 DEF TypeOK, Place
<1>4. /\ start' \in [Helper -> Nat]
      /\ joining' \in 0 .. Helpers /\ joining' >= joining
      /\ \A t \in Helper :
           \/ start'[t] = start[t]
           \/ t = joining' /\ t > joining /\ start'[t] = start[t] + 1
  <2>1. CASE start' = start /\ joining' = joining
    BY <1>1, <2>1, DecoderSizes DEF TypeOK
  <2>2. CASE /\ joining # Helpers
             /\ joining' = joining + 1
             /\ start' = [start EXCEPT ![joining + 1] = @ + 1]
    <3>1. joining + 1 \in Helper /\ joining + 1 \in 0 .. Helpers
      BY <1>1, <2>2, DecoderSizes DEF Helper
    <3>2. start[joining + 1] + 1 \in Nat /\ start \in [Helper -> Nat]
      BY <1>1, <3>1 DEF TypeOK
    <3>3. joining \in Nat /\ Helpers \in Nat
      BY <1>1, DecoderSizes
    <3> QED
      BY <2>2, <3>1, <3>2, <3>3
  <2> QED
    BY <1>2, <2>1, <2>2
<1>5. ~Working /\ ~Working' /\ Threads' = Threads /\ \A t : ~On(t) /\ ~On(t)'
  BY <1>2, <1>3 DEF Working, Threads, On, Begun
<1>6. TypeOK'
  BY <1>1, <1>2, <1>3, <1>4 DEF TypeOK
<1>7. MainInv'
  BY <1>1, <1>2, <1>3, <1>5 DEF MainInv
<1>8. ASSUME NEW t \in Helper
      PROVE  HelperInv(t)' /\ OffInv(t)'
  <2>1. t < mb_rows => start'[t] <= 1 /\ (t > joining' => start'[t] = 0)
    BY <1>1, <1>2, <1>4 DEF HelperInv, Helper
  <2>2. HelperInv(t)'
    BY <1>1, <1>2, <1>3, <1>5, <2>1 DEF HelperInv
  <2>3. OffInv(t)'
    BY <1>1, <1>2, <1>3, <1>5 DEF OffInv
  <2> QED
    BY <2>2, <2>3
<1> QED
  BY <1>5, <1>6, <1>7, <1>8, NotWorking

\* A frame of the shape of the last one, or the threads are back.
LEMMA FrameComes ==
  ASSUME IInv, ~Hurried, NEW f \in Frames, MayCome(f), at[0] = "app", running
  PROVE  /\ f.rows \in 1 .. MaxRows
         /\ ClampThreads(f.parts) \in 0 .. Helpers
         /\ \A t \in Helper :
              /\ ClampThreads(f.parts) < t => start[t] = 0 /\ at[t] \in {"top", "idle"}
              /\ t < f.rows => start[t] = 0
              /\ at[t] \in {"next", "test", "end", "top", "idle"}
              /\ at[t] = "next" => row[t] + ClampThreads(f.parts) + 1 >= f.rows
              /\ at[t] \in {"test", "end"} => row[t] >= f.rows
              /\ at[t] \in {"next", "test", "end"} => last[t] # f.rows - 1
<1>1. /\ TypeOK
      /\ \A t \in Helper : HelperInv(t) /\ OffInv(t)
      /\ 0 \in Thread /\ 0 \notin Helper /\ Helper \subseteq Thread
  BY DecoderSizes DEF IInv, Helper, Thread
<1>2. f.rows \in 1 .. MaxRows /\ f.parts \in {1, 2, 4, 8}
  BY DecoderSizes
<1>3. ClampThreads(f.parts) \in 0 .. Helpers
  <2>1. decoding_thread_count \in 0 .. Helpers /\ Helpers \in Nat
    BY <1>1, DecoderSizes DEF TypeOK
  <2> QED
    BY <1>2, <2>1 DEF ClampThreads
<1>4. \A t : ~On(t)
  BY DEF On, Begun, Working
<1>5. ASSUME NEW t \in Helper
      PROVE  /\ ClampThreads(f.parts) < t => start[t] = 0 /\ at[t] \in {"top", "idle"}
             /\ t < f.rows => start[t] = 0
             /\ at[t] \in {"next", "test", "end", "top", "idle"}
             /\ at[t] = "next" => row[t] + ClampThreads(f.parts) + 1 >= f.rows
             /\ at[t] \in {"test", "end"} => row[t] >= f.rows
             /\ at[t] \in {"next", "test", "end"} => last[t] # f.rows - 1
  <2>1. CASE f.rows = mb_rows /\ ClampThreads(f.parts) = decoding_thread_count
    <3>1. HelperInv(t) /\ OffInv(t)
      BY <1>1
    <3>2. at[t] # "exit"
      BY <3>1 DEF HelperInv
    <3>3. row[t] + Threads = row[t] + ClampThreads(f.parts) + 1
      <4>1. row[t] \in Nat /\ decoding_thread_count \in Nat
        BY <1>1, DecoderSizes DEF TypeOK
      <4> QED
        BY <2>1, <4>1 DEF Threads
    <3> QED
      BY <1>4, <2>1, <3>1, <3>2, <3>3 DEF HelperInv, OffInv
  <2>2. CASE \A u \in Helper : at[u] \in {"top", "idle"} /\ start[u] = 0
    BY <2>2
  <2> QED
    BY <2>1, <2>2 DEF MayCome
<1> QED
  BY <1>2, <1>3, <1>5

LEMMA DecodeSeriallyInv ==
  ASSUME IInv, ~Hurried, NEW f \in Frames, MayCome(f), DecodeSerially(f)
  PROVE  IInv'
<1>1. /\ TypeOK /\ MainInv
      /\ \A t \in Helper : HelperInv(t)
      /\ 0 \in Thread /\ 0 \notin Helper /\ Helper \subseteq Thread
  BY DecoderSizes DEF IInv, Helper, Thread
<1>2. /\ at[0] = "app" /\ running
      /\ mb_rows' = f.rows /\ decoding_thread_count' = ClampThreads(f.parts)
      /\ current_mb_col' = current_mb_col /\ at' = at /\ row' = row /\ col' = col
      /\ last' = last /\ start' = start /\ end' = end /\ running' = running
      /\ joining' = joining /\ decoded' = decoded
  BY DEF DecodeSerially
<1>3. /\ f.rows \in 1 .. MaxRows /\ ClampThreads(f.parts) \in 0 .. Helpers
      /\ \A t \in Helper :
           /\ ClampThreads(f.parts) < t => start[t] = 0 /\ at[t] \in {"top", "idle"}
           /\ t < f.rows => start[t] = 0
           /\ at[t] \in {"next", "test", "end", "top", "idle"}
           /\ at[t] = "next" => row[t] + ClampThreads(f.parts) + 1 >= f.rows
           /\ at[t] \in {"test", "end"} => row[t] >= f.rows
           /\ at[t] \in {"next", "test", "end"} => last[t] # f.rows - 1
  BY <1>2, FrameComes
<1>4. ~Working /\ ~Working'
  BY <1>2 DEF Working
<1>5. TypeOK'
  <2>1. f.rows \in 0 .. MaxRows
    BY <1>3, DecoderSizes
  <2> QED
    BY <1>1, <1>2, <1>3, <2>1 DEF TypeOK
<1>6. MainInv'
  BY <1>1, <1>2, <1>4 DEF MainInv
<1>7. ASSUME NEW t \in Helper
      PROVE  HelperInv(t)' /\ OffInv(t)'
  <2>1. HelperInv(t)'
    BY <1>1, <1>2, <1>3, <1>4 DEF HelperInv
  <2>2. row'[t] + Threads' = row[t] + ClampThreads(f.parts) + 1
    <3>1. row[t] \in Nat /\ ClampThreads(f.parts) \in Nat
      BY <1>1, <1>3, DecoderSizes DEF TypeOK
    <3> QED
      BY <1>2, <3>1 DEF Threads
  <2>3. OffInv(t)'
    BY <1>2, <1>3, <2>2 DEF OffInv
  <2> QED
    BY <2>1, <2>3
<1> QED
  BY <1>4, <1>5, <1>6, <1>7, NotWorking

LEMMA DecodeInThreadsInv ==
  ASSUME IInv, ~Hurried, NEW f \in Frames, MayCome(f), DecodeInThreads(f)
  PROVE  IInv'
<1>1. /\ TypeOK /\ MainInv
      /\ \A t \in Helper : HelperInv(t)
      /\ 0 \in Thread /\ 0 \notin Helper /\ Helper \subseteq Thread
      /\ \A t \in Thread : t = 0 \/ t \in Helper
  BY DecoderSizes DEF IInv, Helper, Thread
<1> DEFINE c == ClampThreads(f.parts)
<1>2. /\ at[0] = "app" /\ running
      /\ mb_rows' = f.rows /\ decoding_thread_count' = c
      /\ current_mb_col' = [r \in Row |-> IF r < f.rows THEN -1
                                          ELSE current_mb_col[r]]
      /\ start' = [t \in Helper |->
                     IF t <= c THEN start[t] + 1 ELSE start[t]]
      /\ at' = [at EXCEPT ![0] = "test"]
      /\ row' = [row EXCEPT ![0] = 0]
      /\ last' = [last EXCEPT ![0] = 0]
      /\ decoded' = [r \in Row |-> IF r < f.rows THEN 0 ELSE Cols]
      /\ col' = col /\ end' = end /\ running' = running /\ joining' = joining
  BY DEF DecodeInThreads
<1>3. /\ f.rows \in 1 .. MaxRows /\ c \in 0 .. Helpers
      /\ \A t \in Helper :
           /\ c < t => start[t] = 0 /\ at[t] \in {"top", "idle"}
           /\ t < f.rows => start[t] = 0
           /\ at[t] \in {"next", "test", "end", "top", "idle"}
           /\ at[t] = "next" => row[t] + c + 1 >= f.rows
           /\ at[t] \in {"test", "end"} => row[t] >= f.rows
           /\ at[t] \in {"next", "test", "end"} => last[t] # f.rows - 1
  BY <1>2, FrameComes
<1> HIDE DEF c
<1>4. /\ at \in [Thread -> Place] /\ row \in [Thread -> Nat]
      /\ last \in [Thread -> Nat] /\ start \in [Helper -> Nat]
      /\ Helpers \in Nat /\ MaxRows \in Nat /\ Cols \in Nat \ {0}
      /\ NSync \in Nat /\ f.rows \in Nat \ {0} /\ c \in Nat
      /\ current_mb_col \in [Row -> -1 .. Cols + NSync]
  BY <1>1, <1>3, DecoderSizes DEF TypeOK
<1>5. /\ at' \in [Thread -> Place] /\ at'[0] = "test"
      /\ row' \in [Thread -> Nat] /\ row'[0] = 0
      /\ last' \in [Thread -> Nat] /\ last'[0] = 0
      /\ \A t \in Helper : at'[t] = at[t] /\ row'[t] = row[t] /\ last'[t] = last[t]
  BY <1>1, <1>2, <1>4 DEF Place
<1>6. /\ start' \in [Helper -> Nat]
      /\ \A t \in Helper : /\ t <= c => start'[t] = start[t] + 1 /\ start'[t] # 0
                           /\ c < t => start'[t] = start[t]
  <2>1. \A t \in Helper : start[t] \in Nat /\ t \in Nat
    BY <1>4 DEF Helper
  <2> QED
    BY <1>2, <1>4, <2>1
<1>7. /\ current_mb_col' \in [Row -> -1 .. Cols + NSync]
      /\ decoded' \in [Row -> 0 .. Cols]
      /\ \A r \in Row : r < f.rows => current_mb_col'[r] = -1 /\ decoded'[r] = 0
      /\ \A r \in Row : ~(r < f.rows) => decoded'[r] = Cols
  <2>1. /\ -1 \in -1 .. Cols + NSync /\ 0 \in 0 .. Cols /\ Cols \in 0 .. Cols
    BY <1>4
  <2> QED
    BY <1>2, <1>4, <2>1
<1>8. Working'
  BY <1>5 DEF Working
<1>9. TypeOK'
  <2>1. f.rows \in 0 .. MaxRows
    BY <1>3, <1>4
  <2> QED
    BY <1>1, <1>2, <1>3, <1>5, <1>6, <1>7, <2>1 DEF TypeOK
<1>10. MainInv'
  <2>1. \A r \in Row : r >= f.rows => ~(r < f.rows)
    BY <1>4 DEF Row
  <2> QED
    BY <1>2, <1>4, <1>5, <1>7, <1>8, <2>1 DEF MainInv
<1>11. \A t \in Helper : ~On(t)'
  BY <1>1, <1>2, <1>6 DEF On, Begun
<1>12. ASSUME NEW t \in Helper
       PROVE  HelperInv(t)' /\ OffInv(t)'
  <2>1. row'[t] + Threads' = row[t] + c + 1
    <3>1. row[t] \in Nat
      BY <1>1, <1>4
    <3> QED
      BY <1>2, <1>4, <1>5, <3>1 DEF Threads
  <2>2. OffInv(t)'
    BY <1>2, <1>3, <1>5, <2>1 DEF OffInv
  <2>3. start[t] \in Nat /\ t \in Nat
    BY <1>4 DEF Helper
  <2>4. t < f.rows => start'[t] <= 1
    BY <1>3, <1>4, <1>6, <2>3
  <2>5. HelperInv(t)'
    BY <1>1, <1>2, <1>3, <1>5, <1>6, <1>8, <2>4 DEF HelperInv
  <2> QED
    BY <2>2, <2>5
<1>13. Threads' \in Nat \ {0} /\ \A r : Owner(r)' = r % Threads'
  BY <1>2, <1>4 DEF Threads, Owner
<1>14. \A r \in Row : /\ Owner(r)' \in Thread /\ Owner(r)' <= c
                      /\ r \in Nat /\ Owner(r)' \in Nat
  <2> SUFFICES ASSUME NEW r \in Row
               PROVE  /\ Owner(r)' \in Thread /\ Owner(r)' <= c
                      /\ r \in Nat /\ Owner(r)' \in Nat
    OBVIOUS
  <2>1. r \in Nat
    BY <1>4 DEF Row
  <2>2. r % Threads' \in 0 .. Threads' - 1
    BY <1>13, <2>1, DivMod
  <2>3. Threads' = c + 1
    BY <1>2 DEF Threads
  <2> QED
    BY <1>3, <1>4, <1>13, <2>1, <2>2, <2>3 DEF Thread
<1>15. \A t \in Thread : ThreadInv(t)'
  <2>1. ThreadInv(0)'
    <3>1. Owner(0)' = 0
      <4>1. 0 % Threads' = 0
        BY <1>13, ZeroMod
      <4> QED
        BY <1>13, <4>1
    <3> QED
      BY <1>5, <3>1 DEF ThreadInv, OnInv, AboveInv
  <2> QED
    BY <1>1, <1>11, <2>1 DEF ThreadInv, OnInv, AboveInv
<1>16. ASSUME NEW r \in Row
       PROVE  Begun(Owner(r))' => Owner(r)' = 0
  BY <1>1, <1>6, <1>14 DEF Begun
<1>17. RowsInv'
  <2> SUFFICES ASSUME NEW r \in Row, r < f.rows
               PROVE  RowInv(r, Owner(r))'
    BY <1>2 DEF RowsInv
  <2>1. current_mb_col'[r] = -1 /\ decoded'[r] = 0 /\ r \in Nat
    BY <1>7, <1>14
  <2>2. Begun(Owner(r))' => Owner(r)' = 0
    BY <1>16
  <2> QED
    BY <1>5, <2>1, <2>2 DEF RowInv
<1>18. AllAboveInv'
  BY <1>2, <1>4, <1>7 DEF AllAboveInv
<1>19. EndInv'
  <2>1. f.rows - 1 \in Row
    BY <1>3, <1>4 DEF Row
  <2>2. Begun(Owner(f.rows - 1))' => Owner(f.rows - 1)' = 0
    BY <1>16, <2>1
  <2>3. Owner(mb_rows - 1)' = Owner(f.rows - 1)'
    BY <1>2, <1>13
  <2>4. end' = 0
    BY <1>1, <1>2 DEF MainInv, Working
  <2> QED
    BY <1>5, <2>2, <2>3, <2>4 DEF EndInv
<1> QED
  BY <1>9, <1>10, <1>12, <1>15, <1>17, <1>18, <1>19 DEF IInv

-----------------------------------------------------------------------------
(* The invariant *)

LEMMA InitInv == Init => IInv
<1> SUFFICES ASSUME Init
             PROVE  IInv
  OBVIOUS
<1>1. /\ mb_rows = 0 /\ decoding_thread_count = Helpers
      /\ current_mb_col = [r \in Row |-> -1]
      /\ at = [t \in Thread |-> IF t = 0 THEN "app" ELSE "top"]
      /\ row = [t \in Thread |-> t] /\ col = [t \in Thread |-> 0]
      /\ last = [t \in Thread |-> t] /\ start = [t \in Helper |-> 0]
      /\ end = 0 /\ running = TRUE /\ joining = 0
      /\ decoded = [r \in Row |-> Cols]
  BY DEF Init
<1>2. /\ 0 \in Thread /\ Helper \subseteq Thread /\ 0 \notin Helper
      /\ Helpers \in 0 .. Helpers /\ 0 \in 0 .. Helpers /\ 0 \in 0 .. MaxRows
      /\ 0 \in 0 .. Cols /\ Cols \in 0 .. Cols /\ -1 \in -1 .. Cols + NSync
      /\ \A t \in Thread : t \in Nat
  BY DecoderSizes DEF Thread, Helper
<1>3. TypeOK
  BY <1>1, <1>2 DEF TypeOK, Place
<1>4. at[0] = "app" /\ ~Working
  BY <1>1, <1>2 DEF Working
<1>5. MainInv
  BY <1>1, <1>2, <1>4, DecoderSizes DEF MainInv, Row
<1>6. ASSUME NEW t \in Helper
      PROVE  HelperInv(t) /\ OffInv(t)
  <2>1. at[t] = "top" /\ start[t] = 0
    BY <1>1, <1>2
  <2> QED
    BY <1>1, <2>1 DEF HelperInv, OffInv
<1> QED
  BY <1>3, <1>4, <1>5, <1>6
  DEF IInv, ThreadInv, OnInv, AboveInv, RowsInv, AllAboveInv, EndInv, On, Begun

LEMMA NextInv ==
  ASSUME ~Hurried
  PROVE  IInv /\ [Next]_vars => IInv'
<1> SUFFICES ASSUME IInv, [Next]_vars
             PROVE  IInv'
  OBVIOUS
<1>1. 0 \in Thread /\ Helper \subseteq Thread
  BY DecoderSizes DEF Thread, Helper
<1>2. ASSUME NEW t \in Thread, RowStep(t)
      PROVE  IInv'
  BY <1>2, TestRowInv, StartMbInv, DecodeMbInv, FlagRowInv, NextRowInv, SignalEndInv
  DEF RowStep
<1>3. ASSUME NEW t \in Helper, HelperStep(t)
      PROVE  IInv'
  BY <1>1, <1>2, <1>3, ThreadTopInv, ThreadStartInv DEF HelperStep
<1>4. CASE MainStep
  BY <1>1, <1>2, <1>4, EndFrameInv, JoinThreadInv DEF MainStep
<1>5. ASSUME NEW f \in Frames, MayCome(f), DecodeSerially(f) \/ DecodeInThreads(f)
      PROVE  IInv'
  BY <1>5, DecodeSeriallyInv, DecodeInThreadsInv
<1>6. CASE UNCHANGED vars
  BY <1>6
  DEF vars, IInv, TypeOK, MainInv, HelperInv, OffInv, ThreadInv, OnInv, AboveInv,
      Above, RowsInv, RowInv, AllAboveInv, EndInv, On, Begun, Working, Owner,
      Threads, Ready
<1> QED
  BY <1>3, <1>4, <1>5, <1>6, RemoveThreadsInv DEF Next

\* The invariant of the row threads.
LEMMA Invariance ==
  ASSUME ~Hurried
  PROVE  Spec => []IInv
BY InitInv, NextInv, PTL DEF Spec

\* Every variable has its type.
THEOREM AlwaysTypeOK ==
  ASSUME ~Hurried
  PROVE  Spec => []TypeOK
<1>1. IInv => TypeOK
  BY DEF IInv
<1> QED
  BY <1>1, Invariance, PTL

\* No semaphore is left posted: the end of a frame is signalled once and taken,
\* and a thread that has rows of a frame has taken its start when the frame is
\* over (vp8mt_decode_mb_rows() and thread_decoding_proc()).
THEOREM NothingIsLeftOver ==
  ASSUME ~Hurried
  PROVE  Spec => []NothingLeftOver
<1>1. IInv => NothingLeftOver
  <2> SUFFICES ASSUME IInv
               PROVE  NothingLeftOver
    OBVIOUS
  <2>1. end <= 1
    BY DEF IInv, MainInv, EndInv
  <2>2. at[0] = "app" => end = 0
    BY DEF IInv, MainInv, Working
  <2>3. \A t \in Helper : HelperInv(t)
    BY DEF IInv
  <2> QED
    BY <2>1, <2>2, <2>3 DEF NothingLeftOver, HelperInv
<1> QED
  BY <1>1, Invariance, PTL

\* "signal end of frame decoding if this thread processed the last mb_row"
\* (mt_decode_mb_rows()): whoever processed it, every row is decoded by then.
THEOREM EndIsSignalledAtTheEnd ==
  ASSUME ~Hurried
  PROVE  Spec => EndIsTrue
<1>1. IInv /\ [Next]_vars =>
        [end' > end => \A r \in Row : r < mb_rows => decoded[r] = Cols]_vars
  <2> SUFFICES ASSUME IInv, Next, end' > end
               PROVE  \A r \in Row : r < mb_rows => decoded[r] = Cols
    OBVIOUS
  <2>1. TypeOK /\ end \in Nat /\ ~(end > end) /\ ~(end - 1 > end)
    BY DEF IInv, TypeOK
  <2>2. PICK t \in Thread : SignalEnd(t)
    BY <2>1, DecoderSizes
    DEF Next, DecodeSerially, DecodeInThreads, RemoveThreads, MainStep, EndFrame,
        JoinThread, HelperStep, ThreadTop, ThreadStart, RowStep, TestRow, StartMb,
        DecodeMb, FlagRow, NextRow, Thread, Helper
  <2>3. at[t] = "end" /\ last[t] = mb_rows - 1
    BY <2>1, <2>2 DEF SignalEnd
  <2>4. On(t) /\ Working
    BY <2>3, InRows DEF OffInv
  <2>5. t = Owner(mb_rows - 1) /\ Begun(t)
    BY <2>3, <2>4, LastRowEnds DEF On
  <2> QED
    BY <2>3, <2>4, <2>5, RowsDone
<1> QED
  BY <1>1, Invariance, PTL DEF Spec, EndIsTrue

-----------------------------------------------------------------------------
(* The wavefront *)

LEMMA WavefrontInit == Init => WavefrontOrder!Init
<1> SUFFICES ASSUME Init
             PROVE  WavefrontOrder!Init
  OBVIOUS
<1>1. decoded = [r \in Row |-> Cols] /\ at[0] = "app"
  BY DecoderSizes DEF Init, Thread
<1> QED
  BY <1>1 DEF WavefrontOrder!Init, WavefrontOrder!Row, Row

LEMMA BeginsWavefront ==
  ASSUME NEW f \in Frames, DecodeInThreads(f), TypeOK
  PROVE  WavefrontOrder!Next
<1>1. f.rows \in 1 .. MaxRows
  BY DecoderSizes
<1>2. at[0] = "app" /\ at'[0] = "test"
  BY DecoderSizes DEF DecodeInThreads, TypeOK, Thread
<1>3. WavefrontOrder!Begin(f.rows)
  BY <1>2 DEF DecodeInThreads, WavefrontOrder!Begin, WavefrontOrder!Row, Row
<1> QED
  BY <1>1, <1>3 DEF WavefrontOrder!Next

LEMMA ProcessesWavefront ==
  ASSUME IInv, NEW t \in Thread, DecodeMb(t)
  PROVE  WavefrontOrder!Next
<1> DEFINE r == row[t]
<1>1. TypeOK /\ RowsInv
  BY DEF IInv
<1>2. /\ at[t] = "spin" /\ ~MustSpin(t)
      /\ decoded' = [decoded EXCEPT ![row[t]] = col[t] + 1]
      /\ at' = [at EXCEPT ![t] = IF col[t] + 1 < Cols THEN "mb" ELSE "flag"]
  BY DEF DecodeMb
<1>3. On(t) /\ Working /\ OnInv(t)
  BY <1>2, InRows
<1>4. /\ r \in Nat /\ r \in Row /\ r < mb_rows /\ Owner(r) = t
      /\ col[t] \in Nat /\ col[t] < Cols
  BY <1>1, <1>2, <1>3, InRows DEF OnInv, TypeOK
<1>5. decoded[r] = col[t]
  BY <1>1, <1>2, <1>3, <1>4 DEF RowsInv, RowInv, On
<1>6. r > 0 => decoded[r - 1] = Cols \/ decoded[r - 1] >= decoded[r] + 2
  BY <1>2, <1>5, RowAbove
<1>7. Working'
  BY <1>1, <1>2, <1>3 DEF Working, TypeOK
<1>8. WavefrontOrder!Process(r)
  BY <1>2, <1>3, <1>4, <1>5, <1>6, <1>7 DEF WavefrontOrder!Process, Working
<1> QED
  BY <1>4, <1>8 DEF WavefrontOrder!Next, WavefrontOrder!Row, Row

LEMMA EndsWavefront ==
  ASSUME IInv, EndFrame
  PROVE  WavefrontOrder!Next
<1>1. TypeOK /\ MainInv /\ 0 \in Thread
  BY DecoderSizes DEF IInv, Thread
<1>2. at[0] = "wait" /\ at'[0] = "app" /\ end > 0 /\ decoded' = decoded
  BY <1>1 DEF EndFrame, TypeOK
<1>3. \A r \in Row : decoded[r] = Cols
  <2>1. \A r \in Row : r < mb_rows \/ r >= mb_rows
    BY <1>1, DecoderSizes DEF TypeOK, Row
  <2> QED
    BY <1>1, <1>2, <2>1, AllDone DEF MainInv, Working
<1> QED
  BY <1>2, <1>3 DEF WavefrontOrder!Next, WavefrontOrder!End, WavefrontOrder!Row, Row

LEMMA WavefrontStep ==
  ASSUME IInv, Next
  PROVE  [WavefrontOrder!Next]_(WavefrontOrder!vars)
<1>1. TypeOK /\ MainInv /\ 0 \in Thread /\ 0 \notin Helper /\ Helper \subseteq Thread
  BY DecoderSizes DEF IInv, Thread, Helper
<1>2. ASSUME NEW t \in Thread, DecodeMb(t)
      PROVE  WavefrontOrder!Next
  BY <1>2, ProcessesWavefront
<1>3. ASSUME decoded' = decoded,
             at[0] \in {"app", "join", "exit"} <=> at'[0] \in {"app", "join", "exit"}
      PROVE  UNCHANGED WavefrontOrder!vars
  BY <1>3 DEF WavefrontOrder!vars
<1>4. ASSUME NEW t \in Thread,
             \/ TestRow(t) \/ StartMb(t) \/ FlagRow(t) \/ NextRow(t) \/ SignalEnd(t)
             \/ t \in Helper /\ (ThreadTop(t) \/ ThreadStart(t))
      PROVE  UNCHANGED WavefrontOrder!vars
  <2>1. decoded' = decoded
    BY <1>4
    DEF TestRow, StartMb, FlagRow, NextRow, SignalEnd, ThreadTop, ThreadStart
  <2>2. CASE t # 0
    BY <1>1, <1>3, <1>4, <2>1, <2>2
    DEF TestRow, StartMb, FlagRow, NextRow, SignalEnd, ThreadTop, ThreadStart, TypeOK
  <2>3. CASE t = 0
    BY <1>1, <1>3, <1>4, <2>1, <2>3
    DEF TestRow, StartMb, FlagRow, NextRow, SignalEnd, TypeOK
  <2> QED
    BY <2>2, <2>3
<1>5. CASE RemoveThreads \/ JoinThread
  BY <1>1, <1>3, <1>5 DEF RemoveThreads, JoinThread, TypeOK
<1>6. ASSUME NEW f \in Frames, DecodeSerially(f)
      PROVE  UNCHANGED WavefrontOrder!vars
  BY <1>3, <1>6 DEF DecodeSerially
<1>7. ASSUME NEW f \in Frames, DecodeInThreads(f)
      PROVE  WavefrontOrder!Next
  BY <1>1, <1>7, BeginsWavefront
<1>8. ASSUME NEW t \in Thread, RowStep(t)
      PROVE  WavefrontOrder!Next \/ UNCHANGED WavefrontOrder!vars
  BY <1>2, <1>4, <1>8 DEF RowStep
<1>9. ASSUME NEW t \in Helper, HelperStep(t)
      PROVE  WavefrontOrder!Next \/ UNCHANGED WavefrontOrder!vars
  BY <1>1, <1>4, <1>8, <1>9 DEF HelperStep
<1>10. CASE MainStep
  BY <1>1, <1>5, <1>8, <1>10, EndsWavefront DEF MainStep
<1> QED
  BY <1>5, <1>6, <1>7, <1>9, <1>10 DEF Next

\* The row threads implement the wavefront: whatever the number of threads and
\* of columns and whatever the sync range, a macroblock is decoded after those
\* above it and above its right neighbour, and a frame is over when all are.
THEOREM DecodingIsWavefront ==
  ASSUME ~Hurried
  PROVE  Spec => ImplementsWavefront
<1>1. IInv /\ [Next]_vars => [WavefrontOrder!Next]_(WavefrontOrder!vars)
  <2> SUFFICES ASSUME IInv, [Next]_vars
               PROVE  [WavefrontOrder!Next]_(WavefrontOrder!vars)
    OBVIOUS
  <2>1. CASE UNCHANGED vars
    BY <2>1 DEF vars, WavefrontOrder!vars
  <2> QED
    BY <2>1, WavefrontStep
<1> QED
  BY <1>1, WavefrontInit, Invariance, PTL
  DEF Spec, ImplementsWavefront, WavefrontOrder!Spec
=============================================================================
