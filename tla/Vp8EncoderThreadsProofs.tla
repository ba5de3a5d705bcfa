---------------------- MODULE Vp8EncoderThreadsProofs ----------------------
(***************************************************************************)
(* The threads of the VP8 encoder for pictures of any size, any number of  *)
(* threads that the encoder creates for them, every sync range of the code *)
(* and any number of times that a frame is encoded.                        *)
(***************************************************************************)
EXTENDS Vp8EncoderThreads, TLAPS

Threads == Helpers + 1

\* The thread that row r is for.
Owner(r) == r % Threads

\* A frame is being encoded.
Working == at[0] \in RowPlaces \cup {"wait"}

\* The thread has been started for the frame, or is the caller's.
Begun(t) == Working /\ (t = 0 \/ start[t] = 0)

\* The thread has rows, and has begun them.
On(t) == t < Rows /\ Begun(t)

\* The value of a row's column when its last macroblock is ready.
Ready == Cols + NSync

\* What the caller's place says of the frame and of the other threads' life.
MainInv ==
  /\ at[0] \notin {"top", "idle", "set", "filter", "done", "undo"}
  /\ multi <=> at[0] \notin {"undolpf", "join", "joinlpf", "exit"}
  /\ at[0] \in {"undolpf", "join"} => joining \in Helper
  /\ ~Working => end = 0 /\ \A r \in Row : encoded[r] = Cols

\* There is a reason why the thread's semaphore may be posted.
Posted(t) ==
  \/ Working
  \/ /\ ~multi
     /\ at[0] = "join" => t <= joining
     /\ at[0] = "undolpf" => t >= joining

HelperInv(t) ==
  /\ at[t] \in RowPlaces \cup {"top", "idle", "exit"}
  /\ at[t] = "exit" /\ multi => at[0] = "create" /\ t > created
  /\ t < Rows => start[t] <= 1 /\ (start[t] # 0 => Posted(t))

\* A thread that is on the frame is in a row of its own or below the picture.
OnInv(t) ==
  On(t) =>
    /\ at[t] \in RowPlaces => Owner(row[t]) = t
    /\ at[t] \in {"mb", "spin", "flag", "next"} => row[t] < Rows
    /\ at[t] \in {"mb", "spin"} => col[t] < Cols
    /\ at[t] \in {"flag", "next"} => col[t] = Cols
    /\ at[t] \in {"wait", "top", "idle"} => row[t] >= Rows

\* Another one is at most on its way out of the frame before, whose end it no
\* longer signals.
OffInv(t) ==
  ~On(t) =>
    /\ at[t] \in {"next", "test", "top", "idle", "exit"}
    /\ at[t] = "next" => row[t] + Threads >= Rows /\ row[t] # Rows - 1
    /\ at[t] = "test" => row[t] >= Rows

\* How far a row of thread t is, and what its entry of mt_current_mb_col says.
RowInv(r, t) ==
  /\ ~Begun(t) \/ row[t] < r => encoded[r] = 0 /\ current_mb_col[r] = -1
  /\ Begun(t) /\ r < row[t] => encoded[r] = Cols /\ current_mb_col[r] = Ready
  /\ Begun(t) /\ row[t] = r =>
       /\ at[t] = "test" => encoded[r] = 0 /\ current_mb_col[r] = -1
       /\ at[t] \in {"mb", "flag"} =>
            /\ encoded[r] = col[t]
            /\ current_mb_col[r] = IF col[t] = 0 THEN -1 ELSE col[t] - 2
       /\ at[t] = "spin" => encoded[r] = col[t] /\ current_mb_col[r] = col[t] - 1
       /\ at[t] = "next" => encoded[r] = Cols /\ current_mb_col[r] = Ready

RowsInv == Working => \A r \in Row : RowInv(r, Owner(r))

\* A thread that got past the spin loop where it last had to has seen the row
\* above NSync macroblocks further.
Above(t) ==
  row[t] > 0 => current_mb_col[row[t] - 1] >= col[t] - (col[t] % NSync) + NSync

AboveInv(t) ==
  On(t) /\ at[t] \in {"mb", "spin"} /\ col[t] % NSync # 0 => Above(t)

\* A row is done after all rows above.
AllAboveInv ==
  Working => \A r, s \in Row :
    s < r /\ encoded[r] = Cols => encoded[s] = Cols /\ current_mb_col[s] = Ready

\* The end is signalled once, by the thread of the last row.
EndInv ==
  Working => end = IF Begun(Owner(Rows - 1)) /\ row[Owner(Rows - 1)] >= Rows
                   THEN 1 ELSE 0

ThreadInv(t) == OnInv(t) /\ AboveInv(t)

\* The invariant of the threads that encode.
EncodeInv ==
  /\ TypeOK
  /\ MainInv
  /\ \A t \in Helper : HelperInv(t) /\ OffInv(t)
  /\ \A t \in Encoder : ThreadInv(t)
  /\ RowsInv
  /\ AllAboveInv
  /\ EndInv

\* While the caller waits for the level: the start is not taken yet, the level
\* is not set, it is set and the picture being filtered, all is done.
LevelInv ==
  \/ start_lpf = 1 /\ at[Filter] \in {"top", "idle"} /\ end_lpf = 0
  \/ start_lpf = 0 /\ at[Filter] = "set" /\ end_lpf = 0
  \/ /\ start_lpf = 0 /\ at[Filter] \in {"filter", "done"} /\ end_lpf = 1
     /\ level_set /\ (at[Filter] = "done" => filtered)
  \/ /\ start_lpf = 0 /\ at[Filter] \in {"top", "idle"} /\ end_lpf = 2
     /\ level_set /\ filtered

\* After it, until somebody waits for the picture.
PictureInv ==
  /\ level_set
  /\ \/ /\ at[Filter] \in {"filter", "done"} /\ end_lpf = 0
        /\ at[Filter] = "done" => filtered
     \/ at[Filter] \in {"top", "idle", "exit"} /\ end_lpf = 1 /\ filtered

\* The invariant of the filter thread.
FilterInv ==
  /\ at[Filter] = "exit" => at[0] = "create" \/ ~multi
  /\ lpf_running =>
       at[0] \in {"level", "pack", "app", "copy", "join", "joinlpf", "exit"}
  /\ at[0] \in {"level", "pack"} => lpf_running
  /\ start_lpf <= 1
  /\ at[0] \notin {"level", "joinlpf", "exit"} => start_lpf = 0
  /\ ~lpf_running =>
       at[Filter] \in {"top", "idle", "exit"} /\ end_lpf = 0 /\ filtered
  /\ at[0] = "level" => LevelInv
  /\ lpf_running /\ at[0] # "level" => PictureInv

IInv == EncodeInv /\ FilterInv

-----------------------------------------------------------------------------
(* Rows and remainders *)

\* What division and remainder are.
LEMMA DivMod ==
  ASSUME NEW n \in Nat \ {0}, NEW a \in Nat
  PROVE  /\ a \div n \in Nat
         /\ a % n \in 0 .. n - 1
         /\ a = n * (a \div n) + (a % n)
<1>1. a % n \in 0 .. n - 1
  OBVIOUS
<1>2. a \div n \in Int
  OBVIOUS
<1>3. a = n * (a \div n) + (a % n)
  OBVIOUS
<1>4. a \div n >= 0
  OBVIOUS
<1> QED
  BY <1>1, <1>2, <1>3, <1>4

LEMMA ZeroMod ==
  ASSUME NEW n \in Nat \ {0}
  PROVE  0 % n = 0
OBVIOUS

\* A product grows by its factor.
LEMMA Times ==
  ASSUME NEW n \in Nat \ {0}, NEW k \in Int, NEW l \in Int, k < l
  PROVE  n * k + n <= n * l
<1>1. n * (l - k - 1) >= 0
  OBVIOUS
<1>2. n * (l - k - 1) = n * l - n * k - n
  OBVIOUS
<1> QED
  BY <1>1, <1>2

\* Between a row of a thread and its next one there is none of that thread.
LEMMA ModBetween ==
  ASSUME NEW n \in Nat \ {0}, NEW a \in Nat, NEW b \in Nat,
         a % n = b % n, a < b
  PROVE  a + n <= b
<1>1. a = n * (a \div n) + (a % n) /\ b = n * (b \div n) + (a % n)
  BY DivMod
<1>2. a \div n \in Int /\ b \div n \in Int /\ (a % n) \in Int
  BY DivMod
<1>3. CASE a \div n < b \div n
  <2>1. n * (a \div n) + n <= n * (b \div n)
    BY <1>2, <1>3, Times
  <2>2. n * (a \div n) \in Int /\ n * (b \div n) \in Int
    BY <1>2
  <2> QED
    BY <1>1, <1>2, <2>1, <2>2
<1>4. CASE b \div n <= a \div n
  BY <1>1, <1>2, <1>4, Times
<1> QED
  BY <1>2, <1>3, <1>4

\* A thread's next row is its own.
LEMMA ModStep ==
  ASSUME NEW n \in Nat \ {0}, NEW a \in Nat
  PROVE  (a + n) % n = a % n
<1> DEFINE p == a \div n
           q == (a + n) \div n
<1>1. /\ a = n * p + (a % n)
      /\ a + n = n * q + ((a + n) % n)
      /\ p \in Nat /\ q \in Nat
      /\ a % n \in 0 .. n - 1 /\ (a + n) % n \in 0 .. n - 1
  <2>1. a + n \in Nat
    OBVIOUS
  <2>2. a = n * p + (a % n) /\ p \in Nat /\ a % n \in 0 .. n - 1
    BY DivMod
  <2>3. /\ a + n = n * q + ((a + n) % n) /\ q \in Nat
        /\ (a + n) % n \in 0 .. n - 1
    BY <2>1, DivMod
  <2> QED
    BY <2>2, <2>3
<1>2. n * p \in Int /\ n * q \in Int /\ n * (p + 1) = n * p + n
  BY <1>1
<1>3. CASE q < p
  BY <1>1, <1>2, <1>3, Times
<1>4. CASE q = p
  BY <1>1, <1>2, <1>4
<1>5. CASE p + 1 < q
  <2>1. n * (p + 1) + n <= n * q
    BY <1>1, <1>5, Times
  <2> QED
    BY <1>1, <1>2, <2>1
<1>6. CASE q = p + 1
  BY <1>1, <1>2, <1>6
<1> QED
  BY <1>1, <1>3, <1>4, <1>5, <1>6

\* Between two columns where the row above is tested.
LEMMA SameRange ==
  ASSUME NEW c \in Nat, (c + 1) % NSync # 0
  PROVE  c + 1 - ((c + 1) % NSync) = c - (c % NSync)
<1>1. CASE NSync = 1
  BY <1>1
<1>2. CASE NSync = 4
  BY <1>2
<1>3. CASE NSync = 8
  BY <1>3
<1>4. CASE NSync = 16
  BY <1>4
<1> QED
  BY <1>1, <1>2, <1>3, <1>4, EncoderSizes

\* The numbers of the model.
LEMMA Sizes ==
  /\ Helpers \in Nat \ {0} /\ Rows \in Nat \ {0} /\ Cols \in Nat \ {0}
  /\ NSync \in Nat \ {0} /\ Threads \in Nat \ {0} /\ Threads = Helpers + 1
  /\ 0 \in Encoder /\ 0 \notin Helper /\ Helper \subseteq Encoder
  /\ \A t \in Encoder : t \in Nat /\ t <= Helpers /\ (t = 0 \/ t \in Helper)
  /\ Encoder \subseteq 0 .. Filter /\ Filter \in 0 .. Filter
  /\ Filter \notin Encoder /\ Filter # 0
  /\ \A r \in Row : r \in Nat /\ r < Rows
  /\ \A r \in Nat : r < Rows => r \in Row
  /\ Rows - 1 \in Row /\ Rows - 1 \in Nat
BY EncoderSizes DEF Threads, Encoder, Helper, Filter, Row

\* The thread of a row is one of those that encode, and has a row.
LEMMA OwnerIs ==
  ASSUME NEW r \in Nat
  PROVE  /\ Owner(r) \in Encoder /\ Owner(r) \in Nat
         /\ Owner(r) <= r
         /\ r <= Helpers => Owner(r) = r
<1>1. Owner(r) \in 0 .. Threads - 1
  BY Sizes, DivMod DEF Owner
<1>2. Owner(r) \in Encoder
  BY <1>1, Sizes DEF Encoder
<1>3. ASSUME r <= Helpers
      PROVE  Owner(r) = r
  BY <1>3, EncoderSizes DEF Owner, Threads
<1> QED
  BY <1>1, <1>2, <1>3, Sizes

-----------------------------------------------------------------------------
(* A thread's step in its rows *)

\* Who is in its rows: a thread that is on the frame, or one on its way out of
\* an earlier one.
LEMMA InRows ==
  ASSUME EncodeInv, NEW t \in Encoder, at[t] \in RowPlaces
  PROVE  /\ t = 0 => Working /\ On(t)
         /\ ~On(t) => t \in Helper /\ OffInv(t) /\ at[t] \in {"test", "next"}
         /\ On(t) => Working /\ OnInv(t) /\ Owner(row[t]) = t
         /\ row[t] \in Nat /\ col[t] \in 0 .. Cols
         /\ row[t] < Rows => row[t] \in Row
<1>1. TypeOK /\ MainInv /\ ThreadInv(t) /\ (t \in Helper => OffInv(t))
  BY DEF EncodeInv
<1>2. t = 0 => Working /\ On(t)
  BY <1>1, Sizes DEF Working, On, Begun
<1>3. ~On(t) => t \in Helper
  BY <1>2, Sizes
<1>4. row[t] \in Nat /\ col[t] \in 0 .. Cols
  BY <1>1 DEF TypeOK
<1>5. ~On(t) => at[t] \in {"test", "next"}
  BY <1>1, <1>3 DEF OffInv, RowPlaces
<1> QED
  BY <1>1, <1>2, <1>3, <1>4, <1>5, Sizes DEF On, Begun, ThreadInv, OnInv

LEMMA SameFrame ==
  ASSUME start' = start, Working' = Working
  PROVE  \A t : Begun(t)' = Begun(t) /\ On(t)' = On(t)
BY DEF Begun, On

\* The other threads, where only one moves.
LEMMA OthersStay ==
  ASSUME multi' = multi, created' = created, joining' = joining,
         Working' = Working,
         \A p \in {"create", "join", "undolpf"} : (at[0] = p)' = (at[0] = p),
         NEW u, u = 0 \/ start'[u] = start[u],
         at'[u] = at[u], row'[u] = row[u], col'[u] = col[u]
  PROVE  /\ Begun(u)' = Begun(u) /\ On(u)' = On(u)
         /\ u # 0 /\ HelperInv(u) => HelperInv(u)'
         /\ OffInv(u) => OffInv(u)'
         /\ OnInv(u) => OnInv(u)'
<1>1. Begun(u)' = Begun(u) /\ On(u)' = On(u)
  BY DEF Begun, On
<1>2. Posted(u)' = Posted(u)
  BY DEF Posted
<1>3. u # 0 /\ HelperInv(u) => HelperInv(u)'
  BY <1>2 DEF HelperInv
<1>4. OffInv(u) => OffInv(u)'
  BY <1>1 DEF OffInv
<1>5. OnInv(u) => OnInv(u)'
  BY <1>1 DEF OnInv
<1> QED
  BY <1>1, <1>3, <1>4, <1>5

LEMMA RowStays ==
  ASSUME NEW r, NEW u, Begun(u)' = Begun(u), at'[u] = at[u], row'[u] = row[u],
         col'[u] = col[u], encoded'[r] = encoded[r],
         current_mb_col'[r] = current_mb_col[r], RowInv(r, u)
  PROVE  RowInv(r, u)'
BY DEF RowInv, Ready

LEMMA AboveStays ==
  ASSUME TypeOK, TypeOK', NEW u \in Encoder, OnInv(u), On(u)' = On(u),
         at'[u] = at[u], row'[u] = row[u], col'[u] = col[u],
         \A r \in Row : current_mb_col'[r] >= current_mb_col[r],
         AboveInv(u)
  PROVE  AboveInv(u)'
<1> SUFFICES ASSUME On(u), at[u] \in {"mb", "spin"}, col[u] % NSync # 0, row[u] > 0
             PROVE  current_mb_col'[row[u] - 1] >= col[u] - (col[u] % NSync) + NSync
  BY DEF AboveInv, Above
<1>1. row[u] \in Nat /\ row[u] < Rows /\ col[u] \in Nat
  BY Sizes DEF TypeOK, OnInv
<1>2. row[u] - 1 \in Row
  BY <1>1, Sizes
<1>3. /\ current_mb_col[row[u] - 1] \in Int /\ current_mb_col'[row[u] - 1] \in Int
      /\ current_mb_col'[row[u] - 1] >= current_mb_col[row[u] - 1]
  BY <1>2, Sizes DEF TypeOK
<1>4. col[u] % NSync \in Int /\ NSync \in Int
  BY <1>1, Sizes
<1>5. current_mb_col[row[u] - 1] >= col[u] - (col[u] % NSync) + NSync
  BY DEF AboveInv, Above
<1> HIDE DEF AboveInv
<1> QED
  BY <1>1, <1>3, <1>4, <1>5

\* The invariant after a step of one thread in its rows, if it holds of this
\* thread and of its rows.
LEMMA StepKeeps ==
  ASSUME EncodeInv, NEW t \in Encoder, at[t] \in RowPlaces,
         multi' = multi, created' = created, joining' = joining, start' = start,
         \A u \in Encoder : u # t =>
           at'[u] = at[u] /\ row'[u] = row[u] /\ col'[u] = col[u],
         at'[t] \in RowPlaces \cup {IF t = 0 THEN "wait" ELSE "top"},
         \A r \in Row : ~On(t) \/ Owner(r) # t =>
           encoded'[r] = encoded[r] /\ current_mb_col'[r] = current_mb_col[r],
         \A r \in Row : current_mb_col'[r] >= current_mb_col[r],
         ~On(t) => end' = end,
         TypeOK', OnInv(t)', OffInv(t)', AboveInv(t)',
         On(t) => \A r \in Row : Owner(r) = t => RowInv(r, t)',
         AllAboveInv', EndInv'
  PROVE  EncodeInv'
<1>1. /\ TypeOK /\ MainInv /\ RowsInv
      /\ \A u \in Helper : HelperInv(u) /\ OffInv(u)
      /\ \A u \in Encoder : OnInv(u) /\ AboveInv(u)
  BY DEF EncodeInv, ThreadInv
<1>2. /\ t = 0 => Working /\ On(t)
      /\ ~On(t) => t \in Helper
      /\ On(t) => Working
  BY InRows
<1>3. 0 \in Encoder /\ Helper \subseteq Encoder /\ 0 \notin Helper
  BY Sizes
<1>4. /\ at'[0] = at[0] \/ (Working /\ at'[0] \in RowPlaces \cup {"wait"})
      /\ Working' = Working
  BY <1>2, <1>3 DEF Working
<1>5. \A p \in {"create", "join", "undolpf"} : (at[0] = p)' = (at[0] = p)
  BY <1>4 DEF Working, RowPlaces
<1>6. \A u : Begun(u)' = Begun(u) /\ On(u)' = On(u)
  BY <1>4, SameFrame
<1>7. MainInv'
  <2>1. /\ at'[0] \notin {"top", "idle", "set", "filter", "done", "undo"}
        /\ multi' <=> at'[0] \notin {"undolpf", "join", "joinlpf", "exit"}
        /\ at'[0] \in {"undolpf", "join"} => joining' \in Helper
    BY <1>1, <1>4 DEF MainInv, Working, RowPlaces
  <2>2. ~Working => ~On(t)
    BY <1>2
  <2> QED
    BY <1>1, <1>4, <2>1, <2>2 DEF MainInv
<1>8. ASSUME NEW u \in Helper
      PROVE  HelperInv(u)' /\ OffInv(u)'
  <2>1. CASE u # t
    <3>1. at'[u] = at[u] /\ row'[u] = row[u] /\ col'[u] = col[u]
      BY <1>3, <2>1
    <3>2. u # 0 /\ start'[u] = start[u] /\ HelperInv(u) /\ OffInv(u)
      BY <1>1, <1>3
    <3> QED
      BY <1>4, <1>5, <3>1, <3>2, OthersStay
  <2>2. CASE u = t
    <3>1. t # 0 /\ HelperInv(t)
      BY <1>1, <1>3, <2>2
    <3>2. at'[t] \in RowPlaces \cup {"top", "idle"} /\ at'[t] # "exit"
      BY <3>1 DEF RowPlaces
    <3>3. Posted(t)' = Posted(t)
      BY <1>4, <1>5 DEF Posted
    <3>4. HelperInv(t)'
      BY <3>1, <3>2, <3>3 DEF HelperInv
    <3> QED
      BY <2>2, <3>4
  <2> QED
    BY <2>1, <2>2
<1>9. ASSUME NEW u \in Encoder
      PROVE  ThreadInv(u)'
  <2>1. CASE u # t
    <3>1. at'[u] = at[u] /\ row'[u] = row[u] /\ col'[u] = col[u]
      BY <2>1
    <3>2. OnInv(u)'
      <4>1. start'[u] = start[u] /\ OnInv(u)
        BY <1>1
      <4> QED
        BY <1>4, <1>5, <3>1, <4>1, OthersStay
    <3>3. AboveInv(u)'
      BY <1>1, <1>6, <3>1, AboveStays
    <3> QED
      BY <3>2, <3>3 DEF ThreadInv
  <2>2. CASE u = t
    BY <2>2 DEF ThreadInv
  <2> QED
    BY <2>1, <2>2
<1>10. RowsInv'
  <2> SUFFICES ASSUME Working, NEW r \in Row
               PROVE  RowInv(r, Owner(r))'
    BY <1>4 DEF RowsInv
  <2> DEFINE u == Owner(r)
  <2>1. r \in Nat /\ u \in Encoder /\ RowInv(r, u)
    BY <1>1, Sizes, OwnerIs DEF RowsInv
  <2>2. CASE u # t
    <3>1. /\ at'[u] = at[u] /\ row'[u] = row[u] /\ col'[u] = col[u]
          /\ Begun(u)' = Begun(u)
          /\ encoded'[r] = encoded[r] /\ current_mb_col'[r] = current_mb_col[r]
      BY <1>6, <2>1, <2>2
    <3> HIDE DEF u
    <3>2. RowInv(r, u)'
      BY <2>1, <3>1, RowStays
    <3> QED
      BY <3>2 DEF u
  <2>3. CASE u = t /\ On(t)
    BY <2>1, <2>3
  <2>4. CASE u = t /\ ~On(t)
    <3>1. u <= r /\ r < Rows /\ u \in Nat
      BY <2>1, Sizes, OwnerIs
    <3>2. ~Begun(t) /\ ~Begun(t)'
      BY <1>6, <2>1, <2>4, <3>1, Sizes DEF On
    <3>3. encoded'[r] = encoded[r] /\ current_mb_col'[r] = current_mb_col[r]
      BY <2>4
    <3> HIDE DEF u
    <3>4. RowInv(r, u)'
      BY <2>1, <2>4, <3>2, <3>3 DEF RowInv
    <3> QED
      BY <3>4 DEF u
  <2> QED
    BY <2>2, <2>3, <2>4
<1> QED
  BY <1>7, <1>8, <1>9, <1>10 DEF EncodeInv

LEMMA EndStays ==
  ASSUME EndInv, start' = start, end' = end, Working' = Working, row' = row
  PROVE  EndInv'
<1> DEFINE L == Owner(Rows - 1)
<1>1. Begun(L)' = Begun(L)
  BY SameFrame
<1> HIDE DEF L
<1>2. Working => end = IF Begun(L) /\ row[L] >= Rows THEN 1 ELSE 0
  BY DEF EndInv, L
<1>3. Working' => end' = IF Begun(L)' /\ row'[L] >= Rows THEN 1 ELSE 0
  BY <1>1, <1>2
<1> QED
  BY <1>3 DEF EndInv, L

LEMMA AllAboveStays ==
  ASSUME AllAboveInv, Working' = Working, encoded' = encoded,
         \A s \in Row : encoded[s] = Cols /\ current_mb_col[s] = Ready =>
           current_mb_col'[s] = Ready
  PROVE  AllAboveInv'
BY DEF AllAboveInv, Ready

LEMMA TestRowInv ==
  ASSUME EncodeInv, NEW t \in Encoder, TestRow(t)
  PROVE  EncodeInv'
<1>1. TypeOK /\ MainInv /\ RowsInv /\ AllAboveInv /\ EndInv /\ AboveInv(t)
  BY DEF EncodeInv, ThreadInv
<1>2. /\ at[t] = "test" /\ at[t] \in RowPlaces
      /\ multi' = multi /\ created' = created /\ joining' = joining
      /\ lpf_running' = lpf_running /\ start_lpf' = start_lpf /\ end_lpf' = end_lpf
      /\ level_set' = level_set /\ filtered' = filtered /\ recodes' = recodes
      /\ current_mb_col' = current_mb_col /\ row' = row /\ start' = start
      /\ end' = end /\ encoded' = encoded
  BY DEF TestRow, life, filter, RowPlaces
<1>3. /\ ~On(t) => OffInv(t)
      /\ On(t) => Working /\ OnInv(t) /\ Owner(row[t]) = t
      /\ row[t] \in Nat
      /\ row[t] < Rows => row[t] \in Row
  BY <1>2, InRows
<1>4. /\ at \in [0 .. Filter -> Place] /\ col \in [Encoder -> 0 .. Cols]
      /\ t \in 0 .. Filter /\ 0 \in 0 .. Filter /\ 0 \in Encoder
      /\ Cols \in Nat \ {0} /\ Rows \in Nat
  BY <1>1, Sizes DEF TypeOK
<1>5. \/ /\ row[t] < Rows /\ On(t)
         /\ at' = [at EXCEPT ![t] = "mb"]
         /\ col' = [col EXCEPT ![t] = 0]
      \/ /\ row[t] >= Rows
         /\ at' = [at EXCEPT ![t] = IF t = 0 THEN "wait" ELSE "top"]
         /\ col' = col
  BY <1>2, <1>3, <1>4 DEF TestRow, OffInv, Goes
<1>6. /\ at' \in [0 .. Filter -> Place]
      /\ at'[t] = IF row[t] < Rows THEN "mb" ELSE IF t = 0 THEN "wait" ELSE "top"
      /\ \A u \in 0 .. Filter : u # t => at'[u] = at[u]
      /\ col' \in [Encoder -> 0 .. Cols]
      /\ \A u \in Encoder : u # t => col'[u] = col[u]
      /\ row[t] < Rows => On(t) /\ col'[t] = 0
  <2> DEFINE place == IF row[t] < Rows THEN "mb" ELSE IF t = 0 THEN "wait" ELSE "top"
  <2>1. place \in Place /\ 0 \in 0 .. Cols
    BY <1>4 DEF Place, RowPlaces
  <2>2. at' = [at EXCEPT ![t] = place]
    BY <1>3, <1>4, <1>5
  <2> HIDE DEF place
  <2>3. /\ at' \in [0 .. Filter -> Place] /\ at'[t] = place
        /\ \A u \in 0 .. Filter : u # t => at'[u] = at[u]
    BY <1>4, <2>1, <2>2
  <2>4. CASE row[t] < Rows
    <3>1. On(t) /\ col' = [col EXCEPT ![t] = 0]
      BY <1>3, <1>4, <1>5, <2>4
    <3>2. /\ col' \in [Encoder -> 0 .. Cols] /\ col'[t] = 0
          /\ \A u \in Encoder : u # t => col'[u] = col[u]
      BY <1>4, <2>1, <3>1
    <3> QED
      BY <2>3, <3>1, <3>2 DEF place
  <2>5. CASE ~(row[t] < Rows)
    <3>1. col' = col
      BY <1>5, <2>5
    <3> QED
      BY <1>4, <2>3, <2>5, <3>1 DEF place
  <2> QED
    BY <2>4, <2>5
<1>7. TypeOK'
  BY <1>1, <1>2, <1>6 DEF TypeOK
<1>8. Working' = Working
  <2>1. CASE t = 0
    BY <1>2, <1>6, <2>1 DEF Working, RowPlaces
  <2>2. CASE t # 0
    BY <1>4, <1>6, <2>2 DEF Working
  <2> QED
    BY <2>1, <2>2
<1>9. \A u : Begun(u)' = Begun(u) /\ On(u)' = On(u)
  BY <1>2, <1>8, SameFrame
<1>10. OnInv(t)'
  BY <1>2, <1>3, <1>4, <1>6, <1>9 DEF OnInv, RowPlaces
<1>11. OffInv(t)'
  BY <1>2, <1>3, <1>4, <1>6, <1>9, InRows DEF OffInv
<1>12. AboveInv(t)'
  BY <1>4, <1>6, EncoderSizes DEF AboveInv
<1>13. ASSUME On(t), NEW r \in Row, Owner(r) = t
       PROVE  RowInv(r, t)'
  <2>1. RowInv(r, t)
    BY <1>1, <1>3, <1>13 DEF RowsInv
  <2> QED
    BY <1>2, <1>3, <1>4, <1>6, <1>9, <2>1, Sizes DEF RowInv, Ready
<1>14. AllAboveInv'
  BY <1>1, <1>2, <1>8, AllAboveStays
<1>15. EndInv'
  BY <1>1, <1>2, <1>8, EndStays
<1>16. \A r \in Row : current_mb_col'[r] >= current_mb_col[r]
  BY <1>1, <1>2, Sizes DEF TypeOK
<1>17. \A u \in Encoder : u # t =>
         at'[u] = at[u] /\ row'[u] = row[u] /\ col'[u] = col[u]
  BY <1>2, <1>6, Sizes
<1>18. at'[t] \in RowPlaces \cup {IF t = 0 THEN "wait" ELSE "top"}
  BY <1>6 DEF RowPlaces
<1> QED
  BY <1>2, <1>7, <1>10, <1>11, <1>12, <1>13, <1>14, <1>15, <1>16, <1>17, <1>18,
     StepKeeps

LEMMA StartMbInv ==
  ASSUME EncodeInv, NEW t \in Encoder, StartMb(t)
  PROVE  EncodeInv'
<1>1. TypeOK /\ MainInv /\ RowsInv /\ AllAboveInv /\ EndInv /\ AboveInv(t)
  BY DEF EncodeInv, ThreadInv
<1>2. /\ at[t] = "mb" /\ at[t] \in RowPlaces
      /\ multi' = multi /\ created' = created /\ joining' = joining
      /\ lpf_running' = lpf_running /\ start_lpf' = start_lpf /\ end_lpf' = end_lpf
      /\ level_set' = level_set /\ filtered' = filtered /\ recodes' = recodes
      /\ current_mb_col' = [current_mb_col EXCEPT ![row[t]] = col[t] - 1]
      /\ at' = [at EXCEPT ![t] = "spin"]
      /\ row' = row /\ col' = col /\ start' = start /\ end' = end
      /\ encoded' = encoded
  BY DEF StartMb, Goes, life, filter, RowPlaces
<1>3. On(t) /\ Working /\ OnInv(t) /\ Owner(row[t]) = t
  BY <1>2, InRows
<1>4. /\ at \in [0 .. Filter -> Place]
      /\ t \in 0 .. Filter /\ 0 \in 0 .. Filter /\ 0 \in Encoder
      /\ current_mb_col \in [Row -> -1 .. Cols + NSync]
      /\ row[t] \in Nat /\ col[t] \in 0 .. Cols
      /\ Cols \in Nat \ {0} /\ NSync \in Nat \ {0} /\ Rows \in Nat
  BY <1>1, Sizes DEF TypeOK
<1>5. row[t] < Rows /\ col[t] < Cols /\ row[t] \in Row
  BY <1>2, <1>3, InRows DEF OnInv
<1>6. /\ at' \in [0 .. Filter -> Place] /\ at'[t] = "spin"
      /\ \A u \in 0 .. Filter : u # t => at'[u] = at[u]
      /\ at'[t] \in RowPlaces
  BY <1>2, <1>4 DEF Place, RowPlaces
<1>7. Working' = Working
  BY <1>2, <1>3, <1>4, <1>6 DEF Working
<1>8. \A u : Begun(u)' = Begun(u) /\ On(u)' = On(u)
  BY <1>2, <1>7, SameFrame
<1>9. \A r \in Row : RowInv(r, Owner(r))
  BY <1>1, <1>3 DEF RowsInv
<1>10. /\ encoded[row[t]] = col[t]
       /\ current_mb_col[row[t]] = IF col[t] = 0 THEN -1 ELSE col[t] - 2
  BY <1>2, <1>3, <1>5, <1>9 DEF RowInv, On
<1>11. TypeOK'
  <2>1. current_mb_col' \in [Row -> -1 .. Cols + NSync]
    <3>1. col[t] - 1 \in -1 .. Cols + NSync
      BY <1>4
    <3> QED
      BY <1>2, <1>4, <3>1
  <2> QED
    BY <1>1, <1>2, <1>6, <2>1 DEF TypeOK
<1>12. OnInv(t)'
  BY <1>2, <1>3, <1>5, <1>6, <1>8 DEF OnInv
<1>13. OffInv(t)'
  BY <1>3, <1>8 DEF OffInv
<1>14. AboveInv(t)'
  <2>1. row[t] > 0 => row[t] - 1 \in Row /\ row[t] - 1 # row[t]
    BY <1>4, <1>5, Sizes
  <2> QED
    BY <1>1, <1>2, <1>3, <1>4, <1>6, <2>1 DEF AboveInv, Above
<1>15. ASSUME NEW r \in Row, Owner(r) = t
       PROVE  RowInv(r, t)'
  <2>1. RowInv(r, t)
    BY <1>9, <1>15
  <2> QED
    BY <1>2, <1>4, <1>5, <1>6, <1>8, <1>10, <2>1 DEF RowInv, Ready
<1>16. AllAboveInv'
  <2>1. current_mb_col[row[t]] # Ready
    BY <1>4, <1>10 DEF Ready
  <2> QED
    BY <1>1, <1>2, <1>4, <1>7, <2>1, AllAboveStays
<1>17. EndInv'
  BY <1>1, <1>2, <1>7, EndStays
<1>18. \A r \in Row : current_mb_col'[r] >= current_mb_col[r]
  BY <1>2, <1>4, <1>10
<1>19. \A r \in Row : Owner(r) # t =>
         encoded'[r] = encoded[r] /\ current_mb_col'[r] = current_mb_col[r]
  BY <1>2, <1>3, <1>4
<1>20. \A u \in Encoder : u # t =>
         at'[u] = at[u] /\ row'[u] = row[u] /\ col'[u] = col[u]
  BY <1>2, <1>6, Sizes
<1> QED
  BY <1>2, <1>3, <1>6, <1>11, <1>12, <1>13, <1>14, <1>15, <1>16, <1>17, <1>18,
     <1>19, <1>20, StepKeeps

LEMMA FlagRowInv ==
  ASSUME EncodeInv, NEW t \in Encoder, FlagRow(t)
  PROVE  EncodeInv'
<1>1. TypeOK /\ MainInv /\ RowsInv /\ AllAboveInv /\ EndInv
  BY DEF EncodeInv
<1>2. /\ at[t] = "flag" /\ at[t] \in RowPlaces
      /\ multi' = multi /\ created' = created /\ joining' = joining
      /\ lpf_running' = lpf_running /\ start_lpf' = start_lpf /\ end_lpf' = end_lpf
      /\ level_set' = level_set /\ filtered' = filtered /\ recodes' = recodes
      /\ current_mb_col' = [current_mb_col EXCEPT ![row[t]] = Ready]
      /\ at' = [at EXCEPT ![t] = "next"]
      /\ row' = row /\ col' = col /\ start' = start /\ end' = end
      /\ encoded' = encoded
  BY DEF FlagRow, Goes, life, filter, RowPlaces, Ready
<1>3. On(t) /\ Working /\ OnInv(t) /\ Owner(row[t]) = t
  BY <1>2, InRows
<1>4. /\ at \in [0 .. Filter -> Place]
      /\ t \in 0 .. Filter /\ 0 \in 0 .. Filter /\ 0 \in Encoder
      /\ current_mb_col \in [Row -> -1 .. Ready]
      /\ row[t] \in Nat /\ Ready \in Nat /\ Rows \in Nat
      /\ Ready \in -1 .. Ready /\ Ready = Cols + NSync
  BY <1>1, Sizes DEF TypeOK, Ready
<1>5. row[t] < Rows /\ col[t] = Cols /\ row[t] \in Row
  BY <1>2, <1>3, InRows DEF OnInv
<1>6. /\ at' \in [0 .. Filter -> Place] /\ at'[t] = "next"
      /\ \A u \in 0 .. Filter : u # t => at'[u] = at[u]
      /\ at'[t] \in RowPlaces
  BY <1>2, <1>4 DEF Place, RowPlaces
<1>7. Working' = Working
  BY <1>2, <1>3, <1>4, <1>6 DEF Working
<1>8. Ready' = Ready /\ \A u : Begun(u)' = Begun(u) /\ On(u)' = On(u)
  BY <1>2, <1>7, SameFrame DEF Ready
<1>9. \A r \in Row : RowInv(r, Owner(r))
  BY <1>1, <1>3 DEF RowsInv
<1>10. TypeOK'
  <2>1. current_mb_col' \in [Row -> -1 .. Cols + NSync]
    BY <1>2, <1>4
  <2> QED
    BY <1>1, <1>2, <1>6, <2>1 DEF TypeOK
<1>11. OnInv(t)'
  BY <1>2, <1>3, <1>5, <1>6, <1>8 DEF OnInv
<1>12. OffInv(t)' /\ AboveInv(t)'
  BY <1>3, <1>6, <1>8 DEF OffInv, AboveInv
<1>13. ASSUME NEW r \in Row, Owner(r) = t
       PROVE  RowInv(r, t)'
  <2>1. RowInv(r, t)
    BY <1>9, <1>13
  <2>2. CASE r = row[t]
    <3>1. encoded[r] = Cols
      BY <1>2, <1>3, <1>5, <2>1, <2>2 DEF RowInv, On
    <3>2. current_mb_col'[r] = Ready
      BY <1>2, <1>4, <1>5, <2>2
    <3> QED
      BY <1>2, <1>3, <1>4, <1>6, <1>8, <2>2, <3>1, <3>2 DEF RowInv, On
  <2>3. CASE r # row[t]
    <3>1. current_mb_col'[r] = current_mb_col[r]
      BY <1>2, <1>4, <2>3
    <3> QED
      BY <1>2, <1>8, <2>1, <2>3, <3>1 DEF RowInv
  <2> QED
    BY <2>2, <2>3
<1>14. AllAboveInv'
  BY <1>1, <1>2, <1>4, <1>7, AllAboveStays
<1>15. EndInv'
  BY <1>1, <1>2, <1>7, EndStays
<1>16. \A r \in Row : current_mb_col'[r] >= current_mb_col[r]
  BY <1>2, <1>4
<1>17. \A r \in Row : Owner(r) # t =>
         encoded'[r] = encoded[r] /\ current_mb_col'[r] = current_mb_col[r]
  BY <1>2, <1>3, <1>4
<1>18. \A u \in Encoder : u # t =>
         at'[u] = at[u] /\ row'[u] = row[u] /\ col'[u] = col[u]
  BY <1>2, <1>6, Sizes
<1> QED
  BY <1>2, <1>3, <1>6, <1>10, <1>11, <1>12, <1>13, <1>14, <1>15, <1>16, <1>17,
     <1>18, StepKeeps

\* A thread that leaves the spin loop has the row above far enough: a row's
\* entry of mt_current_mb_col never runs ahead of its macroblocks.
LEMMA RowAbove ==
  ASSUME EncodeInv, NEW t \in Encoder, at[t] = "spin", ~MustSpin(t), row[t] > 0
  PROVE  /\ Above(t)
         /\ \/ encoded[row[t] - 1] = Cols /\ current_mb_col[row[t] - 1] = Ready
            \/ encoded[row[t] - 1] >= col[t] + 2 /\ col[t] + 1 < Cols
<1> DEFINE a == row[t] - 1
           u == Owner(a)
<1>1. TypeOK /\ MainInv /\ RowsInv /\ AboveInv(t)
  BY DEF EncodeInv, ThreadInv
<1>2. On(t) /\ Working /\ OnInv(t)
  BY InRows DEF RowPlaces
<1>3. /\ row[t] \in Nat /\ col[t] \in 0 .. Cols /\ row[t] < Rows /\ col[t] < Cols
      /\ Cols \in Nat \ {0} /\ NSync \in Nat \ {0} /\ Rows \in Nat
  BY <1>1, <1>2, Sizes DEF TypeOK, OnInv
<1>4. a \in Row /\ a \in Nat /\ a < Rows
  BY <1>3 DEF Row
<1>5. current_mb_col[a] \in Int /\ encoded[a] \in 0 .. Cols
  BY <1>1, <1>3, <1>4 DEF TypeOK
<1>6. Above(t)
  <2>1. CASE col[t] % NSync = 0
    <3>1. ~(col[t] > current_mb_col[a] - NSync)
      BY <2>1 DEF MustSpin
    <3>2. col[t] <= current_mb_col[a] - NSync
      BY <1>3, <1>5, <3>1
    <3>3. col[t] - (col[t] % NSync) + NSync = col[t] + NSync
      BY <1>3, <2>1
    <3>4. current_mb_col[a] >= col[t] + NSync
      BY <1>3, <1>5, <3>2
    <3> QED
      BY <3>3, <3>4 DEF Above
  <2>2. CASE col[t] % NSync # 0
    BY <1>1, <1>2, <2>2 DEF AboveInv
  <2> QED
    BY <2>1, <2>2
<1> SUFFICES \/ encoded[a] = Cols /\ current_mb_col[a] = Ready
             \/ encoded[a] >= col[t] + 2 /\ col[t] + 1 < Cols
  BY <1>6
<1>7. current_mb_col[a] >= col[t] + 1
  <2>1. col[t] % NSync \in 0 .. NSync - 1
    BY <1>3
  <2>2. current_mb_col[a] >= col[t] - (col[t] % NSync) + NSync
    BY <1>6 DEF Above
  <2> QED
    BY <1>3, <1>5, <2>1, <2>2
<1>8. u \in Encoder /\ u \in Nat /\ u < Rows
  <2>1. u \in Encoder /\ u <= a /\ u \in Nat
    BY <1>4, OwnerIs
  <2> QED
    BY <1>3, <1>4, <2>1
<1>9. RowInv(a, u)
  BY <1>1, <1>2, <1>4 DEF RowsInv
<1> HIDE DEF a, u
<1>10. Begun(u) /\ row[u] >= a
  <2>1. row[u] \in Nat
    BY <1>1, <1>8 DEF TypeOK
  <2> QED
    BY <1>3, <1>4, <1>5, <1>7, <1>9, <2>1 DEF RowInv
<1>11. CASE a < row[u]
  BY <1>9, <1>10, <1>11 DEF RowInv
<1>12. CASE row[u] = a
  <2>1. On(u) /\ OnInv(u)
    BY <1>8, <1>10 DEF On, EncodeInv, ThreadInv
  <2>2. at[u] \notin {"wait", "top", "idle"}
    BY <1>3, <1>4, <1>12, <2>1 DEF OnInv
  <2>3. at[u] \in RowPlaces
    <3>1. CASE u = 0
      BY <1>2, <2>2, <3>1 DEF Working
    <3>2. CASE u # 0
      <4>1. u \in Helper
        BY <1>8, <3>2, Sizes
      <4>2. HelperInv(u)
        BY <4>1 DEF EncodeInv
      <4>3. at[u] # "exit"
        BY <1>1, <1>2, <4>2 DEF HelperInv, MainInv, Working, RowPlaces
      <4> QED
        BY <2>2, <4>2, <4>3 DEF HelperInv
    <3> QED
      BY <3>1, <3>2
  <2>4. col[u] \in 0 .. Cols
    BY <1>1, <1>8 DEF TypeOK
  <2>5. at[u] # "test"
    BY <1>3, <1>7, <1>9, <1>10, <1>12 DEF RowInv
  <2>6. CASE at[u] = "next"
    BY <1>9, <1>10, <1>12, <2>6 DEF RowInv
  <2>7. CASE at[u] \in {"mb", "flag", "spin"}
    <3>1. encoded[a] >= col[t] + 2
      BY <1>3, <1>7, <1>9, <1>10, <1>12, <2>4, <2>7 DEF RowInv
    <3> QED
      BY <1>3, <1>5, <3>1
  <2> QED
    BY <2>3, <2>5, <2>6, <2>7 DEF RowPlaces
<1> QED
  BY <1>1, <1>4, <1>8, <1>10, <1>11, <1>12 DEF TypeOK

LEMMA EncodeMbInv ==
  ASSUME EncodeInv, NEW t \in Encoder, EncodeMb(t)
  PROVE  EncodeInv'
<1>1. TypeOK /\ MainInv /\ RowsInv /\ AllAboveInv /\ EndInv
  BY DEF EncodeInv
<1>2. /\ at[t] = "spin" /\ at[t] \in RowPlaces /\ ~MustSpin(t)
      /\ multi' = multi /\ created' = created /\ joining' = joining
      /\ lpf_running' = lpf_running /\ start_lpf' = start_lpf /\ end_lpf' = end_lpf
      /\ level_set' = level_set /\ filtered' = filtered /\ recodes' = recodes
      /\ encoded' = [encoded EXCEPT ![row[t]] = col[t] + 1]
      /\ col' = [col EXCEPT ![t] = @ + 1]
      /\ at' = [at EXCEPT ![t] = IF col[t] + 1 < Cols THEN "mb" ELSE "flag"]
      /\ row' = row /\ current_mb_col' = current_mb_col
      /\ start' = start /\ end' = end
  BY DEF EncodeMb, Goes, life, filter, RowPlaces
<1>3. On(t) /\ Working /\ OnInv(t) /\ Owner(row[t]) = t
  BY <1>2, InRows
<1>4. /\ at \in [0 .. Filter -> Place] /\ col \in [Encoder -> 0 .. Cols]
      /\ t \in 0 .. Filter /\ 0 \in 0 .. Filter /\ 0 \in Encoder
      /\ encoded \in [Row -> 0 .. Cols]
      /\ row[t] \in Nat /\ col[t] \in Nat
      /\ Cols \in Nat \ {0} /\ NSync \in Nat \ {0} /\ Rows \in Nat
  BY <1>1, Sizes DEF TypeOK
<1>5. row[t] < Rows /\ col[t] < Cols /\ row[t] \in Row
  BY <1>2, <1>3, InRows DEF OnInv
<1>6. /\ at' \in [0 .. Filter -> Place]
      /\ at'[t] = IF col[t] + 1 < Cols THEN "mb" ELSE "flag"
      /\ \A u \in 0 .. Filter : u # t => at'[u] = at[u]
      /\ at'[t] \in RowPlaces
  <2> DEFINE place == IF col[t] + 1 < Cols THEN "mb" ELSE "flag"
  <2>1. place \in RowPlaces /\ place \in Place
    BY DEF Place, RowPlaces
  <2>2. at' = [at EXCEPT ![t] = place]
    BY <1>2
  <2> HIDE DEF place
  <2>3. /\ at' \in [0 .. Filter -> Place] /\ at'[t] = place
        /\ \A u \in 0 .. Filter : u # t => at'[u] = at[u]
    BY <1>4, <2>1, <2>2
  <2> QED
    BY <2>1, <2>3 DEF place
<1>7. /\ col' \in [Encoder -> 0 .. Cols] /\ col'[t] = col[t] + 1
      /\ \A u \in Encoder : u # t => col'[u] = col[u]
      /\ encoded' \in [Row -> 0 .. Cols] /\ encoded'[row[t]] = col[t] + 1
      /\ \A r \in Row : r # row[t] => encoded'[r] = encoded[r]
  <2>1. col[t] + 1 \in 0 .. Cols
    BY <1>4, <1>5
  <2> QED
    BY <1>2, <1>4, <1>5, <2>1
<1>8. Working' = Working
  BY <1>2, <1>3, <1>4, <1>6 DEF Working
<1>9. Ready' = Ready /\ \A u : Begun(u)' = Begun(u) /\ On(u)' = On(u)
  BY <1>2, <1>8, SameFrame DEF Ready
<1>10. \A r \in Row : RowInv(r, Owner(r))
  BY <1>1, <1>3 DEF RowsInv
<1>11. encoded[row[t]] = col[t] /\ current_mb_col[row[t]] = col[t] - 1
  BY <1>2, <1>3, <1>5, <1>10 DEF RowInv, On
<1>12. TypeOK'
  BY <1>1, <1>2, <1>6, <1>7 DEF TypeOK
<1>13. OnInv(t)'
  BY <1>2, <1>3, <1>4, <1>5, <1>6, <1>7, <1>9 DEF OnInv
<1>14. OffInv(t)'
  BY <1>3, <1>9 DEF OffInv
<1>15. AboveInv(t)'
  <2> DEFINE c == col[t] + 1
  <2> SUFFICES ASSUME c % NSync # 0, row[t] > 0
               PROVE  current_mb_col[row[t] - 1] >= c - (c % NSync) + NSync
    <3>1. col'[t] = c /\ row'[t] = row[t] /\ current_mb_col' = current_mb_col
      BY <1>2, <1>7
    <3> HIDE DEF c
    <3> QED
      BY <3>1 DEF AboveInv, Above
  <2>1. c - (c % NSync) = col[t] - (col[t] % NSync)
    BY <1>4, SameRange
  <2>2. Above(t)
    BY <1>2, RowAbove
  <2>3. current_mb_col[row[t] - 1] >= col[t] - (col[t] % NSync) + NSync
    BY <2>2 DEF Above
  <2> HIDE DEF c
  <2> QED
    BY <2>1, <2>3
<1>16. ASSUME NEW r \in Row, Owner(r) = t
       PROVE  RowInv(r, t)'
  <2>1. RowInv(r, t)
    BY <1>10, <1>16
  <2>2. CASE r = row[t]
    BY <1>2, <1>3, <1>4, <1>5, <1>6, <1>7, <1>9, <1>11, <2>2 DEF RowInv, On
  <2>3. CASE r # row[t]
    BY <1>2, <1>7, <1>9, <2>1, <2>3 DEF RowInv
  <2> QED
    BY <2>2, <2>3
<1>17. AllAboveInv'
  <2> SUFFICES ASSUME NEW r \in Row, NEW s \in Row, s < r, encoded'[r] = Cols
               PROVE  encoded'[s] = Cols /\ current_mb_col[s] = Ready
    BY <1>2, <1>8, <1>9 DEF AllAboveInv
  <2>1. r \in Nat /\ s \in Nat /\ r < Rows
    BY Sizes
  <2>2. CASE r = row[t]
    <3>1. row[t] > 0 /\ row[t] - 1 \in Row /\ col[t] + 1 = Cols
      <4>1. col[t] + 1 = Cols
        BY <1>7, <2>2
      <4>2. row[t] > 0 /\ row[t] - 1 \in Row
        BY <1>4, <2>1, <2>2 DEF Row
      <4> QED
        BY <4>1, <4>2
    <3>2. encoded[r - 1] = Cols /\ current_mb_col[r - 1] = Ready
      BY <1>2, <1>4, <2>2, <3>1, RowAbove
    <3>3. s = r - 1 \/ s < r - 1
      BY <2>1
    <3>4. encoded[s] = Cols /\ current_mb_col[s] = Ready
      BY <1>1, <1>3, <1>4, <1>5, <2>1, <2>2, <3>1, <3>2, <3>3 DEF AllAboveInv
    <3> QED
      BY <1>7, <2>1, <2>2, <3>4
  <2>3. CASE r # row[t]
    <3>1. encoded[s] = Cols /\ current_mb_col[s] = Ready
      BY <1>1, <1>3, <1>7, <2>3 DEF AllAboveInv
    <3>2. s # row[t]
      BY <1>4, <1>5, <1>11, <3>1
    <3> QED
      BY <1>7, <3>1, <3>2
  <2> QED
    BY <2>2, <2>3
<1>18. EndInv'
  BY <1>1, <1>2, <1>8, EndStays
<1>19. \A r \in Row : current_mb_col'[r] >= current_mb_col[r]
  BY <1>1, <1>2, Sizes DEF TypeOK
<1>20. \A r \in Row : Owner(r) # t =>
         encoded'[r] = encoded[r] /\ current_mb_col'[r] = current_mb_col[r]
  BY <1>2, <1>3, <1>7
<1>21. \A u \in Encoder : u # t =>
         at'[u] = at[u] /\ row'[u] = row[u] /\ col'[u] = col[u]
  BY <1>2, <1>6, <1>7, Sizes
<1> QED
  BY <1>2, <1>3, <1>6, <1>12, <1>13, <1>14, <1>15, <1>16, <1>17, <1>18, <1>19,
     <1>20, <1>21, StepKeeps

\* Only the thread of the last row signals the end, when it goes past it.
LEMMA LastRowEnds ==
  ASSUME NEW r \in Nat, r < Rows
  PROVE  r = Rows - 1 <=> Owner(r) = Owner(Rows - 1) /\ r + Threads >= Rows
<1>1. Threads \in Nat \ {0} /\ Rows \in Nat \ {0} /\ Rows - 1 \in Nat
  BY Sizes
<1>2. ASSUME Owner(r) = Owner(Rows - 1), r + Threads >= Rows, r # Rows - 1
      PROVE  FALSE
  <2>1. r % Threads = (Rows - 1) % Threads /\ r < Rows - 1
    BY <1>1, <1>2 DEF Owner
  <2>2. r + Threads <= Rows - 1
    BY <1>1, <2>1, ModBetween
  <2> QED
    BY <1>1, <1>2, <2>2
<1> QED
  BY <1>1, <1>2

LEMMA NextRowInv ==
  ASSUME EncodeInv, NEW t \in Encoder, NextRow(t)
  PROVE  EncodeInv'
<1>1. TypeOK /\ MainInv /\ RowsInv /\ AllAboveInv /\ EndInv
  BY DEF EncodeInv
<1>2. /\ at[t] = "next" /\ at[t] \in RowPlaces
      /\ multi' = multi /\ created' = created /\ joining' = joining
      /\ lpf_running' = lpf_running /\ start_lpf' = start_lpf /\ end_lpf' = end_lpf
      /\ level_set' = level_set /\ filtered' = filtered /\ recodes' = recodes
      /\ end' = IF row[t] = Rows - 1 THEN end + 1 ELSE end
      /\ row' = [row EXCEPT ![t] = @ + Helpers + 1]
      /\ at' = [at EXCEPT ![t] = "test"]
      /\ col' = col /\ current_mb_col' = current_mb_col /\ encoded' = encoded
      /\ start' = start
  BY DEF NextRow, Goes, life, filter, RowPlaces
<1>3. /\ ~On(t) => OffInv(t)
      /\ On(t) => Working /\ OnInv(t) /\ Owner(row[t]) = t
      /\ row[t] \in Nat
  BY <1>2, InRows
<1>4. /\ at \in [0 .. Filter -> Place] /\ row \in [Encoder -> Nat]
      /\ t \in 0 .. Filter /\ 0 \in 0 .. Filter /\ 0 \in Encoder
      /\ Threads \in Nat \ {0} /\ Rows \in Nat \ {0} /\ end \in Nat
      /\ Threads = Helpers + 1 /\ Helpers \in Nat
  BY <1>1, Sizes DEF TypeOK
<1>5. /\ at' \in [0 .. Filter -> Place] /\ at'[t] = "test" /\ at'[t] \in RowPlaces
      /\ \A u \in 0 .. Filter : u # t => at'[u] = at[u]
      /\ row' \in [Encoder -> Nat] /\ row'[t] = row[t] + Threads
      /\ \A u \in Encoder : u # t => row'[u] = row[u]
  <2>1. row[t] + Helpers + 1 = row[t] + Threads /\ row[t] + Threads \in Nat
    BY <1>3, <1>4
  <2> QED
    BY <1>2, <1>4, <2>1 DEF Place, RowPlaces
<1>6. Working' = Working
  <2>1. CASE t = 0
    BY <1>2, <1>5, <2>1 DEF Working
  <2>2. CASE t # 0
    BY <1>4, <1>5, <2>2 DEF Working
  <2> QED
    BY <2>1, <2>2
<1>7. \A u : Begun(u)' = Begun(u) /\ On(u)' = On(u)
  BY <1>2, <1>6, SameFrame
<1>8. TypeOK'
  <2>1. end' \in Nat
    BY <1>2, <1>4
  <2> QED
    BY <1>1, <1>2, <1>5, <2>1 DEF TypeOK
<1>9. On(t) => /\ Owner(row[t]) = t /\ Owner(row[t] + Threads) = t
               /\ row[t] < Rows
  <2>1. (row[t] + Threads) % Threads = row[t] % Threads
    BY <1>3, <1>4, ModStep
  <2> QED
    BY <1>2, <1>3, <2>1 DEF OnInv, Owner
<1>10. OnInv(t)'
  BY <1>3, <1>4, <1>5, <1>7, <1>9 DEF OnInv
<1>11. OffInv(t)'
  BY <1>2, <1>3, <1>4, <1>5, <1>7 DEF OffInv
<1>12. AboveInv(t)'
  BY <1>5 DEF AboveInv
<1>13. ASSUME On(t), NEW r \in Row, Owner(r) = t
       PROVE  RowInv(r, t)'
  <2>1. RowInv(r, t) /\ r \in Nat /\ Begun(t)
    BY <1>1, <1>3, <1>13, Sizes DEF RowsInv, On
  <2>2. CASE r <= row[t]
    <3>1. encoded[r] = Cols /\ current_mb_col[r] = Ready
      BY <1>2, <1>3, <2>1, <2>2 DEF RowInv
    <3>2. r < row'[t]
      BY <1>3, <1>4, <1>5, <2>1, <2>2
    <3> QED
      BY <1>2, <1>5, <1>7, <2>1, <3>1, <3>2 DEF RowInv, Ready
  <2>3. CASE row[t] < r
    <3>1. row[t] % Threads = r % Threads
      BY <1>9, <1>13 DEF Owner
    <3>2. row'[t] <= r
      BY <1>3, <1>4, <1>5, <2>1, <2>3, <3>1, ModBetween
    <3>3. encoded[r] = 0 /\ current_mb_col[r] = -1
      BY <2>1, <2>3 DEF RowInv
    <3> QED
      BY <1>2, <1>3, <1>4, <1>5, <1>7, <2>1, <3>2, <3>3 DEF RowInv, Ready
  <2> QED
    BY <1>3, <2>1, <2>2, <2>3
<1>14. AllAboveInv'
  BY <1>1, <1>2, <1>6, AllAboveStays
<1>15. ~On(t) => end' = end
  BY <1>2, <1>3 DEF OffInv
<1>16. EndInv'
  <2> SUFFICES ASSUME Working
               PROVE  EndInv'
    BY <1>6 DEF EndInv
  <2> DEFINE L == Owner(Rows - 1)
  <2>1. L \in Encoder /\ L \in Nat /\ L < Rows /\ Rows - 1 \in Nat
    <3>1. L \in Encoder /\ L \in Nat /\ L <= Rows - 1
      BY Sizes, OwnerIs
    <3> QED
      BY <1>4, <3>1
  <2>2. Begun(L)' = Begun(L) /\ (On(L) <=> Begun(L))
    BY <1>7, <2>1 DEF On
  <2>3. end = IF Begun(L) /\ row[L] >= Rows THEN 1 ELSE 0
    BY <1>1 DEF EndInv
  <2>4. On(t) => (row[t] = Rows - 1 <=> t = L /\ row[t] + Threads >= Rows)
    BY <1>3, <1>9, LastRowEnds
  <2> HIDE DEF L
  <2>5. end' = IF Begun(L)' /\ row'[L] >= Rows THEN 1 ELSE 0
    <3>1. CASE t = L /\ On(t)
      <4>1. row[L] < Rows /\ row'[L] = row[L] + Threads /\ Begun(L) /\ end = 0
        BY <1>3, <1>4, <1>5, <1>9, <2>2, <2>3, <3>1
      <4>2. row[L] = Rows - 1 <=> row'[L] >= Rows
        BY <2>4, <3>1, <4>1
      <4> QED
        BY <1>2, <2>2, <3>1, <4>1, <4>2
    <3>2. CASE t = L /\ ~On(t)
      BY <1>15, <2>2, <2>3, <3>2
    <3>3. CASE t # L
      <4>1. row'[L] = row[L] /\ end' = end
        BY <1>2, <1>5, <1>15, <2>1, <2>4, <3>3
      <4> QED
        BY <2>2, <2>3, <4>1
    <3> QED
      BY <3>1, <3>2, <3>3
  <2> QED
    BY <2>5 DEF EndInv, L
<1>17. \A r \in Row : current_mb_col'[r] >= current_mb_col[r]
  BY <1>1, <1>2, Sizes DEF TypeOK
<1>18. \A u \in Encoder : u # t =>
         at'[u] = at[u] /\ row'[u] = row[u] /\ col'[u] = col[u]
  BY <1>2, <1>5, Sizes
<1> QED
  BY <1>2, <1>5, <1>8, <1>10, <1>11, <1>12, <1>13, <1>14, <1>15, <1>16, <1>17,
     <1>18, StepKeeps

LEMMA RowStepInv ==
  ASSUME EncodeInv, NEW t \in Encoder, RowStep(t)
  PROVE  EncodeInv'
BY TestRowInv, StartMbInv, EncodeMbInv, FlagRowInv, NextRowInv DEF RowStep

-----------------------------------------------------------------------------
(* A helper's step outside its rows *)

\* The invariant after a step of a helper, if it holds of this thread and of
\* its rows.
LEMMA HelperKeeps ==
  ASSUME EncodeInv, NEW t \in Helper,
         multi' = multi, created' = created, joining' = joining,
         current_mb_col' = current_mb_col, col' = col, end' = end,
         encoded' = encoded,
         \A u \in Encoder : u # t => at'[u] = at[u] /\ row'[u] = row[u],
         \A u \in Helper : u # t => start'[u] = start[u],
         TypeOK', HelperInv(t)', OffInv(t)', ThreadInv(t)',
         Working => \A r \in Row : Owner(r) = t => RowInv(r, t)',
         EndInv'
  PROVE  EncodeInv'
<1>1. /\ TypeOK /\ MainInv /\ RowsInv /\ AllAboveInv
      /\ \A u \in Helper : HelperInv(u) /\ OffInv(u)
      /\ \A u \in Encoder : OnInv(u) /\ AboveInv(u)
  BY DEF EncodeInv, ThreadInv
<1>2. /\ 0 \in Encoder /\ Helper \subseteq Encoder /\ 0 \notin Helper
      /\ \A u \in Encoder : u = 0 \/ u \in Helper
  BY Sizes
<1>3. /\ at'[0] = at[0] /\ Working' = Working
      /\ \A p \in {"create", "join", "undolpf"} : (at[0] = p)' = (at[0] = p)
  BY <1>2 DEF Working
<1>4. MainInv'
  BY <1>1, <1>3 DEF MainInv
<1>5. ASSUME NEW u \in Encoder, u # t
      PROVE  /\ Begun(u)' = Begun(u) /\ On(u)' = On(u)
             /\ u # 0 => HelperInv(u)' /\ OffInv(u)'
             /\ OnInv(u)'
  <2>1. /\ u = 0 \/ start'[u] = start[u]
        /\ at'[u] = at[u] /\ row'[u] = row[u] /\ col'[u] = col[u] /\ OnInv(u)
        /\ u # 0 => HelperInv(u) /\ OffInv(u)
    BY <1>1, <1>2, <1>5
  <2> QED
    BY <1>3, <2>1, OthersStay
<1>6. ASSUME NEW u \in Encoder
      PROVE  ThreadInv(u)'
  <2>1. CASE u # t
    <3>1. /\ at'[u] = at[u] /\ row'[u] = row[u] /\ col'[u] = col[u]
          /\ On(u)' = On(u) /\ OnInv(u) /\ AboveInv(u) /\ OnInv(u)'
      BY <1>1, <1>5, <2>1
    <3>2. \A r \in Row : current_mb_col'[r] >= current_mb_col[r]
      BY <1>1, Sizes DEF TypeOK
    <3>3. AboveInv(u)'
      BY <1>1, <3>1, <3>2, AboveStays
    <3> QED
      BY <3>1, <3>3 DEF ThreadInv
  <2>2. CASE u = t
    BY <2>2
  <2> QED
    BY <2>1, <2>2
<1>7. RowsInv'
  <2> SUFFICES ASSUME Working, NEW r \in Row
               PROVE  RowInv(r, Owner(r))'
    BY <1>3 DEF RowsInv
  <2> DEFINE u == Owner(r)
  <2>1. r \in Nat /\ u \in Encoder /\ RowInv(r, u)
    BY <1>1, Sizes, OwnerIs DEF RowsInv
  <2>2. CASE u # t
    <3>1. /\ at'[u] = at[u] /\ row'[u] = row[u] /\ Begun(u)' = Begun(u)
      BY <1>5, <2>1, <2>2
    <3> HIDE DEF u
    <3>2. RowInv(r, u)'
      BY <2>1, <3>1, RowStays
    <3> QED
      BY <3>2 DEF u
  <2>3. CASE u = t
    BY <2>3
  <2> QED
    BY <2>2, <2>3
<1>8. AllAboveInv'
  BY <1>1, <1>3, AllAboveStays
<1> QED
  BY <1>2, <1>4, <1>5, <1>6, <1>7, <1>8 DEF EncodeInv

LEMMA ThreadTopInv ==
  ASSUME EncodeInv, NEW t \in Helper, ThreadTop(t)
  PROVE  EncodeInv'
<1>1. /\ TypeOK /\ MainInv /\ RowsInv /\ EndInv /\ HelperInv(t) /\ OffInv(t)
      /\ OnInv(t) /\ t \in Encoder /\ t # 0 /\ t \in Nat
  BY Sizes DEF EncodeInv, ThreadInv
<1>2. /\ at[t] = "top"
      /\ multi' = multi /\ created' = created /\ joining' = joining
      /\ lpf_running' = lpf_running /\ start_lpf' = start_lpf /\ end_lpf' = end_lpf
      /\ level_set' = level_set /\ filtered' = filtered /\ recodes' = recodes
      /\ at' = [at EXCEPT ![t] = IF multi THEN "idle" ELSE "exit"]
      /\ row' = row /\ col' = col /\ current_mb_col' = current_mb_col
      /\ end' = end /\ encoded' = encoded /\ start' = start
  BY DEF ThreadTop, Goes, rows, life, filter
<1>3. /\ at \in [0 .. Filter -> Place] /\ t \in 0 .. Filter /\ 0 \in 0 .. Filter
      /\ Encoder \subseteq 0 .. Filter /\ 0 \in Encoder
  BY <1>1, Sizes DEF TypeOK
<1>4. /\ at' \in [0 .. Filter -> Place]
      /\ multi => at'[t] = "idle"
      /\ ~multi => at'[t] = "exit"
      /\ \A u \in Encoder : u # t => at'[u] = at[u]
  BY <1>2, <1>3 DEF Place
<1>5. Working' = Working /\ at'[0] = at[0]
  BY <1>1, <1>3, <1>4 DEF Working
<1>6. \A u : Begun(u)' = Begun(u) /\ On(u)' = On(u)
  BY <1>2, <1>5, SameFrame
<1>7. TypeOK'
  BY <1>1, <1>2, <1>4 DEF TypeOK
<1>8. HelperInv(t)'
  <2>1. Posted(t)' = Posted(t)
    BY <1>2, <1>5 DEF Posted
  <2> QED
    BY <1>1, <1>2, <1>4, <2>1 DEF HelperInv
<1>9. OffInv(t)'
  BY <1>1, <1>2, <1>4, <1>6 DEF OffInv
<1>10. Working => multi
  BY <1>1 DEF MainInv, Working, RowPlaces
<1>11. OnInv(t)'
  BY <1>1, <1>2, <1>4, <1>6, <1>10 DEF OnInv, On, Begun, RowPlaces
<1>12. AboveInv(t)'
  BY <1>4 DEF AboveInv
<1>13. ASSUME Working, NEW r \in Row, Owner(r) = t
       PROVE  RowInv(r, t)'
  <2>1. RowInv(r, t)
    BY <1>1, <1>13 DEF RowsInv
  <2> QED
    BY <1>2, <1>4, <1>6, <1>10, <1>13, <2>1 DEF RowInv, Ready
<1>14. EndInv'
  BY <1>1, <1>2, <1>5, EndStays
<1> QED
  BY <1>2, <1>4, <1>7, <1>8, <1>9, <1>11, <1>12, <1>13, <1>14, HelperKeeps
  DEF ThreadInv

LEMMA ThreadStartInv ==
  ASSUME EncodeInv, NEW t \in Helper, ThreadStart(t)
  PROVE  EncodeInv'
<1>1. /\ TypeOK /\ MainInv /\ RowsInv /\ EndInv /\ HelperInv(t) /\ OffInv(t)
      /\ t \in Encoder /\ t # 0 /\ t \in Nat /\ t <= Helpers /\ Helpers \in Nat
      /\ Rows \in Nat
  BY Sizes DEF EncodeInv
<1>2. /\ at[t] = "idle" /\ start[t] > 0
      /\ multi' = multi /\ created' = created /\ joining' = joining
      /\ lpf_running' = lpf_running /\ start_lpf' = start_lpf /\ end_lpf' = end_lpf
      /\ level_set' = level_set /\ filtered' = filtered /\ recodes' = recodes
      /\ start' = [start EXCEPT ![t] = @ - 1]
      /\ at' = [at EXCEPT ![t] = IF multi THEN "test" ELSE "exit"]
      /\ row' = [row EXCEPT ![t] = t]
      /\ col' = col /\ current_mb_col' = current_mb_col
      /\ end' = end /\ encoded' = encoded
  BY DEF ThreadStart, Goes, life, filter
<1>3. /\ at \in [0 .. Filter -> Place] /\ t \in 0 .. Filter /\ 0 \in 0 .. Filter
      /\ row \in [Encoder -> Nat] /\ start \in [Helper -> Nat]
      /\ Encoder \subseteq 0 .. Filter /\ 0 \in Encoder /\ multi \in BOOLEAN
  BY <1>1, Sizes DEF TypeOK
<1>4. /\ at' \in [0 .. Filter -> Place]
      /\ multi => at'[t] = "test"
      /\ ~multi => at'[t] = "exit"
      /\ row' \in [Encoder -> Nat] /\ row'[t] = t
      /\ \A u \in Encoder : u # t => at'[u] = at[u] /\ row'[u] = row[u]
  BY <1>1, <1>2, <1>3 DEF Place, RowPlaces
<1>5. /\ start[t] \in Nat /\ start[t] - 1 \in Nat
      /\ start' \in [Helper -> Nat] /\ start'[t] = start[t] - 1
      /\ \A u \in Helper : u # t => start'[u] = start[u]
  <2>1. start[t] \in Nat /\ start[t] - 1 \in Nat
    BY <1>2, <1>3
  <2> QED
    BY <1>2, <1>3, <2>1
<1>6. Working' = Working /\ at'[0] = at[0]
  BY <1>1, <1>3, <1>4 DEF Working
<1>7. \A u \in Encoder : u # t => Begun(u)' = Begun(u)
  <2>1. \A u \in Encoder : u # t => u = 0 \/ start'[u] = start[u]
    BY <1>5, Sizes
  <2> QED
    BY <1>6, <2>1 DEF Begun
<1>8. TypeOK'
  BY <1>1, <1>2, <1>4, <1>5 DEF TypeOK
<1>9. t < Rows => start[t] = 1 /\ start'[t] = 0 /\ (multi <=> Working)
  <2>1. Working => multi
    BY <1>1 DEF MainInv, Working, RowPlaces
  <2> QED
    BY <1>1, <1>2, <1>3, <1>5, <2>1 DEF HelperInv, Posted
<1>10. Owner(t) = t
  BY <1>1, OwnerIs
<1>11. t < Rows /\ Working => multi /\ ~Begun(t) /\ Begun(t)' /\ On(t)'
  BY <1>1, <1>6, <1>9 DEF Begun, On
<1>12. HelperInv(t)'
  BY <1>1, <1>2, <1>4, <1>9 DEF HelperInv, RowPlaces
<1>13. OffInv(t)'
  <2>1. ~On(t)' /\ multi => t >= Rows
    BY <1>1, <1>9, <1>11
  <2> QED
    BY <1>2, <1>3, <1>4, <2>1 DEF OffInv
<1>14. OnInv(t)' /\ AboveInv(t)'
  <2>1. On(t)' => multi
    BY <1>6, <1>9 DEF On, Begun
  <2> QED
    BY <1>4, <1>10, <2>1 DEF OnInv, AboveInv
<1>15. ASSUME Working, NEW r \in Row, Owner(r) = t
       PROVE  RowInv(r, t)'
  <2>1. RowInv(r, t) /\ r \in Nat /\ r < Rows
    BY <1>1, <1>15, Sizes DEF RowsInv
  <2>2. t <= r
    BY <1>15, <2>1, OwnerIs
  <2>3. t < Rows
    BY <1>1, <2>1, <2>2
  <2>4. encoded[r] = 0 /\ current_mb_col[r] = -1
    BY <1>11, <1>15, <2>1, <2>3 DEF RowInv
  <2> QED
    BY <1>1, <1>2, <1>4, <1>11, <1>15, <2>1, <2>2, <2>3, <2>4 DEF RowInv, Ready
<1>16. EndInv'
  <2> SUFFICES ASSUME Working
               PROVE  EndInv'
    BY <1>6 DEF EndInv
  <2> DEFINE L == Owner(Rows - 1)
  <2>1. L \in Encoder /\ L \in Nat /\ L < Rows
    <3>1. L \in Encoder /\ L \in Nat /\ L <= Rows - 1
      BY Sizes, OwnerIs
    <3> QED
      BY <1>1, <3>1
  <2>2. end = IF Begun(L) /\ row[L] >= Rows THEN 1 ELSE 0
    BY <1>1 DEF EndInv
  <2> HIDE DEF L
  <2>3. end' = IF Begun(L)' /\ row'[L] >= Rows THEN 1 ELSE 0
    <3>1. CASE L = t
      BY <1>1, <1>2, <1>4, <1>11, <2>1, <2>2, <3>1
    <3>2. CASE L # t
      BY <1>2, <1>4, <1>7, <2>1, <2>2, <3>2
    <3> QED
      BY <3>1, <3>2
  <2> QED
    BY <2>3 DEF EndInv, L
<1> QED
  BY <1>2, <1>4, <1>5, <1>8, <1>12, <1>13, <1>14, <1>15, <1>16, HelperKeeps
  DEF ThreadInv

-----------------------------------------------------------------------------
(* The caller's steps outside its rows *)

\* Where no frame is being encoded nothing is asked of threads and rows but
\* where the threads are.
LEMMA NotWorking ==
  ASSUME TypeOK', MainInv', ~Working',
         \A t \in Helper : HelperInv(t)' /\ OffInv(t)'
  PROVE  EncodeInv'
BY DEF EncodeInv, ThreadInv, OnInv, AboveInv, RowsInv, AllAboveInv, EndInv, On, Begun

\* When the thread of the last row is past it every row is done.
LEMMA RowsDone ==
  ASSUME EncodeInv, Working, end > 0
  PROVE  /\ end = 1
         /\ \A r \in Row : encoded[r] = Cols /\ current_mb_col[r] = Ready
<1>1. TypeOK /\ RowsInv /\ AllAboveInv /\ EndInv
  BY DEF EncodeInv
<1> DEFINE L == Owner(Rows - 1)
<1>2. end = 1 /\ Begun(L) /\ row[L] >= Rows
  BY <1>1 DEF EndInv
<1>3. L \in Encoder /\ Rows - 1 \in Row /\ RowInv(Rows - 1, L)
  BY <1>1, Sizes, OwnerIs DEF RowsInv
<1> HIDE DEF L
<1>4. encoded[Rows - 1] = Cols /\ current_mb_col[Rows - 1] = Ready
  <2>1. row[L] \in Nat /\ Rows \in Nat
    BY <1>1, <1>3, Sizes DEF TypeOK
  <2>2. Rows - 1 < row[L]
    BY <1>2, <2>1
  <2> QED
    BY <1>2, <1>3, <2>2 DEF RowInv
<1> SUFFICES ASSUME NEW r \in Row
             PROVE  encoded[r] = Cols /\ current_mb_col[r] = Ready
  BY <1>2
<1>5. r = Rows - 1 \/ r < Rows - 1
  BY Sizes
<1>6. CASE r < Rows - 1
  BY <1>1, <1>3, <1>4, <1>6 DEF AllAboveInv
<1> QED
  BY <1>4, <1>5, <1>6

\* Then every thread that has rows has begun the frame, and has no row left.
LEMMA LeavesFrame ==
  ASSUME EncodeInv, Working, end > 0, NEW t \in Helper
  PROVE  /\ t < Rows => start[t] = 0
         /\ at[t] \in {"next", "test", "top", "idle", "exit"}
         /\ at[t] = "next" => row[t] + Threads >= Rows /\ row[t] # Rows - 1
         /\ at[t] = "test" => row[t] >= Rows
<1>1. /\ TypeOK /\ MainInv /\ RowsInv /\ EndInv /\ HelperInv(t) /\ OffInv(t)
      /\ OnInv(t) /\ t \in Encoder /\ t # 0 /\ t \in Nat /\ t <= Helpers
  BY Sizes DEF EncodeInv, ThreadInv
<1>2. end = 1 /\ \A r \in Row : encoded[r] = Cols /\ current_mb_col[r] = Ready
  BY RowsDone
<1>3. /\ Rows \in Nat /\ Threads \in Nat \ {0}
      /\ row[t] \in Nat /\ col[t] \in 0 .. Cols
      /\ start[t] \in Nat /\ Cols \in Nat \ {0} /\ Ready = Cols + NSync
      /\ NSync \in Nat \ {0}
  BY <1>1, Sizes DEF TypeOK, Ready
<1>4. \A r \in Nat : r < Rows => r \in Row
  BY Sizes
<1>5. t < Rows => start[t] = 0
  <2> SUFFICES ASSUME t < Rows, start[t] # 0
               PROVE  FALSE
    OBVIOUS
  <2>1. Owner(t) = t
    BY <1>1, OwnerIs
  <2>2. t \in Row /\ RowInv(t, t)
    BY <1>1, <1>4, <2>1 DEF RowsInv
  <2>3. encoded[t] = 0
    BY <1>1, <2>2 DEF RowInv, Begun
  <2> QED
    BY <1>2, <1>3, <2>2, <2>3
<1>6. CASE ~On(t)
  BY <1>1, <1>5, <1>6 DEF OffInv
<1>7. CASE On(t)
  <2>1. Begun(t)
    BY <1>7 DEF On
  <2>2. \A r \in Nat : r < Rows /\ Owner(r) = t =>
          RowInv(r, t) /\ encoded[r] = Cols /\ current_mb_col[r] = Ready
    BY <1>1, <1>2, <1>4 DEF RowsInv
  <2>3. at[t] \notin {"mb", "spin", "flag"}
    <3> SUFFICES ASSUME at[t] \in {"mb", "spin", "flag"}
                 PROVE  FALSE
      OBVIOUS
    <3>1. Owner(row[t]) = t /\ row[t] < Rows
      BY <1>1, <1>7 DEF OnInv, RowPlaces
    <3>2. RowInv(row[t], t) /\ current_mb_col[row[t]] = Ready
      BY <1>3, <2>2, <3>1
    <3>3. current_mb_col[row[t]] <= col[t]
      BY <1>3, <2>1, <3>2 DEF RowInv
    <3> QED
      BY <1>3, <3>2, <3>3
  <2>4. at[t] = "next" => row[t] + Threads >= Rows /\ row[t] # Rows - 1
    <3> SUFFICES ASSUME at[t] = "next"
                 PROVE  row[t] + Threads >= Rows /\ row[t] # Rows - 1
      OBVIOUS
    <3> DEFINE r == row[t] + Threads
    <3>1. Owner(row[t]) = t /\ row[t] < Rows
      BY <1>1, <1>7 DEF OnInv, RowPlaces
    <3>2. Owner(r) = t
      BY <1>3, <3>1, ModStep DEF Owner
    <3>3. r \in Nat /\ row[t] < r
      BY <1>3
    <3> HIDE DEF r
    <3>4. ~(r < Rows)
      <4> SUFFICES ASSUME r < Rows
                   PROVE  FALSE
        OBVIOUS
      <4>1. encoded[r] = 0 /\ encoded[r] = Cols
        BY <2>2, <3>2, <3>3 DEF RowInv
      <4> QED
        BY <1>3, <4>1
    <3>5. row[t] # Rows - 1
      <4> SUFFICES ASSUME row[t] = Rows - 1
                   PROVE  FALSE
        OBVIOUS
      <4>1. Owner(Rows - 1) = t
        BY <3>1
      <4>2. row[t] >= Rows
        BY <1>1, <1>2, <4>1 DEF EndInv
      <4> QED
        BY <1>3, <3>1, <4>2
    <3> QED
      BY <1>3, <3>3, <3>4, <3>5 DEF r
  <2>5. at[t] = "test" => row[t] >= Rows
    <3> SUFFICES ASSUME at[t] = "test", row[t] < Rows
                 PROVE  FALSE
      BY <1>3
    <3>1. Owner(row[t]) = t
      BY <1>1, <1>7 DEF OnInv, RowPlaces
    <3>2. RowInv(row[t], t) /\ encoded[row[t]] = Cols
      BY <1>3, <2>2, <3>1
    <3> QED
      BY <1>3, <2>1, <3>2 DEF RowInv
  <2> QED
    BY <1>1, <1>5, <2>3, <2>4, <2>5 DEF HelperInv, RowPlaces
<1> QED
  BY <1>6, <1>7

\* The invariant after a step of the caller outside its rows.
LEMMA CallerKeeps ==
  ASSUME EncodeInv, ~Working, ~Working', TypeOK', MainInv', row' = row,
         \A t \in Helper : at'[t] = at[t] /\ HelperInv(t)'
  PROVE  EncodeInv'
<1>1. ASSUME NEW t \in Helper
      PROVE  OffInv(t)'
  <2>1. OffInv(t) /\ ~On(t) /\ ~On(t)'
    BY DEF EncodeInv, On, Begun
  <2> QED
    BY <2>1 DEF OffInv
<1> QED
  BY <1>1, NotWorking

\* The places of the caller inside and between calls, where all threads exist
\* and no frame is being encoded.
Calling == Reading \cup {"app", "copy", "begun", "ended", "level", "pack"}

LEMMA CallInv ==
  ASSUME EncodeInv, at[0] \in Calling, NEW p \in Calling, Goes(0, p),
         UNCHANGED <<rows, life, start, recodes>>,
         lpf_running' \in BOOLEAN, start_lpf' \in Nat, end_lpf' \in Nat,
         level_set' \in BOOLEAN, filtered' \in BOOLEAN
  PROVE  EncodeInv' /\ at'[0] = p /\ at'[Filter] = at[Filter]
<1>1. /\ TypeOK /\ MainInv /\ \A t \in Helper : HelperInv(t)
  BY DEF EncodeInv
<1>2. /\ multi' = multi /\ created' = created /\ joining' = joining
      /\ row' = row /\ col' = col /\ current_mb_col' = current_mb_col
      /\ end' = end /\ encoded' = encoded /\ start' = start /\ recodes' = recodes
      /\ at' = [at EXCEPT ![0] = p]
  BY DEF rows, life, Goes
<1>3. /\ at \in [0 .. Filter -> Place] /\ 0 \in 0 .. Filter /\ p \in Place
      /\ Helper \subseteq 0 .. Filter /\ 0 \notin Helper /\ Filter \in 0 .. Filter
      /\ Filter # 0
  BY <1>1, Sizes DEF TypeOK, Calling, Place
<1>4. /\ at' \in [0 .. Filter -> Place] /\ at'[0] = p /\ at'[Filter] = at[Filter]
      /\ \A t \in Helper : at'[t] = at[t]
  BY <1>2, <1>3
<1>5. TypeOK'
  BY <1>1, <1>2, <1>4 DEF TypeOK
<1>6. ~Working /\ ~Working'
  BY <1>4 DEF Working, Calling, Reading, RowPlaces
<1>7. multi
  BY <1>1 DEF MainInv, Calling, Reading
<1>8. MainInv'
  BY <1>1, <1>2, <1>4, <1>6, <1>7 DEF MainInv, Calling, Reading
<1>9. ASSUME NEW t \in Helper
      PROVE  HelperInv(t)'
  <2>1. HelperInv(t) /\ ~Posted(t)
    BY <1>1, <1>6, <1>7 DEF Posted
  <2>2. at[0] # "create"
    BY DEF Calling, Reading
  <2> QED
    BY <1>2, <1>4, <1>7, <2>1, <2>2 DEF HelperInv
<1> QED
  BY <1>2, <1>4, <1>5, <1>6, <1>8, <1>9, CallerKeeps

LEMMA EndRowsInv ==
  ASSUME EncodeInv, EndRows
  PROVE  EncodeInv' /\ at'[0] = "ended" /\ at'[Filter] = at[Filter]
<1>1. /\ TypeOK /\ MainInv /\ \A t \in Helper : HelperInv(t)
  BY DEF EncodeInv
<1>2. /\ at[0] = "wait" /\ end > 0 /\ end' = end - 1
      /\ multi' = multi /\ created' = created /\ joining' = joining
      /\ lpf_running' = lpf_running /\ start_lpf' = start_lpf /\ end_lpf' = end_lpf
      /\ level_set' = level_set /\ filtered' = filtered /\ recodes' = recodes
      /\ row' = row /\ col' = col /\ current_mb_col' = current_mb_col
      /\ encoded' = encoded /\ start' = start
      /\ at' = [at EXCEPT ![0] = "ended"]
  BY DEF EndRows, life, filter, Goes
<1>3. /\ at \in [0 .. Filter -> Place] /\ 0 \in 0 .. Filter
      /\ Helper \subseteq 0 .. Filter /\ 0 \notin Helper /\ Filter \in 0 .. Filter
      /\ Filter # 0
  BY <1>1, Sizes DEF TypeOK
<1>4. /\ at' \in [0 .. Filter -> Place] /\ at'[0] = "ended"
      /\ at'[Filter] = at[Filter] /\ \A t \in Helper : at'[t] = at[t]
  BY <1>2, <1>3 DEF Place
<1>5. Working /\ ~Working'
  BY <1>2, <1>4 DEF Working, RowPlaces
<1>6. end = 1 /\ end' = 0 /\ \A r \in Row : encoded[r] = Cols
  BY <1>2, <1>5, RowsDone
<1>7. TypeOK'
  BY <1>1, <1>2, <1>4, <1>6 DEF TypeOK
<1>8. multi
  BY <1>1, <1>2 DEF MainInv
<1>9. MainInv'
  BY <1>2, <1>4, <1>6, <1>8 DEF MainInv
<1>10. ASSUME NEW t \in Helper
       PROVE  HelperInv(t)' /\ OffInv(t)'
  <2>1. HelperInv(t)
    BY <1>1
  <2>2. /\ t < Rows => start[t] = 0
        /\ at[t] \in {"next", "test", "top", "idle", "exit"}
        /\ at[t] = "next" => row[t] + Threads >= Rows /\ row[t] # Rows - 1
        /\ at[t] = "test" => row[t] >= Rows
    BY <1>2, <1>5, LeavesFrame
  <2>3. HelperInv(t)'
    BY <1>2, <1>4, <1>8, <2>1, <2>2 DEF HelperInv
  <2>4. OffInv(t)'
    BY <1>2, <1>4, <2>2 DEF OffInv
  <2> QED
    BY <2>3, <2>4
<1> QED
  BY <1>4, <1>5, <1>7, <1>9, <1>10, NotWorking

LEMMA StartRowsInv ==
  ASSUME EncodeInv, at[0] \in {"begun", "ended"}, NEW again \in 0 .. Recodes,
         StartRows(again)
  PROVE  EncodeInv' /\ at'[0] = "test" /\ at'[Filter] = at[Filter]
<1>1. /\ TypeOK /\ MainInv /\ \A t \in Helper : HelperInv(t) /\ OffInv(t)
  BY DEF EncodeInv
<1>2. /\ multi' = multi /\ created' = created /\ joining' = joining
      /\ lpf_running' = lpf_running /\ start_lpf' = start_lpf /\ end_lpf' = end_lpf
      /\ level_set' = level_set /\ filtered' = filtered
      /\ recodes' \in 0 .. Recodes
      /\ row' = [row EXCEPT ![0] = 0] /\ col' = col /\ end' = end
      /\ current_mb_col' = [r \in Row |-> -1]
      /\ encoded' = [r \in Row |-> 0]
      /\ start' = [t \in Helper |-> start[t] + 1]
      /\ at' = [at EXCEPT ![0] = "test"]
  BY DEF StartRows, life, filter, Goes
<1>3. /\ at \in [0 .. Filter -> Place] /\ 0 \in 0 .. Filter
      /\ Helper \subseteq 0 .. Filter /\ 0 \notin Helper /\ Filter \in 0 .. Filter
      /\ Filter # 0 /\ row \in [Encoder -> Nat] /\ start \in [Helper -> Nat]
      /\ 0 \in Encoder /\ Helper \subseteq Encoder
      /\ \A t \in Encoder : t = 0 \/ t \in Helper
      /\ \A t \in Helper : t \in Nat
      /\ Cols \in Nat \ {0} /\ NSync \in Nat \ {0}
  BY <1>1, Sizes DEF TypeOK
<1>4. /\ at' \in [0 .. Filter -> Place] /\ at'[0] = "test"
      /\ at'[Filter] = at[Filter] /\ \A t \in Helper : at'[t] = at[t]
      /\ row' \in [Encoder -> Nat] /\ row'[0] = 0
      /\ \A t \in Helper : row'[t] = row[t]
  BY <1>2, <1>3 DEF Place, RowPlaces
<1>5. /\ start' \in [Helper -> Nat]
      /\ \A t \in Helper : start'[t] = start[t] + 1 /\ start'[t] # 0
  <2>1. \A t \in Helper : start[t] \in Nat /\ start[t] + 1 \in Nat
    BY <1>3
  <2> QED
    BY <1>2, <2>1
<1>6. /\ current_mb_col' \in [Row -> -1 .. Cols + NSync]
      /\ encoded' \in [Row -> 0 .. Cols]
      /\ \A r \in Row : encoded'[r] = 0 /\ current_mb_col'[r] = -1
  <2>1. -1 \in -1 .. Cols + NSync /\ 0 \in 0 .. Cols
    BY <1>3
  <2> QED
    BY <1>2, <2>1
<1>7. ~Working /\ Working' /\ multi /\ end = 0
  BY <1>1, <1>4 DEF Working, RowPlaces, MainInv
<1>8. TypeOK'
  BY <1>1, <1>2, <1>4, <1>5, <1>6 DEF TypeOK
<1>9. MainInv'
  BY <1>2, <1>4, <1>7 DEF MainInv
<1>10. \A t \in Helper : ~On(t) /\ ~Begun(t)' /\ ~On(t)'
  BY <1>3, <1>5, <1>7 DEF On, Begun
<1>11. ASSUME NEW t \in Helper
       PROVE  HelperInv(t)' /\ OffInv(t)'
  <2>1. HelperInv(t) /\ OffInv(t) /\ start[t] \in Nat
    BY <1>1, <1>3
  <2>2. ~Posted(t) /\ Posted(t)' /\ at[0] # "create"
    BY <1>7 DEF Posted
  <2>3. t < Rows => start'[t] <= 1
    BY <1>5, <2>1, <2>2 DEF HelperInv
  <2>4. HelperInv(t)'
    BY <1>2, <1>4, <1>7, <2>1, <2>2, <2>3 DEF HelperInv
  <2>5. OffInv(t)'
    BY <1>4, <1>10, <2>1 DEF OffInv
  <2> QED
    BY <2>4, <2>5
<1>12. \A t \in Encoder : ThreadInv(t)'
  <2>1. ThreadInv(0)'
    <3>1. Owner(0) = 0
      BY Sizes, ZeroMod DEF Owner
    <3> QED
      BY <1>4, <3>1 DEF ThreadInv, OnInv, AboveInv
  <2> QED
    BY <1>3, <1>10, <2>1 DEF ThreadInv, OnInv, AboveInv
<1>13. ASSUME NEW r \in Nat
       PROVE  Begun(Owner(r))' => Owner(r) = 0
  BY <1>3, <1>10, OwnerIs
<1>14. RowsInv'
  <2> SUFFICES ASSUME NEW r \in Row
               PROVE  RowInv(r, Owner(r))'
    BY DEF RowsInv
  <2>1. current_mb_col'[r] = -1 /\ encoded'[r] = 0 /\ r \in Nat
    BY <1>6, Sizes
  <2>2. Begun(Owner(r))' => Owner(r) = 0
    BY <1>13, <2>1
  <2> QED
    BY <1>4, <2>1, <2>2 DEF RowInv
<1>15. AllAboveInv'
  BY <1>3, <1>6 DEF AllAboveInv
<1>16. EndInv'
  <2> DEFINE L == Owner(Rows - 1)
  <2>1. Begun(L)' => L = 0
    BY <1>13, Sizes
  <2> HIDE DEF L
  <2>2. end' = IF Begun(L)' /\ row'[L] >= Rows THEN 1 ELSE 0
    BY <1>2, <1>4, <1>7, <2>1, Sizes
  <2> QED
    BY <2>2 DEF EndInv, L
<1> QED
  BY <1>4, <1>8, <1>9, <1>11, <1>12, <1>14, <1>15, <1>16 DEF EncodeInv

-----------------------------------------------------------------------------
(* Creation and removal *)

\* The invariant after a step of the caller in the creation or removal of the
\* threads, which may start one of them.
LEMMA LifeKeeps ==
  ASSUME EncodeInv, ~Working, ~Working',
         UNCHANGED <<rows, recodes>>,
         lpf_running' \in BOOLEAN, start_lpf' \in Nat, end_lpf' \in Nat,
         level_set' \in BOOLEAN, filtered' \in BOOLEAN,
         multi' \in BOOLEAN, created' \in 0 .. Helpers, joining' \in 0 .. Helpers,
         at' \in [0 .. Filter -> Place], \A t \in Helper : at'[t] = at[t],
         start' \in [Helper -> Nat],
         at'[0] \notin {"top", "idle", "set", "filter", "done", "undo"},
         multi' <=> at'[0] \notin {"undolpf", "join", "joinlpf", "exit"},
         at'[0] \in {"undolpf", "join"} => joining' \in Helper,
         \A t \in Helper : at[t] = "exit" /\ multi' =>
           at'[0] = "create" /\ t > created',
         \A t \in Helper : \/ start'[t] = start[t] /\ (Posted(t) => Posted(t)')
                           \/ /\ start'[t] = start[t] + 1
                              /\ ~Posted(t) /\ Posted(t)'
  PROVE  EncodeInv'
<1>1. /\ TypeOK /\ MainInv /\ \A t \in Helper : HelperInv(t)
  BY DEF EncodeInv
<1>2. /\ row' = row /\ col' = col /\ current_mb_col' = current_mb_col
      /\ end' = end /\ encoded' = encoded /\ recodes' = recodes
  BY DEF rows
<1>3. TypeOK'
  BY <1>1, <1>2 DEF TypeOK
<1>4. MainInv'
  BY <1>1, <1>2 DEF MainInv
<1>5. ASSUME NEW t \in Helper
      PROVE  HelperInv(t)'
  <2>1. HelperInv(t) /\ at'[t] = at[t]
    BY <1>1
  <2>2. start[t] \in Nat
    BY <1>1 DEF TypeOK
  <2>3. t < Rows => start'[t] <= 1 /\ (start'[t] # 0 => Posted(t)')
    BY <2>1, <2>2 DEF HelperInv
  <2>4. at'[t] = "exit" /\ multi' => at'[0] = "create" /\ t > created'
    BY <2>1
  <2>5. at'[t] \in RowPlaces \cup {"top", "idle", "exit"}
    BY <2>1 DEF HelperInv
  <2> HIDE DEF Posted
  <2> QED
    BY <2>3, <2>4, <2>5 DEF HelperInv
<1> QED
  BY <1>2, <1>3, <1>4, <1>5, CallerKeeps

LEMMA CreateThreadInv ==
  ASSUME EncodeInv, CreateThread
  PROVE  EncodeInv' /\ at'[0] = at[0] /\ at'[Filter] = at[Filter]
<1> DEFINE n == created + 1
<1>1. /\ TypeOK /\ MainInv /\ \A t \in Helper : HelperInv(t) /\ OffInv(t)
  BY DEF EncodeInv
<1>2. /\ at[0] = "create" /\ created < Helpers /\ created' = n
      /\ multi' = multi /\ joining' = joining
      /\ lpf_running' = lpf_running /\ start_lpf' = start_lpf /\ end_lpf' = end_lpf
      /\ level_set' = level_set /\ filtered' = filtered /\ recodes' = recodes
      /\ row' = row /\ col' = col /\ current_mb_col' = current_mb_col
      /\ end' = end /\ encoded' = encoded /\ start' = start
      /\ at' = [at EXCEPT ![n] = "top"]
  BY DEF CreateThread, rows, filter, Goes
<1>3. /\ at \in [0 .. Filter -> Place] /\ created \in Nat /\ n \in Helper
      /\ n \in 0 .. Helpers /\ n \in 0 .. Filter /\ n # 0 /\ n # Filter
      /\ 0 \in 0 .. Filter /\ Filter \in 0 .. Filter
      /\ \A t \in Helper : t \in Nat /\ t \in 0 .. Filter
  BY <1>1, <1>2, EncoderSizes DEF TypeOK, Helper, Filter
<1> HIDE DEF n
<1>4. /\ at' \in [0 .. Filter -> Place] /\ at'[n] = "top"
      /\ \A t \in 0 .. Filter : t # n => at'[t] = at[t]
      /\ at'[0] = at[0] /\ at'[Filter] = at[Filter]
  BY <1>2, <1>3 DEF Place
<1>5. ~Working /\ ~Working'
  BY <1>2, <1>4 DEF Working, RowPlaces
<1>6. TypeOK'
  BY <1>1, <1>2, <1>3, <1>4 DEF TypeOK
<1>7. MainInv'
  BY <1>1, <1>2, <1>4, <1>5 DEF MainInv
<1>8. ASSUME NEW t \in Helper
      PROVE  HelperInv(t)' /\ OffInv(t)'
  <2>1. HelperInv(t) /\ OffInv(t) /\ ~On(t) /\ ~On(t)'
    BY <1>1, <1>5 DEF On, Begun
  <2>2. Posted(t)' = Posted(t)
    BY <1>2, <1>4, <1>5 DEF Posted
  <2>3. CASE t = n
    BY <1>2, <1>4, <2>1, <2>2, <2>3 DEF HelperInv, OffInv
  <2>4. CASE t # n
    <3>1. at'[t] = at[t] /\ (t > created => t > created')
      BY <1>2, <1>3, <1>4, <2>4 DEF n
    <3> QED
      BY <1>2, <1>4, <2>1, <2>2, <3>1 DEF HelperInv, OffInv
  <2> QED
    BY <2>3, <2>4
<1> QED
  BY <1>4, <1>5, <1>6, <1>7, <1>8, NotWorking

LEMMA CreateFilterThreadInv ==
  ASSUME EncodeInv, CreateFilterThread
  PROVE  EncodeInv' /\ at'[0] = "app" /\ at'[Filter] = "top"
<1>1. /\ TypeOK /\ MainInv /\ \A t \in Helper : HelperInv(t)
  BY DEF EncodeInv
<1>2. /\ at[0] = "create" /\ created = Helpers
      /\ UNCHANGED <<rows, filter, life, start, recodes>>
      /\ at' = [at EXCEPT ![0] = "app", ![Filter] = "top"]
  BY DEF CreateFilterThread
<1>3. /\ at \in [0 .. Filter -> Place] /\ 0 \in 0 .. Filter
      /\ Filter \in 0 .. Filter /\ Filter # 0 /\ Filter \notin Helper
      /\ 0 \notin Helper /\ Helper \subseteq 0 .. Filter
      /\ "app" \in Place /\ "top" \in Place /\ Helpers \in Nat
      /\ \A t \in Helper : t \in Nat /\ t <= Helpers
  BY <1>1, Sizes DEF TypeOK, Place
<1>4. /\ at' \in [0 .. Filter -> Place] /\ at'[0] = "app" /\ at'[Filter] = "top"
      /\ \A t \in Helper : at'[t] = at[t]
  BY <1>2, <1>3
<1>5. ~Working /\ ~Working' /\ multi
  BY <1>1, <1>2, <1>4 DEF Working, RowPlaces, MainInv
<1>6. /\ multi' = multi /\ created' = created /\ joining' = joining /\ start' = start
      /\ lpf_running' = lpf_running /\ start_lpf' = start_lpf /\ end_lpf' = end_lpf
      /\ level_set' = level_set /\ filtered' = filtered
      /\ UNCHANGED <<rows, recodes>>
  BY <1>2 DEF filter, life
<1>7. /\ multi \in BOOLEAN /\ created \in 0 .. Helpers /\ joining \in 0 .. Helpers
      /\ start \in [Helper -> Nat] /\ lpf_running \in BOOLEAN /\ start_lpf \in Nat
      /\ end_lpf \in Nat /\ level_set \in BOOLEAN /\ filtered \in BOOLEAN
  BY <1>1 DEF TypeOK
<1>8. ASSUME NEW t \in Helper
      PROVE  at[t] # "exit" /\ ~Posted(t)
  <2>1. ~(t > created)
    BY <1>2, <1>3
  <2> QED
    BY <1>1, <1>5, <2>1 DEF HelperInv, Posted
<1>9. EncodeInv'
  BY <1>4, <1>5, <1>6, <1>7, <1>8, LifeKeeps
<1> QED
  BY <1>4, <1>9

\* Where one more thread, or none, is started and joined.
LEMMA Starts ==
  ASSUME TypeOK, NEW n \in Helper, start' = [start EXCEPT ![n] = @ + 1]
  PROVE  /\ start' \in [Helper -> Nat] /\ start'[n] = start[n] + 1
         /\ \A t \in Helper : t # n => start'[t] = start[t]
<1>1. start \in [Helper -> Nat] /\ start[n] + 1 \in Nat
  BY DEF TypeOK
<1> QED
  BY <1>1

LEMMA CallerGoes ==
  ASSUME TypeOK, NEW p \in Place, Goes(0, p)
  PROVE  /\ at' \in [0 .. Filter -> Place] /\ at'[0] = p
         /\ at'[Filter] = at[Filter] /\ \A t \in Helper : at'[t] = at[t]
<1>1. /\ at \in [0 .. Filter -> Place] /\ 0 \in 0 .. Filter
      /\ Filter \in 0 .. Filter /\ Filter # 0
      /\ 0 \notin Helper /\ Helper \subseteq 0 .. Filter
  BY Sizes DEF TypeOK
<1> QED
  BY <1>1 DEF Goes

LEMMA CreationOfFilterFailsInv ==
  ASSUME EncodeInv, CreationOfFilterFails
  PROVE  EncodeInv' /\ at'[0] = "undolpf" /\ at'[Filter] = at[Filter]
<1>1. TypeOK /\ MainInv
  BY DEF EncodeInv
<1>2. /\ at[0] = "create" /\ multi' = FALSE /\ joining' = Helpers
      /\ created' = created /\ start' = [start EXCEPT ![Helpers] = @ + 1]
      /\ Goes(0, "undolpf")
      /\ lpf_running' = lpf_running /\ start_lpf' = start_lpf /\ end_lpf' = end_lpf
      /\ level_set' = level_set /\ filtered' = filtered
      /\ UNCHANGED <<rows, recodes>>
  BY DEF CreationOfFilterFails, filter
<1>3. /\ Helpers \in Helper /\ Helpers \in 0 .. Helpers
      /\ \A t \in Helper : t \in Nat /\ t <= Helpers
  BY EncoderSizes DEF Helper
<1>4. /\ at' \in [0 .. Filter -> Place] /\ at'[0] = "undolpf"
      /\ at'[Filter] = at[Filter] /\ \A t \in Helper : at'[t] = at[t]
  <2>1. "undolpf" \in Place
    BY DEF Place
  <2> QED
    BY <1>1, <1>2, <2>1, CallerGoes
<1>5. ~Working /\ ~Working' /\ multi
  BY <1>1, <1>2, <1>4 DEF Working, RowPlaces, MainInv
<1>6. /\ start' \in [Helper -> Nat] /\ start'[Helpers] = start[Helpers] + 1
      /\ \A t \in Helper : t # Helpers => start'[t] = start[t]
  BY <1>1, <1>2, <1>3, Starts
<1>7. \A t \in Helper : ~Posted(t)
  BY <1>5 DEF Posted
<1>8. Posted(Helpers)'
  BY <1>2, <1>3, <1>4, EncoderSizes DEF Posted
<1>9. /\ multi' \in BOOLEAN /\ created' \in 0 .. Helpers /\ joining' \in 0 .. Helpers
      /\ lpf_running' \in BOOLEAN /\ start_lpf' \in Nat /\ end_lpf' \in Nat
      /\ level_set' \in BOOLEAN /\ filtered' \in BOOLEAN
  BY <1>1, <1>2, <1>3 DEF TypeOK
<1>10. EncodeInv'
  BY <1>2, <1>3, <1>4, <1>5, <1>6, <1>7, <1>8, <1>9, LifeKeeps
<1> QED
  BY <1>4, <1>10

LEMMA UndoFilterJoinInv ==
  ASSUME EncodeInv, UndoFilterJoin
  PROVE  EncodeInv' /\ at'[0] \in {"undolpf", "exit"} /\ at'[Filter] = at[Filter]
<1>1. TypeOK /\ MainInv
  BY DEF EncodeInv
<1>2. /\ at[0] = "undolpf" /\ joining \in Helper /\ ~multi
      /\ joining' = joining - 1 /\ multi' = multi /\ created' = created
      /\ lpf_running' = lpf_running /\ start_lpf' = start_lpf /\ end_lpf' = end_lpf
      /\ level_set' = level_set /\ filtered' = filtered
      /\ UNCHANGED <<rows, recodes>>
  BY <1>1 DEF UndoFilterJoin, filter, MainInv
<1>3. /\ joining \in Nat /\ joining <= Helpers /\ joining - 1 \in 0 .. Helpers
      /\ joining # 1 => joining - 1 \in Helper
      /\ \A t \in Helper : t \in Nat
  BY <1>2, EncoderSizes DEF Helper
<1>4. /\ multi' \in BOOLEAN /\ created' \in 0 .. Helpers /\ joining' \in 0 .. Helpers
      /\ lpf_running' \in BOOLEAN /\ start_lpf' \in Nat /\ end_lpf' \in Nat
      /\ level_set' \in BOOLEAN /\ filtered' \in BOOLEAN
  BY <1>1, <1>2, <1>3 DEF TypeOK
<1>5. ~Working
  BY <1>2 DEF Working, RowPlaces
<1>6. CASE joining = 1
  <2>1. Goes(0, "exit") /\ start' = start
    BY <1>6 DEF UndoFilterJoin
  <2>2. /\ at' \in [0 .. Filter -> Place] /\ at'[0] = "exit"
        /\ at'[Filter] = at[Filter] /\ \A t \in Helper : at'[t] = at[t]
    <3>1. "exit" \in Place
      BY DEF Place
    <3> QED
      BY <1>1, <2>1, <3>1, CallerGoes
  <2>3. ~Working' /\ start' \in [Helper -> Nat]
    BY <1>1, <2>1, <2>2 DEF Working, RowPlaces, TypeOK
  <2>4. \A t \in Helper : Posted(t)'
    BY <1>2, <2>2 DEF Posted
  <2>5. EncodeInv'
    BY <1>2, <1>4, <1>5, <2>1, <2>2, <2>3, <2>4, LifeKeeps
  <2> QED
    BY <2>2, <2>5
<1>7. CASE joining # 1
  <2>1. at' = at /\ start' = [start EXCEPT ![joining - 1] = @ + 1]
    BY <1>7 DEF UndoFilterJoin
  <2>2. /\ start' \in [Helper -> Nat] /\ start'[joining - 1] = start[joining - 1] + 1
        /\ \A t \in Helper : t # joining - 1 => start'[t] = start[t]
    BY <1>1, <1>3, <1>7, <2>1, Starts
  <2>3. \A t \in Helper : Posted(t) => Posted(t)'
    BY <1>2, <1>3, <1>5, <2>1 DEF Posted
  <2>4. \A t \in Helper : t = joining - 1 => ~Posted(t) /\ Posted(t)'
    BY <1>2, <1>3, <1>5, <2>1 DEF Posted
  <2>5. ~Working' /\ at' \in [0 .. Filter -> Place] /\ joining' \in Helper
    BY <1>1, <1>2, <1>3, <1>5, <1>7, <2>1 DEF Working, TypeOK
  <2>6. EncodeInv'
    BY <1>2, <1>4, <1>5, <2>1, <2>2, <2>3, <2>4, <2>5, LifeKeeps
  <2> QED
    BY <1>2, <2>1, <2>6
<1> QED
  BY <1>6, <1>7

LEMMA RemoveThreadsInv ==
  ASSUME EncodeInv, RemoveThreads
  PROVE  EncodeInv' /\ at'[0] = "join" /\ at'[Filter] = at[Filter]
<1>1. TypeOK /\ MainInv
  BY DEF EncodeInv
<1>2. /\ at[0] = "app" /\ multi' = FALSE /\ joining' = 1
      /\ created' = created /\ start' = [start EXCEPT ![1] = @ + 1]
      /\ Goes(0, "join")
      /\ lpf_running' = lpf_running /\ start_lpf' = start_lpf /\ end_lpf' = end_lpf
      /\ level_set' = level_set /\ filtered' = filtered
      /\ UNCHANGED <<rows, recodes>>
  BY DEF RemoveThreads, filter
<1>3. 1 \in Helper /\ 1 \in 0 .. Helpers /\ \A t \in Helper : t \in Nat
  BY EncoderSizes DEF Helper
<1>4. /\ at' \in [0 .. Filter -> Place] /\ at'[0] = "join"
      /\ at'[Filter] = at[Filter] /\ \A t \in Helper : at'[t] = at[t]
  <2>1. "join" \in Place
    BY DEF Place
  <2> QED
    BY <1>1, <1>2, <2>1, CallerGoes
<1>5. ~Working /\ ~Working' /\ multi
  BY <1>1, <1>2, <1>4 DEF Working, RowPlaces, MainInv
<1>6. /\ start' \in [Helper -> Nat] /\ start'[1] = start[1] + 1
      /\ \A t \in Helper : t # 1 => start'[t] = start[t]
  BY <1>1, <1>2, <1>3, Starts
<1>7. \A t \in Helper : ~Posted(t)
  BY <1>5 DEF Posted
<1>8. Posted(1)'
  BY <1>2, <1>4 DEF Posted
<1>9. /\ multi' \in BOOLEAN /\ created' \in 0 .. Helpers /\ joining' \in 0 .. Helpers
      /\ lpf_running' \in BOOLEAN /\ start_lpf' \in Nat /\ end_lpf' \in Nat
      /\ level_set' \in BOOLEAN /\ filtered' \in BOOLEAN
  BY <1>1, <1>2, <1>3 DEF TypeOK
<1>10. EncodeInv'
  BY <1>2, <1>3, <1>4, <1>5, <1>6, <1>7, <1>8, <1>9, LifeKeeps
<1> QED
  BY <1>4, <1>10

LEMMA JoinThreadInv ==
  ASSUME EncodeInv, JoinThread
  PROVE  /\ EncodeInv' /\ at'[Filter] = at[Filter]
         /\ \/ at'[0] = "join" /\ start_lpf' = start_lpf
            \/ at'[0] = "joinlpf" /\ start_lpf' = start_lpf + 1
<1>1. TypeOK /\ MainInv
  BY DEF EncodeInv
<1>2. /\ at[0] = "join" /\ joining \in Helper /\ ~multi
      /\ multi' = multi /\ created' = created
      /\ lpf_running' = lpf_running /\ end_lpf' = end_lpf
      /\ level_set' = level_set /\ filtered' = filtered
      /\ UNCHANGED <<rows, recodes>>
  BY <1>1 DEF JoinThread, MainInv
<1>3. /\ joining \in Nat /\ joining <= Helpers /\ joining \in 0 .. Helpers
      /\ joining # Helpers => joining + 1 \in Helper /\ joining + 1 \in 0 .. Helpers
      /\ \A t \in Helper : t \in Nat /\ t <= Helpers
  BY <1>2, EncoderSizes DEF Helper
<1>4. /\ multi' \in BOOLEAN /\ created' \in 0 .. Helpers
      /\ lpf_running' \in BOOLEAN /\ end_lpf' \in Nat
      /\ level_set' \in BOOLEAN /\ filtered' \in BOOLEAN
      /\ start_lpf \in Nat /\ start_lpf + 1 \in Nat
  BY <1>1, <1>2 DEF TypeOK
<1>5. ~Working
  BY <1>2 DEF Working, RowPlaces
<1>6. CASE joining = Helpers
  <2>1. Goes(0, "joinlpf") /\ start' = start /\ joining' = joining
        /\ start_lpf' = start_lpf + 1
    BY <1>6 DEF JoinThread
  <2>2. /\ at' \in [0 .. Filter -> Place] /\ at'[0] = "joinlpf"
        /\ at'[Filter] = at[Filter] /\ \A t \in Helper : at'[t] = at[t]
    <3>1. "joinlpf" \in Place
      BY DEF Place
    <3> QED
      BY <1>1, <2>1, <3>1, CallerGoes
  <2>3. ~Working' /\ start' \in [Helper -> Nat]
    BY <1>1, <2>1, <2>2 DEF Working, RowPlaces, TypeOK
  <2>4. \A t \in Helper : Posted(t)'
    BY <1>2, <2>2 DEF Posted
  <2>5. EncodeInv'
    BY <1>2, <1>3, <1>4, <1>5, <2>1, <2>2, <2>3, <2>4, LifeKeeps
  <2> QED
    BY <2>1, <2>2, <2>5
<1>7. CASE joining # Helpers
  <2>1. /\ at' = at /\ start' = [start EXCEPT ![joining + 1] = @ + 1]
        /\ joining' = joining + 1 /\ start_lpf' = start_lpf
    BY <1>7 DEF JoinThread
  <2>2. /\ start' \in [Helper -> Nat] /\ start'[joining + 1] = start[joining + 1] + 1
        /\ \A t \in Helper : t # joining + 1 => start'[t] = start[t]
    BY <1>1, <1>3, <1>7, <2>1, Starts
  <2>3. \A t \in Helper : Posted(t) => Posted(t)'
    BY <1>2, <1>3, <1>5, <2>1 DEF Posted
  <2>4. \A t \in Helper : t = joining + 1 => ~Posted(t) /\ Posted(t)'
    BY <1>2, <1>3, <1>5, <2>1 DEF Posted
  <2>5. /\ ~Working' /\ at' \in [0 .. Filter -> Place] /\ joining' \in Helper
        /\ joining' \in 0 .. Helpers /\ start_lpf' \in Nat
    BY <1>1, <1>3, <1>4, <1>5, <1>7, <2>1 DEF Working, TypeOK
  <2>6. EncodeInv'
    BY <1>2, <1>4, <1>5, <2>1, <2>2, <2>3, <2>4, <2>5, LifeKeeps
  <2> QED
    BY <1>2, <2>1, <2>6
<1> QED
  BY <1>6, <1>7

LEMMA JoinFilterInv ==
  ASSUME EncodeInv, JoinFilter
  PROVE  EncodeInv' /\ at'[0] = "exit" /\ at'[Filter] = at[Filter]
<1>1. TypeOK /\ MainInv
  BY DEF EncodeInv
<1>2. /\ at[0] = "joinlpf" /\ ~multi /\ Goes(0, "exit")
      /\ multi' = multi /\ created' = created /\ joining' = joining /\ start' = start
      /\ lpf_running' = lpf_running /\ start_lpf' = start_lpf /\ end_lpf' = end_lpf
      /\ level_set' = level_set /\ filtered' = filtered
      /\ UNCHANGED <<rows, recodes>>
  BY <1>1 DEF JoinFilter, filter, life, MainInv
<1>3. /\ at' \in [0 .. Filter -> Place] /\ at'[0] = "exit"
      /\ at'[Filter] = at[Filter] /\ \A t \in Helper : at'[t] = at[t]
  <2>1. "exit" \in Place
    BY DEF Place
  <2> QED
    BY <1>1, <1>2, <2>1, CallerGoes
<1>4. ~Working /\ ~Working' /\ \A t \in Helper : Posted(t)'
  BY <1>2, <1>3 DEF Working, RowPlaces, Posted
<1>5. /\ multi \in BOOLEAN /\ created \in 0 .. Helpers /\ joining \in 0 .. Helpers
      /\ start \in [Helper -> Nat] /\ lpf_running \in BOOLEAN /\ start_lpf \in Nat
      /\ end_lpf \in Nat /\ level_set \in BOOLEAN /\ filtered \in BOOLEAN
  BY <1>1 DEF TypeOK
<1>6. EncodeInv'
  BY <1>2, <1>3, <1>4, <1>5, LifeKeeps
<1> QED
  BY <1>3, <1>6

-----------------------------------------------------------------------------
(* The filter thread *)

\* The invariant of the filter thread after a step that leaves it alone.
LEMMA FilterStays ==
  ASSUME FilterInv, UNCHANGED filter, multi' = multi, at'[Filter] = at[Filter],
         \/ at'[0] = at[0]
         \/ /\ at[0] \in RowPlaces \cup {"wait", "begun", "ended"}
            /\ at'[0] \in RowPlaces \cup {"wait", "begun", "ended"}
  PROVE  FilterInv'
<1>1. /\ lpf_running' = lpf_running /\ start_lpf' = start_lpf /\ end_lpf' = end_lpf
      /\ level_set' = level_set /\ filtered' = filtered
  BY DEF filter
<1>2. CASE at'[0] = at[0]
  BY <1>1, <1>2 DEF FilterInv, LevelInv, PictureInv
<1>3. CASE /\ at[0] \in RowPlaces \cup {"wait", "begun", "ended"}
           /\ at'[0] \in RowPlaces \cup {"wait", "begun", "ended"}
  BY <1>1, <1>3 DEF FilterInv, RowPlaces
<1> QED
  BY <1>2, <1>3

\* The threads that encode know nothing of the filter's steps.
LEMMA FilterAside ==
  ASSUME EncodeInv, NEW p \in Place, Goes(Filter, p),
         UNCHANGED <<rows, life, start, recodes>>,
         lpf_running' \in BOOLEAN, start_lpf' \in Nat, end_lpf' \in Nat,
         level_set' \in BOOLEAN, filtered' \in BOOLEAN
  PROVE  EncodeInv' /\ at'[0] = at[0] /\ at'[Filter] = p /\ multi' = multi
<1>1. /\ TypeOK /\ MainInv /\ RowsInv /\ AllAboveInv /\ EndInv
      /\ \A u \in Helper : HelperInv(u) /\ OffInv(u)
      /\ \A u \in Encoder : OnInv(u) /\ AboveInv(u)
  BY DEF EncodeInv, ThreadInv
<1>2. /\ multi' = multi /\ created' = created /\ joining' = joining
      /\ row' = row /\ col' = col /\ current_mb_col' = current_mb_col
      /\ end' = end /\ encoded' = encoded /\ start' = start /\ recodes' = recodes
      /\ at' = [at EXCEPT ![Filter] = p]
  BY DEF rows, life, Goes
<1>3. /\ at \in [0 .. Filter -> Place] /\ Encoder \subseteq 0 .. Filter
      /\ Filter \in 0 .. Filter /\ Filter \notin Encoder /\ 0 \in Encoder
      /\ Helper \subseteq Encoder /\ 0 \notin Helper
  BY <1>1, Sizes DEF TypeOK
<1>4. /\ at' \in [0 .. Filter -> Place] /\ at'[Filter] = p /\ at'[0] = at[0]
      /\ \A u \in Encoder : at'[u] = at[u]
  BY <1>2, <1>3
<1>5. TypeOK'
  BY <1>1, <1>2, <1>4 DEF TypeOK
<1>6. Working' = Working
  BY <1>4 DEF Working
<1>7. MainInv'
  BY <1>1, <1>2, <1>4, <1>6 DEF MainInv
<1>8. ASSUME NEW u \in Encoder
      PROVE  /\ Begun(u)' = Begun(u) /\ On(u)' = On(u)
             /\ u # 0 => HelperInv(u)' /\ OffInv(u)'
             /\ OnInv(u)' /\ AboveInv(u)'
  <2>1. /\ u # 0 => HelperInv(u) /\ OffInv(u)
        /\ OnInv(u) /\ AboveInv(u) /\ start'[u] = start[u]
        /\ at'[u] = at[u] /\ row'[u] = row[u] /\ col'[u] = col[u]
    BY <1>1, <1>2, <1>4, Sizes
  <2>2. /\ Begun(u)' = Begun(u) /\ On(u)' = On(u)
        /\ u # 0 => HelperInv(u)' /\ OffInv(u)'
        /\ OnInv(u)'
    BY <1>2, <1>4, <1>6, <2>1, OthersStay
  <2>3. \A r \in Row : current_mb_col'[r] >= current_mb_col[r]
    BY <1>1, <1>2, Sizes DEF TypeOK
  <2>4. AboveInv(u)'
    BY <1>1, <1>5, <2>1, <2>2, <2>3, AboveStays
  <2> QED
    BY <2>2, <2>4
<1>9. RowsInv'
  <2> SUFFICES ASSUME Working, NEW r \in Row
               PROVE  RowInv(r, Owner(r))'
    BY <1>6 DEF RowsInv
  <2> DEFINE u == Owner(r)
  <2>1. u \in Encoder /\ RowInv(r, u)
    BY <1>1, Sizes, OwnerIs DEF RowsInv
  <2>2. Begun(u)' = Begun(u) /\ at'[u] = at[u]
    BY <1>4, <1>8, <2>1
  <2> HIDE DEF u
  <2>3. RowInv(r, u)'
    BY <1>2, <2>1, <2>2, RowStays
  <2> QED
    BY <2>3 DEF u
<1>10. AllAboveInv' /\ EndInv'
  BY <1>1, <1>2, <1>6, AllAboveStays, EndStays
<1> QED
  BY <1>2, <1>3, <1>4, <1>5, <1>7, <1>8, <1>9, <1>10 DEF EncodeInv, ThreadInv

LEMMA FilterTopInv ==
  ASSUME IInv, FilterTop
  PROVE  IInv'
<1>1. TypeOK /\ MainInv /\ EncodeInv /\ FilterInv
  BY DEF IInv, EncodeInv
<1>2. /\ at[Filter] = "top" /\ Goes(Filter, IF multi THEN "idle" ELSE "exit")
      /\ UNCHANGED <<rows, life, start, recodes>>
      /\ lpf_running' = lpf_running /\ start_lpf' = start_lpf /\ end_lpf' = end_lpf
      /\ level_set' = level_set /\ filtered' = filtered
  BY DEF FilterTop, filter
<1>3. /\ EncodeInv' /\ at'[0] = at[0] /\ multi' = multi
      /\ at'[Filter] = IF multi THEN "idle" ELSE "exit"
  <2>1. (IF multi THEN "idle" ELSE "exit") \in Place
    BY DEF Place
  <2> QED
    BY <1>1, <1>2, <2>1, FilterAside DEF TypeOK
<1>4. FilterInv'
  BY <1>1, <1>2, <1>3 DEF MainInv, FilterInv, LevelInv, PictureInv
<1> QED
  BY <1>3, <1>4 DEF IInv

LEMMA FilterStartInv ==
  ASSUME IInv, FilterStart
  PROVE  IInv'
<1>1. TypeOK /\ MainInv /\ EncodeInv /\ FilterInv
  BY DEF IInv, EncodeInv
<1>2. /\ at[Filter] = "idle" /\ start_lpf > 0 /\ start_lpf' = start_lpf - 1
      /\ Goes(Filter, IF multi THEN "set" ELSE "exit")
      /\ UNCHANGED <<rows, life, start, recodes>>
      /\ lpf_running' = lpf_running /\ end_lpf' = end_lpf
      /\ level_set' = level_set /\ filtered' = filtered
  BY DEF FilterStart
<1>3. start_lpf \in Nat /\ start_lpf = 1 /\ start_lpf' = 0
  BY <1>1, <1>2 DEF TypeOK, FilterInv
<1>4. /\ EncodeInv' /\ at'[0] = at[0] /\ multi' = multi
      /\ at'[Filter] = IF multi THEN "set" ELSE "exit"
  <2>1. (IF multi THEN "set" ELSE "exit") \in Place
    BY DEF Place
  <2> QED
    BY <1>1, <1>2, <1>3, <2>1, FilterAside DEF TypeOK
<1>5. CASE multi
  <2>1. at[0] = "level"
    BY <1>1, <1>3, <1>5 DEF MainInv, FilterInv
  <2> QED
    BY <1>1, <1>2, <1>3, <1>4, <1>5, <2>1 DEF IInv, FilterInv, LevelInv
<1>6. CASE ~multi
  <2>1. at[0] \in {"joinlpf", "exit"}
    BY <1>1, <1>3, <1>6 DEF MainInv, FilterInv
  <2> QED
    BY <1>1, <1>2, <1>3, <1>4, <1>6, <2>1 DEF IInv, FilterInv, PictureInv
<1> QED
  BY <1>5, <1>6

LEMMA SetLevelInv ==
  ASSUME IInv, SetLevel
  PROVE  IInv'
<1>1. TypeOK /\ EncodeInv /\ FilterInv
  BY DEF IInv, EncodeInv
<1>2. /\ at[Filter] = "set" /\ level_set' = TRUE /\ end_lpf' = end_lpf + 1
      /\ Goes(Filter, "filter")
      /\ UNCHANGED <<rows, life, start, recodes>>
      /\ lpf_running' = lpf_running /\ start_lpf' = start_lpf
      /\ filtered' = filtered
  BY DEF SetLevel
<1>3. at[0] = "level" /\ lpf_running /\ start_lpf = 0 /\ end_lpf = 0
  BY <1>1, <1>2 DEF FilterInv, LevelInv, PictureInv
<1>4. EncodeInv' /\ at'[0] = at[0] /\ multi' = multi /\ at'[Filter] = "filter"
  <2>1. "filter" \in Place
    BY DEF Place
  <2> QED
    BY <1>1, <1>2, <1>3, <2>1, FilterAside DEF TypeOK
<1>5. FilterInv'
  BY <1>2, <1>3, <1>4 DEF FilterInv, LevelInv
<1> QED
  BY <1>4, <1>5 DEF IInv

LEMMA FilterPictureInv ==
  ASSUME IInv, FilterPicture
  PROVE  IInv'
<1>1. TypeOK /\ EncodeInv /\ FilterInv
  BY DEF IInv, EncodeInv
<1>2. /\ at[Filter] = "filter" /\ filtered' = TRUE /\ Goes(Filter, "done")
      /\ UNCHANGED <<rows, life, start, recodes>>
      /\ lpf_running' = lpf_running /\ start_lpf' = start_lpf /\ end_lpf' = end_lpf
      /\ level_set' = level_set
  BY DEF FilterPicture
<1>3. EncodeInv' /\ at'[0] = at[0] /\ multi' = multi /\ at'[Filter] = "done"
  <2>1. "done" \in Place
    BY DEF Place
  <2> QED
    BY <1>1, <1>2, <2>1, FilterAside DEF TypeOK
<1>4. FilterInv'
  BY <1>1, <1>2, <1>3 DEF FilterInv, LevelInv, PictureInv
<1> QED
  BY <1>3, <1>4 DEF IInv

LEMMA EndFilterInv ==
  ASSUME IInv, EndFilter
  PROVE  IInv'
<1>1. TypeOK /\ EncodeInv /\ FilterInv
  BY DEF IInv, EncodeInv
<1>2. /\ at[Filter] = "done" /\ end_lpf' = end_lpf + 1 /\ Goes(Filter, "top")
      /\ UNCHANGED <<rows, life, start, recodes>>
      /\ lpf_running' = lpf_running /\ start_lpf' = start_lpf
      /\ level_set' = level_set /\ filtered' = filtered
  BY DEF EndFilter
<1>3. end_lpf \in Nat /\ end_lpf + 1 \in Nat
  BY <1>1 DEF TypeOK
<1>4. EncodeInv' /\ at'[0] = at[0] /\ multi' = multi /\ at'[Filter] = "top"
  <2>1. "top" \in Place
    BY DEF Place
  <2> QED
    BY <1>1, <1>2, <1>3, <2>1, FilterAside DEF TypeOK
<1>5. FilterInv'
  BY <1>1, <1>2, <1>4 DEF FilterInv, LevelInv, PictureInv
<1> QED
  BY <1>4, <1>5 DEF IInv

\* Whoever waits for the filter thread finds the picture filtered.
LEMMA WaitForFilterInv ==
  ASSUME IInv, NEW then \in Reading \cup {"app", "begun"},
         at[0] \in {"app", "pack"}, WaitForFilter(then)
  PROVE  IInv'
<1>1. TypeOK /\ MainInv /\ EncodeInv /\ FilterInv
  BY DEF IInv, EncodeInv
<1>2. /\ Goes(0, then) /\ UNCHANGED <<rows, life, start, recodes>>
      /\ multi' = multi /\ start_lpf' = start_lpf
      /\ level_set' = level_set /\ filtered' = filtered
  BY DEF WaitForFilter, life
<1>3. /\ ~lpf_running' /\ lpf_running' \in BOOLEAN
      /\ end_lpf' = 0 /\ end_lpf' \in Nat
      /\ filtered /\ at[Filter] \in {"top", "idle", "exit"}
  <2>1. CASE lpf_running
    <3>1. end_lpf > 0 /\ end_lpf' = end_lpf - 1 /\ lpf_running' = FALSE
      BY <2>1 DEF WaitForFilter
    <3>2. PictureInv
      BY <1>1, <2>1 DEF FilterInv
    <3>3. end_lpf = 1 /\ filtered /\ at[Filter] \in {"top", "idle", "exit"}
      BY <3>1, <3>2 DEF PictureInv
    <3>4. lpf_running' \in BOOLEAN /\ ~lpf_running'
      BY <3>1
    <3>5. end_lpf' = 0
      BY <3>1, <3>3
    <3> QED
      BY <3>3, <3>4, <3>5
  <2>2. CASE ~lpf_running
    <3>1. end_lpf' = end_lpf /\ lpf_running' = lpf_running
      BY <2>2 DEF WaitForFilter
    <3> QED
      BY <1>1, <2>2, <3>1 DEF TypeOK, FilterInv
  <2> QED
    BY <2>1, <2>2
<1>4. EncodeInv' /\ at'[0] = then /\ at'[Filter] = at[Filter]
  <2>1. then \in Calling /\ at[0] \in Calling
    BY DEF Calling
  <2> QED
    BY <1>1, <1>2, <1>3, <2>1, CallInv DEF TypeOK
<1>5. multi /\ start_lpf = 0 /\ at[Filter] # "exit"
  BY <1>1 DEF MainInv, FilterInv
<1>6. FilterInv'
  BY <1>2, <1>3, <1>4, <1>5 DEF FilterInv, Reading
<1> QED
  BY <1>4, <1>6 DEF IInv

LEMMA ReadingInv ==
  ASSUME IInv, ReadPicture \/ CopyReference
  PROVE  IInv'
<1>1. TypeOK /\ EncodeInv /\ FilterInv
  BY DEF IInv, EncodeInv
<1>2. PICK p \in {"app", "copy"} :
        /\ Goes(0, p) /\ at[0] \in Reading \cup {"copy", "app"}
        /\ UNCHANGED <<rows, life, filter, start, recodes>>
  BY DEF ReadPicture, CopyReference
<1>3. /\ lpf_running' = lpf_running /\ start_lpf' = start_lpf /\ end_lpf' = end_lpf
      /\ level_set' = level_set /\ filtered' = filtered /\ multi' = multi
  BY <1>2 DEF filter, life
<1>4. EncodeInv' /\ at'[0] = p /\ at'[Filter] = at[Filter]
  <2>1. p \in Calling /\ at[0] \in Calling
    BY <1>2 DEF Calling
  <2> QED
    BY <1>1, <1>2, <1>3, <2>1, CallInv DEF TypeOK
<1>5. FilterInv'
  BY <1>1, <1>2, <1>3, <1>4 DEF FilterInv, PictureInv, Reading
<1> QED
  BY <1>4, <1>5 DEF IInv

LEMMA StartFilterInv ==
  ASSUME IInv, StartFilter
  PROVE  IInv'
<1>1. TypeOK /\ MainInv /\ EncodeInv /\ FilterInv
  BY DEF IInv, EncodeInv
<1>2. /\ at[0] = "ended" /\ start_lpf' = start_lpf + 1 /\ lpf_running' = TRUE
      /\ level_set' = FALSE /\ filtered' = FALSE /\ end_lpf' = end_lpf
      /\ Goes(0, "level") /\ UNCHANGED <<rows, life, start, recodes>>
      /\ multi' = multi
  BY DEF StartFilter, life
<1>3. multi /\ ~lpf_running /\ start_lpf = 0 /\ end_lpf = 0
  BY <1>1, <1>2 DEF MainInv, FilterInv
<1>4. EncodeInv' /\ at'[0] = "level" /\ at'[Filter] = at[Filter]
  <2>1. "level" \in Calling /\ at[0] \in Calling
    BY <1>2 DEF Calling
  <2>2. /\ lpf_running' \in BOOLEAN /\ start_lpf' \in Nat /\ end_lpf' \in Nat
        /\ level_set' \in BOOLEAN /\ filtered' \in BOOLEAN
    <3>1. start_lpf' \in Nat /\ end_lpf' \in Nat
      BY <1>2, <1>3
    <3>2. lpf_running' \in BOOLEAN
      BY <1>2
    <3>3. level_set' \in BOOLEAN /\ filtered' \in BOOLEAN
      BY <1>2
    <3> QED
      BY <3>1, <3>2, <3>3
  <2> QED
    BY <1>1, <1>2, <2>1, <2>2, CallInv
<1>5. at[Filter] \in {"top", "idle"}
  BY <1>1, <1>2, <1>3 DEF FilterInv
<1>6. FilterInv'
  BY <1>2, <1>3, <1>4, <1>5 DEF FilterInv, LevelInv
<1> QED
  BY <1>4, <1>6 DEF IInv

LEMMA WaitForLevelInv ==
  ASSUME IInv, WaitForLevel
  PROVE  IInv'
<1>1. TypeOK /\ EncodeInv /\ FilterInv
  BY DEF IInv, EncodeInv
<1>2. /\ at[0] = "level" /\ end_lpf > 0 /\ end_lpf' = end_lpf - 1
      /\ Goes(0, "pack") /\ UNCHANGED <<rows, life, start, recodes>>
      /\ lpf_running' = lpf_running /\ start_lpf' = start_lpf
      /\ level_set' = level_set /\ filtered' = filtered /\ multi' = multi
  BY DEF WaitForLevel, life
<1>3. LevelInv /\ lpf_running /\ end_lpf \in Nat /\ end_lpf - 1 \in Nat
  BY <1>1, <1>2 DEF FilterInv, TypeOK
<1>4. EncodeInv' /\ at'[0] = "pack" /\ at'[Filter] = at[Filter]
  <2>1. "pack" \in Calling /\ at[0] \in Calling
    BY <1>2 DEF Calling
  <2> QED
    BY <1>1, <1>2, <1>3, <2>1, CallInv DEF TypeOK
<1>5. PictureInv' /\ start_lpf = 0
  BY <1>2, <1>3, <1>4 DEF LevelInv, PictureInv
<1>6. FilterInv'
  BY <1>1, <1>2, <1>3, <1>4, <1>5 DEF FilterInv
<1> QED
  BY <1>4, <1>6 DEF IInv

LEMMA PackInv ==
  ASSUME IInv, Pack
  PROVE  IInv'
<1>1. TypeOK /\ EncodeInv /\ FilterInv
  BY DEF IInv, EncodeInv
<1>2. CASE at[0] = "pack" /\ WaitForFilter("psnr")
  BY <1>2, WaitForFilterInv DEF Reading
<1>3. CASE /\ at[0] = "pack" /\ Goes(0, "app")
           /\ UNCHANGED <<rows, life, filter, start, recodes>>
  <2>1. /\ lpf_running' = lpf_running /\ start_lpf' = start_lpf
        /\ end_lpf' = end_lpf /\ level_set' = level_set
        /\ filtered' = filtered /\ multi' = multi
    BY <1>3 DEF filter, life
  <2>2. EncodeInv' /\ at'[0] = "app" /\ at'[Filter] = at[Filter]
    <3>1. "app" \in Calling /\ at[0] \in Calling
      BY <1>3 DEF Calling
    <3> QED
      BY <1>1, <1>3, <2>1, <3>1, CallInv DEF TypeOK
  <2>3. FilterInv'
    BY <1>1, <1>3, <2>1, <2>2 DEF FilterInv, PictureInv
  <2> QED
    BY <2>2, <2>3 DEF IInv
<1> QED
  BY <1>2, <1>3 DEF Pack

-----------------------------------------------------------------------------
(* The invariant *)

LEMMA InitInv == Init => IInv
<1> SUFFICES ASSUME Init
             PROVE  IInv
  OBVIOUS
<1>1. /\ multi = TRUE /\ lpf_running = FALSE
      /\ at = [t \in 0 .. Filter |-> IF t = 0 THEN "create" ELSE "exit"]
      /\ row = [t \in Encoder |-> t] /\ col = [t \in Encoder |-> 0]
      /\ current_mb_col = [r \in Row |-> -1]
      /\ start = [t \in Helper |-> 0] /\ end = 0
      /\ start_lpf = 0 /\ end_lpf = 0 /\ created = 0 /\ joining = 0
      /\ recodes = 0 /\ encoded = [r \in Row |-> Cols]
      /\ level_set = FALSE /\ filtered = TRUE
  BY DEF Init
<1>2. /\ 0 \in 0 .. Filter /\ Filter \in 0 .. Filter /\ Filter # 0
      /\ 0 \in Encoder /\ Helper \subseteq 0 .. Filter /\ 0 \notin Helper
      /\ \A t \in Encoder : t \in Nat
      /\ \A t \in Helper : t > 0
      /\ 0 \in 0 .. Helpers /\ 0 \in 0 .. Recodes
      /\ 0 \in 0 .. Cols /\ Cols \in 0 .. Cols /\ -1 \in -1 .. Cols + NSync
  BY Sizes, EncoderSizes DEF Helper
<1>3. /\ at \in [0 .. Filter -> Place] /\ at[0] = "create" /\ at[Filter] = "exit"
      /\ \A t \in Helper : at[t] = "exit"
  BY <1>1, <1>2 DEF Place
<1>4. TypeOK
  BY <1>1, <1>2, <1>3 DEF TypeOK
<1>5. ~Working
  BY <1>3 DEF Working, RowPlaces
<1>6. MainInv
  BY <1>1, <1>3, <1>5 DEF MainInv
<1>7. ASSUME NEW t \in Helper
      PROVE  HelperInv(t) /\ OffInv(t)
  <2>1. at[t] = "exit" /\ start[t] = 0 /\ t > created
    BY <1>1, <1>2, <1>3
  <2> QED
    BY <1>3, <2>1 DEF HelperInv, OffInv
<1>8. EncodeInv
  BY <1>4, <1>5, <1>6, <1>7
  DEF EncodeInv, ThreadInv, OnInv, AboveInv, RowsInv, AllAboveInv, EndInv, On, Begun
<1>9. FilterInv
  BY <1>1, <1>3 DEF FilterInv
<1> QED
  BY <1>8, <1>9 DEF IInv

\* A step of a thread that encodes.
LEMMA EncoderStepInv ==
  ASSUME IInv, NEW t \in Encoder,
         RowStep(t) \/ (t \in Helper /\ (ThreadTop(t) \/ ThreadStart(t)))
  PROVE  IInv'
<1>1. EncodeInv /\ FilterInv /\ TypeOK
  BY DEF IInv, EncodeInv
<1>2. EncodeInv'
  BY <1>1, RowStepInv, ThreadTopInv, ThreadStartInv
<1>3. /\ at \in [0 .. Filter -> Place] /\ Filter \in 0 .. Filter
      /\ 0 \in 0 .. Filter /\ t \in 0 .. Filter /\ t # Filter /\ 0 \notin Helper
  BY <1>1, Sizes DEF TypeOK
<1>4. PICK p \in RowPlaces \cup {"wait", "top", "idle", "exit"} :
        /\ at' = [at EXCEPT ![t] = p]
        /\ t = 0 => at[0] \in RowPlaces /\ p \in RowPlaces \cup {"wait"}
  <2>1. CASE TestRow(t)
    BY <2>1 DEF TestRow, Goes, RowPlaces
  <2>2. CASE StartMb(t) \/ FlagRow(t) \/ NextRow(t)
    BY <2>2 DEF StartMb, FlagRow, NextRow, Goes, RowPlaces
  <2>3. CASE EncodeMb(t)
    BY <2>3 DEF EncodeMb, Goes, RowPlaces
  <2>4. CASE t \in Helper /\ (ThreadTop(t) \/ ThreadStart(t))
    BY <1>3, <2>4 DEF ThreadTop, ThreadStart, Goes, RowPlaces
  <2> QED
    BY <2>1, <2>2, <2>3, <2>4 DEF RowStep
<1>5. /\ at'[Filter] = at[Filter]
      /\ \/ at'[0] = at[0]
         \/ /\ at[0] \in RowPlaces \cup {"wait", "begun", "ended"}
            /\ at'[0] \in RowPlaces \cup {"wait", "begun", "ended"}
  BY <1>3, <1>4
<1>6. UNCHANGED filter /\ multi' = multi
  BY DEF RowStep, TestRow, StartMb, EncodeMb, FlagRow, NextRow, ThreadTop,
         ThreadStart, life
<1>7. FilterInv'
  BY <1>1, <1>5, <1>6, FilterStays
<1> QED
  BY <1>2, <1>7 DEF IInv

\* A step of the caller that starts a frame's rows or ends them.
LEMMA FrameStepInv ==
  ASSUME IInv, EncodeFrame \/ EndRows \/ EncodeAgain
  PROVE  IInv'
<1>1. EncodeInv /\ FilterInv /\ TypeOK
  BY DEF IInv, EncodeInv
<1>2. CASE EndRows
  <2>1. EncodeInv' /\ at'[0] = "ended" /\ at'[Filter] = at[Filter]
    BY <1>1, <1>2, EndRowsInv
  <2>2. at[0] = "wait" /\ UNCHANGED filter /\ multi' = multi
    BY <1>2 DEF EndRows, life
  <2> QED
    BY <1>1, <2>1, <2>2, FilterStays DEF IInv
<1>3. ASSUME NEW again \in 0 .. Recodes, at[0] \in {"begun", "ended"},
             StartRows(again)
      PROVE  IInv'
  <2>1. EncodeInv' /\ at'[0] = "test" /\ at'[Filter] = at[Filter]
    BY <1>1, <1>3, StartRowsInv
  <2>2. UNCHANGED filter /\ multi' = multi
    BY <1>3 DEF StartRows, life
  <2> QED
    BY <1>1, <1>3, <2>1, <2>2, FilterStays DEF IInv, RowPlaces
<1>4. CASE EncodeFrame
  BY <1>3, <1>4, EncoderSizes DEF EncodeFrame
<1>5. CASE EncodeAgain
  <2>1. recodes - 1 \in 0 .. Recodes
    BY <1>1, <1>5, EncoderSizes DEF EncodeAgain, TypeOK
  <2> QED
    BY <1>3, <1>5, <2>1 DEF EncodeAgain
<1> QED
  BY <1>2, <1>4, <1>5

\* A step of the caller in the creation of the threads.
LEMMA CreationInv ==
  ASSUME IInv, \/ CreateThread \/ CreateFilterThread
               \/ CreationOfFilterFails \/ UndoFilterJoin
  PROVE  IInv'
<1>1. EncodeInv /\ FilterInv /\ MainInv
  BY DEF IInv, EncodeInv
<1>2. CASE CreateThread
  <2>1. UNCHANGED filter /\ multi' = multi
    BY <1>2 DEF CreateThread
  <2> QED
    BY <1>1, <1>2, <2>1, CreateThreadInv, FilterStays DEF IInv
<1>3. CASE CreateFilterThread
  <2>1. EncodeInv' /\ at'[0] = "app" /\ at'[Filter] = "top" /\ at[0] = "create"
    BY <1>1, <1>3, CreateFilterThreadInv DEF CreateFilterThread
  <2>2. /\ lpf_running' = lpf_running /\ start_lpf' = start_lpf
        /\ end_lpf' = end_lpf /\ filtered' = filtered
    BY <1>3 DEF CreateFilterThread, filter
  <2>3. FilterInv'
    BY <1>1, <2>1, <2>2 DEF FilterInv
  <2> QED
    BY <2>1, <2>3 DEF IInv
<1>4. CASE CreationOfFilterFails \/ UndoFilterJoin
  <2>1. /\ EncodeInv' /\ at'[0] \in {"undolpf", "exit"}
        /\ at'[Filter] = at[Filter] /\ at[0] \in {"create", "undolpf"} /\ ~multi'
    <3>1. CASE CreationOfFilterFails
      BY <1>1, <3>1, CreationOfFilterFailsInv DEF CreationOfFilterFails
    <3>2. CASE UndoFilterJoin
      <4>1. at[0] = "undolpf" /\ multi' = multi /\ ~multi
        BY <1>1, <3>2 DEF UndoFilterJoin, MainInv
      <4> QED
        BY <1>1, <3>2, <4>1, UndoFilterJoinInv
    <3> QED
      BY <1>4, <3>1, <3>2
  <2>2. /\ lpf_running' = lpf_running /\ start_lpf' = start_lpf
        /\ end_lpf' = end_lpf /\ filtered' = filtered
    BY <1>4 DEF CreationOfFilterFails, UndoFilterJoin, filter
  <2>3. FilterInv'
    BY <1>1, <2>1, <2>2 DEF FilterInv
  <2> QED
    BY <2>1, <2>3 DEF IInv
<1> QED
  BY <1>2, <1>3, <1>4

\* A step of the caller in their removal.
LEMMA RemovalInv ==
  ASSUME IInv, RemoveThreads \/ JoinThread \/ JoinFilter
  PROVE  IInv'
<1>1. EncodeInv /\ FilterInv /\ MainInv
  BY DEF IInv, EncodeInv
<1>2. CASE RemoveThreads
  <2>1. /\ EncodeInv' /\ at'[0] = "join" /\ at'[Filter] = at[Filter]
        /\ at[0] = "app" /\ ~multi'
    BY <1>1, <1>2, RemoveThreadsInv DEF RemoveThreads
  <2>2. /\ lpf_running' = lpf_running /\ start_lpf' = start_lpf
        /\ end_lpf' = end_lpf /\ level_set' = level_set /\ filtered' = filtered
    BY <1>2 DEF RemoveThreads, filter
  <2>3. FilterInv'
    BY <1>1, <2>1, <2>2 DEF FilterInv, PictureInv
  <2> QED
    BY <2>1, <2>3 DEF IInv
<1>3. CASE JoinThread
  <2>1. /\ EncodeInv' /\ at'[Filter] = at[Filter]
        /\ \/ at'[0] = "join" /\ start_lpf' = start_lpf
           \/ at'[0] = "joinlpf" /\ start_lpf' = start_lpf + 1
        /\ at[0] = "join" /\ ~multi /\ multi' = multi
    BY <1>1, <1>3, JoinThreadInv DEF JoinThread, MainInv
  <2>2. /\ lpf_running' = lpf_running /\ end_lpf' = end_lpf
        /\ level_set' = level_set /\ filtered' = filtered
    BY <1>3 DEF JoinThread
  <2>3. start_lpf = 0
    BY <1>1, <2>1 DEF FilterInv
  <2>4. FilterInv'
    BY <1>1, <2>1, <2>2, <2>3 DEF FilterInv, PictureInv
  <2> QED
    BY <2>1, <2>4 DEF IInv
<1>4. CASE JoinFilter
  <2>1. /\ EncodeInv' /\ at'[0] = "exit" /\ at'[Filter] = at[Filter]
        /\ at[0] = "joinlpf" /\ ~multi /\ multi' = multi
    BY <1>1, <1>4, JoinFilterInv DEF JoinFilter, MainInv, life
  <2>2. /\ lpf_running' = lpf_running /\ start_lpf' = start_lpf
        /\ end_lpf' = end_lpf /\ level_set' = level_set /\ filtered' = filtered
    BY <1>4 DEF JoinFilter, filter
  <2>3. FilterInv'
    BY <1>1, <2>1, <2>2 DEF FilterInv, PictureInv
  <2> QED
    BY <2>1, <2>3 DEF IInv
<1> QED
  BY <1>2, <1>3, <1>4

LEMMA NextInv == IInv /\ [Next]_vars => IInv'
<1> SUFFICES ASSUME IInv, [Next]_vars
             PROVE  IInv'
  OBVIOUS
<1>1. 0 \in Encoder /\ Helper \subseteq Encoder
  BY Sizes
<1>2. ASSUME NEW t \in Helper, HelperStep(t)
      PROVE  IInv'
  <2>1. t \in Encoder
    BY <1>1
  <2>2. CASE RowStep(t)
    BY <2>1, <2>2, EncoderStepInv
  <2>3. CASE ThreadTop(t) \/ ThreadStart(t)
    BY <2>1, <2>3, EncoderStepInv
  <2> QED
    BY <1>2, <2>2, <2>3 DEF HelperStep
<1>3. CASE FilterStep
  BY <1>3, FilterTopInv, FilterStartInv, SetLevelInv, FilterPictureInv, EndFilterInv
  DEF FilterStep
<1>4. CASE InCall
  <2>1. CASE RowStep(0)
    BY <1>1, <2>1, EncoderStepInv
  <2>2. CASE \/ CreateThread \/ CreateFilterThread
             \/ CreationOfFilterFails \/ UndoFilterJoin
    BY <2>2, CreationInv
  <2>3. CASE JoinThread \/ JoinFilter
    BY <2>3, RemovalInv
  <2>4. CASE ReadPicture
    BY <2>4, ReadingInv
  <2>5. CASE EncodeFrame \/ EndRows \/ EncodeAgain
    BY <2>5, FrameStepInv
  <2>6. CASE StartFilter \/ WaitForLevel \/ Pack
    BY <2>6, StartFilterInv, WaitForLevelInv, PackInv
  <2> QED
    BY <1>4, <2>1, <2>2, <2>3, <2>4, <2>5, <2>6 DEF InCall
<1>5. CASE NextCall
  <2>1. CASE Call
    BY <2>1, WaitForFilterInv DEF Call, Reading
  <2>2. CASE BeginFrame
    BY <2>2, WaitForFilterInv DEF BeginFrame
  <2> QED
    BY <1>5, <2>1, <2>2, ReadingInv, RemovalInv DEF NextCall
<1>6. CASE UNCHANGED vars
  BY <1>6
  DEF vars, rows, life, filter, IInv, EncodeInv, TypeOK, MainInv, HelperInv, Posted,
      OffInv, ThreadInv, OnInv, AboveInv, Above, RowsInv, RowInv, AllAboveInv, EndInv,
      On, Begun, Working, Ready, FilterInv, LevelInv, PictureInv
<1> QED
  BY <1>2, <1>3, <1>4, <1>5, <1>6 DEF Next

\* The invariant of the encoder's threads.
LEMMA Invariance == Spec => []IInv
BY InitInv, NextInv, PTL DEF Spec

\* Every variable has its type.
THEOREM AlwaysTypeOK == Spec => []TypeOK
<1>1. IInv => TypeOK
  BY DEF IInv, EncodeInv
<1> QED
  BY <1>1, Invariance, PTL

\* A frame is packed with its own filter level, and a picture is read when it is
\* filtered, though both are announced by posts of one semaphore
\* (thread_loopfilter(), encode_frame_to_data_rate()).
THEOREM PostsAlwaysMeanIt == Spec => []PostsMeanWhatTheySay
<1>1. IInv => PostsMeanWhatTheySay
  <2> SUFFICES ASSUME IInv
               PROVE  PostsMeanWhatTheySay
    OBVIOUS
  <2>1. EncodeInv /\ FilterInv
    BY DEF IInv
  <2>2. at[0] = "pack" => level_set
    BY <2>1 DEF FilterInv, PictureInv
  <2>3. at[0] \in Reading => filtered
    BY <2>1 DEF FilterInv, Reading
  <2>4. ASSUME NEW t \in Encoder, at[t] \in {"mb", "spin"}
        PROVE  filtered
    <3>1. Working
      BY <2>1, <2>4, InRows DEF RowPlaces
    <3> QED
      BY <2>1, <3>1 DEF FilterInv, Working, RowPlaces
  <2> QED
    BY <2>2, <2>3, <2>4 DEF PostsMeanWhatTheySay
<1> QED
  BY <1>1, Invariance, PTL

\* No semaphore is left posted from one frame or call to the next: every wait
\* finds the post that is meant for it (h_event_start_encoding,
\* h_event_end_encoding, h_event_start_lpf and h_event_end_lpf).
THEOREM NothingIsLeftOver == Spec => []NothingLeftOver
<1>1. IInv => NothingLeftOver
  <2> SUFFICES ASSUME IInv
               PROVE  NothingLeftOver
    OBVIOUS
  <2>1. /\ EncodeInv /\ FilterInv /\ MainInv /\ EndInv /\ TypeOK
        /\ \A t \in Helper : HelperInv(t)
    BY DEF IInv, EncodeInv
  <2>2. end <= 1 /\ (at[0] \in {"app", "begun", "ended", "level"} => end = 0)
    BY <2>1 DEF MainInv, EndInv, Working, RowPlaces
  <2>3. start_lpf <= 1 /\ (start_lpf = 1 => lpf_running \/ ~multi)
    BY <2>1 DEF MainInv, FilterInv
  <2>4. end_lpf <= 2 /\ (end_lpf > 0 => lpf_running)
    BY <2>1 DEF FilterInv, LevelInv, PictureInv
  <2>5. \A t \in Helper : t < Rows => start[t] <= 1
    BY <2>1 DEF HelperInv
  <2> QED
    BY <2>2, <2>3, <2>4, <2>5 DEF NothingLeftOver
<1> QED
  BY <1>1, Invariance, PTL

-----------------------------------------------------------------------------
(* The wavefront *)

LEMMA WavefrontInit == Init => WavefrontOrder!Init
<1> SUFFICES ASSUME Init
             PROVE  WavefrontOrder!Init
  OBVIOUS
<1>1. encoded = [r \in Row |-> Cols] /\ at[0] = "create"
  BY Sizes DEF Init
<1> QED
  BY <1>1 DEF WavefrontOrder!Init, WavefrontOrder!Row, Row, RowPlaces

LEMMA BeginsWavefront ==
  ASSUME IInv, EncodeFrame \/ EncodeAgain
  PROVE  WavefrontOrder!Next
<1>1. TypeOK
  BY DEF IInv, EncodeInv
<1>2. PICK again : StartRows(again)
  BY DEF EncodeFrame, EncodeAgain
<1>3. at[0] \in {"begun", "ended"} /\ at'[0] = "test"
  BY <1>1, <1>2, Sizes DEF EncodeFrame, EncodeAgain, StartRows, Goes, TypeOK
<1>4. \A r \in Row : r < Rows
  BY Sizes
<1>5. WavefrontOrder!Begin(Rows)
  BY <1>2, <1>3, <1>4
  DEF StartRows, WavefrontOrder!Begin, WavefrontOrder!Row, Row, RowPlaces
<1>6. Rows \in 1 .. Rows
  BY EncoderSizes
<1> QED
  BY <1>5, <1>6 DEF WavefrontOrder!Next

LEMMA ProcessesWavefront ==
  ASSUME IInv, NEW t \in Encoder, EncodeMb(t)
  PROVE  WavefrontOrder!Next
<1> DEFINE r == row[t]
<1>1. EncodeInv /\ TypeOK /\ RowsInv /\ 0 \in 0 .. Filter
  BY Sizes DEF IInv, EncodeInv
<1>2. /\ at[t] = "spin" /\ at[t] \in RowPlaces /\ ~MustSpin(t)
      /\ encoded' = [encoded EXCEPT ![row[t]] = col[t] + 1]
      /\ at' = [at EXCEPT ![t] = IF col[t] + 1 < Cols THEN "mb" ELSE "flag"]
  BY DEF EncodeMb, Goes, RowPlaces
<1>3. On(t) /\ Working /\ OnInv(t) /\ Owner(row[t]) = t
  BY <1>1, <1>2, InRows
<1>4. /\ r \in Nat /\ r \in Row /\ r < Rows
      /\ col[t] \in Nat /\ col[t] < Cols
  BY <1>1, <1>2, <1>3, InRows, Sizes DEF OnInv, TypeOK
<1>5. encoded[r] = col[t]
  BY <1>1, <1>2, <1>3, <1>4 DEF RowsInv, RowInv, On
<1>6. r > 0 => encoded[r - 1] = Cols \/ encoded[r - 1] >= encoded[r] + 2
  BY <1>1, <1>2, <1>5, RowAbove
<1>7. Working'
  BY <1>1, <1>2, <1>3 DEF Working, TypeOK, RowPlaces
<1>8. WavefrontOrder!Process(r)
  BY <1>2, <1>3, <1>4, <1>5, <1>6, <1>7 DEF WavefrontOrder!Process, Working
<1> QED
  BY <1>4, <1>8 DEF WavefrontOrder!Next, WavefrontOrder!Row, Row

LEMMA EndsWavefront ==
  ASSUME IInv, EndRows
  PROVE  WavefrontOrder!Next
<1>1. EncodeInv /\ TypeOK
  BY DEF IInv, EncodeInv
<1>2. /\ at[0] = "wait" /\ at'[0] = "ended" /\ end > 0 /\ encoded' = encoded
      /\ Working
  BY <1>1, Sizes DEF EndRows, Goes, TypeOK, Working
<1>3. \A r \in Row : encoded[r] = Cols
  BY <1>1, <1>2, RowsDone
<1> QED
  BY <1>2, <1>3
  DEF WavefrontOrder!Next, WavefrontOrder!End, WavefrontOrder!Row, Row, RowPlaces

\* Every other step leaves the wavefront alone.
LEMMA BesideWavefront ==
  ASSUME IInv,
         \/ \E t \in Encoder : TestRow(t) \/ StartMb(t) \/ FlagRow(t) \/ NextRow(t)
         \/ \E t \in Helper : ThreadTop(t) \/ ThreadStart(t)
         \/ CreateThread \/ CreateFilterThread
         \/ CreationOfFilterFails \/ UndoFilterJoin
         \/ RemoveThreads \/ JoinThread \/ JoinFilter
         \/ ReadPicture \/ CopyReference \/ Call \/ BeginFrame
         \/ StartFilter \/ WaitForLevel \/ Pack
         \/ FilterStep
  PROVE  encoded' = encoded /\ Working' = Working
<1>1. TypeOK /\ MainInv
  BY DEF IInv, EncodeInv
<1>2. /\ at \in [0 .. Filter -> Place] /\ 0 \in 0 .. Filter
      /\ Filter \in 0 .. Filter /\ Filter # 0 /\ 0 \notin Helper
      /\ \A t \in Encoder : t \in 0 .. Filter
      /\ \A t \in Helper : t \in 0 .. Filter
  BY <1>1, Sizes DEF TypeOK
<1>3. ASSUME NEW p, Goes(0, p), at[0] \notin RowPlaces \cup {"wait"},
             p \notin RowPlaces \cup {"wait"}
      PROVE  Working' = Working
  BY <1>2, <1>3 DEF Goes, Working
<1>4. ASSUME NEW n \in 1 .. Filter, NEW p, Goes(n, p)
      PROVE  Working' = Working
  BY <1>2, <1>4 DEF Goes, Working
<1>5. ASSUME NEW t \in Encoder, TestRow(t) \/ StartMb(t) \/ FlagRow(t) \/ NextRow(t)
      PROVE  encoded' = encoded /\ Working' = Working
  <2>1. encoded' = encoded
    BY <1>5 DEF TestRow, StartMb, FlagRow, NextRow
  <2>2. PICK p : /\ Goes(t, p) /\ at[t] \in RowPlaces
                 /\ t = 0 => p \in RowPlaces \cup {"wait"}
    BY <1>5 DEF TestRow, StartMb, FlagRow, NextRow, RowPlaces
  <2>3. CASE t = 0
    BY <1>2, <2>1, <2>2, <2>3 DEF Goes, Working
  <2>4. CASE t # 0
    BY <1>2, <2>1, <2>2, <2>4 DEF Goes, Working
  <2> QED
    BY <2>1, <2>3, <2>4
<1>6. ASSUME NEW t \in Helper, ThreadTop(t) \/ ThreadStart(t)
      PROVE  encoded' = encoded /\ Working' = Working
  <2>1. encoded' = encoded
    BY <1>6 DEF ThreadTop, ThreadStart, rows
  <2>2. PICK p : Goes(t, p)
    BY <1>6 DEF ThreadTop, ThreadStart
  <2> QED
    BY <1>2, <2>1, <2>2 DEF Goes, Working
<1>7. CASE CreateThread \/ FilterStep
  <2>1. encoded' = encoded
    BY <1>7 DEF CreateThread, FilterStep, FilterTop, FilterStart, SetLevel,
                FilterPicture, EndFilter, rows
  <2>2. PICK n, p : n \in 1 .. Filter /\ Goes(n, p)
    <3>1. Filter \in 1 .. Filter /\ (created < Helpers => created + 1 \in 1 .. Filter)
      BY <1>1, EncoderSizes DEF TypeOK, Filter
    <3> QED
      BY <1>7, <3>1 DEF CreateThread, FilterStep, FilterTop, FilterStart, SetLevel,
                        FilterPicture, EndFilter
  <2> QED
    BY <1>4, <2>1, <2>2
<1>8. CASE CreateFilterThread
  BY <1>2, <1>8 DEF CreateFilterThread, rows, Working, RowPlaces
<1>9. CASE UndoFilterJoin \/ JoinThread
  <2>1. encoded' = encoded /\ at[0] \in {"undolpf", "join"}
    BY <1>9 DEF UndoFilterJoin, JoinThread, rows
  <2>2. at' = at \/ Goes(0, "exit") \/ Goes(0, "joinlpf")
    BY <1>9 DEF UndoFilterJoin, JoinThread
  <2>3. CASE at' = at
    BY <2>1, <2>3 DEF Working
  <2>4. CASE Goes(0, "exit") \/ Goes(0, "joinlpf")
    BY <1>3, <2>1, <2>4 DEF RowPlaces
  <2> QED
    BY <2>1, <2>2, <2>3, <2>4
<1>10. CASE \/ CreationOfFilterFails \/ RemoveThreads \/ JoinFilter
            \/ ReadPicture \/ CopyReference \/ StartFilter \/ WaitForLevel
  <2>1. encoded' = encoded
    BY <1>10 DEF CreationOfFilterFails, RemoveThreads, JoinFilter, ReadPicture,
                 CopyReference, StartFilter, WaitForLevel, rows
  <2>2. PICK p \in {"undolpf", "join", "exit", "app", "copy", "level", "pack"} :
          Goes(0, p) /\ at[0] \notin RowPlaces \cup {"wait"}
    BY <1>10 DEF CreationOfFilterFails, RemoveThreads, JoinFilter, ReadPicture,
                 CopyReference, StartFilter, WaitForLevel, Reading, RowPlaces
  <2> QED
    BY <1>3, <2>1, <2>2 DEF RowPlaces
<1>11. CASE Call \/ BeginFrame \/ Pack
  <2>1. encoded' = encoded
    BY <1>11 DEF Call, BeginFrame, Pack, WaitForFilter, rows
  <2>2. PICK p \in {"config", "preview", "begun", "app", "psnr"} :
          Goes(0, p) /\ at[0] \notin RowPlaces \cup {"wait"}
    BY <1>11 DEF Call, BeginFrame, Pack, WaitForFilter, RowPlaces
  <2> QED
    BY <1>3, <2>1, <2>2 DEF RowPlaces
<1> QED
  BY <1>5, <1>6, <1>7, <1>8, <1>9, <1>10, <1>11

\* The row threads of the encoder implement the wavefront, every time a frame is
\* encoded: a macroblock comes after those above it and above its right
\* neighbour, and the frame is over when all are encoded (encode_mb_row() and
\* thread_encoding_proc()).
THEOREM EncodingIsWavefront == Spec => ImplementsWavefront
<1>1. IInv /\ [Next]_vars => [WavefrontOrder!Next]_(WavefrontOrder!vars)
  <2> SUFFICES ASSUME IInv, [Next]_vars
               PROVE  [WavefrontOrder!Next]_(WavefrontOrder!vars)
    OBVIOUS
  <2>1. 0 \in Encoder /\ \A t \in Helper : t \in Encoder
    BY Sizes
  <2>2. CASE \/ \E t \in Encoder : EncodeMb(t)
             \/ EncodeFrame \/ EncodeAgain \/ EndRows
    BY <2>2, BeginsWavefront, ProcessesWavefront, EndsWavefront
  <2>3. CASE encoded' = encoded /\ Working' = Working
    BY <2>3 DEF WavefrontOrder!vars, Working
  <2>4. CASE UNCHANGED vars
    BY <2>3, <2>4 DEF vars, rows, Working
  <2>5. CASE Next
    <3>1. CASE \E t \in Encoder : RowStep(t)
      BY <2>2, <2>3, <3>1, BesideWavefront DEF RowStep
    <3>2. CASE \E t \in Helper : ThreadTop(t) \/ ThreadStart(t)
      BY <2>3, <3>2, BesideWavefront
    <3>3. CASE FilterStep \/ NextCall
      BY <2>3, <3>3, BesideWavefront DEF NextCall
    <3>4. CASE InCall
      BY <2>1, <2>2, <2>3, <3>1, <3>4, BesideWavefront DEF InCall
    <3> QED
      BY <2>1, <2>5, <3>1, <3>2, <3>3, <3>4 DEF Next, HelperStep
  <2> QED
    BY <2>4, <2>5
<1> QED
  BY <1>1, WavefrontInit, Invariance, PTL
  DEF Spec, ImplementsWavefront, WavefrontOrder!Spec
=============================================================================
