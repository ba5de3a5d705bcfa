-------------------------- MODULE TileThreadsProofs ---------------------------
(***************************************************************************)
(* Safety of the multi-threaded loop filter and of the tile threads.       *)
(* The loop filter: for pictures of any size, any number of workers and    *)
(* every sync range of the code.  That every row is filtered, and so the   *)
(* refinement of the wavefront, needs that all frames launch the same      *)
(* number of workers.  The tile threads: for frames of any number of tiles *)
(* and for any number of workers, whatever sizes and failures the tiles    *)
(* have.                                                                   *)
(***************************************************************************)
EXTENDS TileThreads, FiniteSetTheorems, TLAPS

-----------------------------------------------------------------------------
(* The loop filter *)

\* The numbers of workers: those launched, those rows are distributed for.
WorkersInv ==
  /\ num_workers <= lf_num_workers
  /\ filtering => num_workers > 0
  /\ ~filtering => launched = num_workers
  /\ \A w \in Workers : ~filtering \/ launched <= w => worker[w].at = "ready"

\* The worker that row r is for.
Owner(r) == r % lf_num_workers

\* A worker's rows are those congruent to its number, and it ends below the
\* picture.
RowsInv ==
  filtering =>
    \A w \in Workers : w < launched =>
      /\ Owner(worker[w].row) = w
      /\ worker[w].at = "ready" => worker[w].row >= SbRows

\* A worker that is in a row has filtered it up to its column.
ColumnInv ==
  \A w \in Workers :
    worker[w].at # "ready" =>
      /\ worker[w].row < SbRows
      /\ worker[w].col < SbCols
      /\ filtered[worker[w].row] = IF worker[w].at = "write"
                                     THEN worker[w].col + 1 ELSE worker[w].col

\* The rows a worker has passed are complete, those before it are untouched.
PassedInv ==
  filtering =>
    \A r \in Rows :
      LET w == Owner(r)
      IN /\ w < launched /\ r < worker[w].row => filtered[r] = SbCols
         /\ launched <= w \/ worker[w].row < r => filtered[r] = 0

\* A worker that got past sync_read() at the last column where it tests has
\* seen the row above SyncRange columns further.
AboveInv ==
  \A w \in Workers :
    LET r == worker[w].row
        c == worker[w].col
    IN /\ r > 0
       /\ \/ worker[w].at \in {"filter", "write"}
          \/ worker[w].at = "read" /\ c % SyncRange # 0
       => cur_sb_col[r - 1] >= c - (c % SyncRange) + SyncRange

\* A worker waits only while the row above is not far enough.
SleepInv ==
  \A w \in Workers :
    worker[w].at = "wait" => MustWait(worker[w].row, worker[w].col)

IInv ==
  /\ TypeOK
  /\ WorkersInv
  /\ RowsInv
  /\ ColumnInv
  /\ PassedInv
  /\ AboveInv
  /\ SleepInv
  /\ ProgressIsTrue

-----------------------------------------------------------------------------
(* Rows and remainders *)

\* What division and remainder are.
LEMMA DivMod ==
  ASSUME NEW n \in Nat \ {0}, NEW a \in Nat
  PROVE  /\ a \div n \in Nat
         /\ a % n \in 0 .. n - 1
         /\ a = n * (a \div n) + (a % n)
<1>1. a % n \in 0 .. n - 1
  OBVIOUS
<1>2. a \div n \in Int
  OBVIOUS
<1>3. a = n * (a \div n) + (a % n)
  OBVIOUS
<1>4. a \div n >= 0
  OBVIOUS
<1> QED
  BY <1>1, <1>2, <1>3, <1>4

\* A product grows by its factor.
LEMMA Times ==
  ASSUME NEW n \in Nat \ {0}, NEW k \in Int, NEW l \in Int, k < l
  PROVE  n * k + n <= n * l
<1>1. n * (l - k - 1) >= 0
  OBVIOUS
<1>2. n * (l - k - 1) = n * l - n * k - n
  OBVIOUS
<1> QED
  BY <1>1, <1>2

\* Between a row and the next one of its worker there is none of that worker.
LEMMA ModBetween ==
  ASSUME NEW n \in Nat \ {0}, NEW a \in Nat, NEW b \in Nat,
         a % n = b % n, a < b
  PROVE  a + n <= b
<1>1. a = n * (a \div n) + (a % n) /\ b = n * (b \div n) + (a % n)
  BY DivMod
<1>2. a \div n \in Int /\ b \div n \in Int /\ (a % n) \in Int
  BY DivMod
<1>3. CASE a \div n < b \div n
  <2>1. n * (a \div n) + n <= n * (b \div n)
    BY <1>2, <1>3, Times
  <2>2. n * (a \div n) \in Int /\ n * (b \div n) \in Int
    BY <1>2
  <2> QED
    BY <1>1, <1>2, <2>1, <2>2
<1>4. CASE b \div n <= a \div n
  BY <1>1, <1>2, <1>4, Times
<1> QED
  BY <1>2, <1>3, <1>4

\* A worker's next row is its own.
LEMMA ModStep ==
  ASSUME NEW n \in Nat \ {0}, NEW a \in Nat
  PROVE  (a + n) % n = a % n
<1> DEFINE p == a \div n
           q == (a + n) \div n
<1>1. /\ a = n * p + (a % n)
      /\ a + n = n * q + ((a + n) % n)
      /\ p \in Nat /\ q \in Nat
      /\ a % n \in 0 .. n - 1 /\ (a + n) % n \in 0 .. n - 1
  <2>1. a + n \in Nat
    OBVIOUS
  <2>2. a = n * p + (a % n) /\ p \in Nat /\ a % n \in 0 .. n - 1
    BY DivMod
  <2>3. /\ a + n = n * q + ((a + n) % n) /\ q \in Nat
        /\ (a + n) % n \in 0 .. n - 1
    BY <2>1, DivMod
  <2> QED
    BY <2>2, <2>3
<1>2. n * p \in Int /\ n * q \in Int /\ n * (p + 1) = n * p + n
  BY <1>1
<1>3. CASE q < p
  BY <1>1, <1>2, <1>3, Times
<1>4. CASE q = p
  BY <1>1, <1>2, <1>4
<1>5. CASE p + 1 < q
  <2>1. n * (p + 1) + n <= n * q
    BY <1>1, <1>5, Times
  <2> QED
    BY <1>1, <1>2, <2>1
<1>6. CASE q = p + 1
  BY <1>1, <1>2, <1>6
<1> QED
  BY <1>1, <1>3, <1>4, <1>5, <1>6

\* The first workers' first rows.
LEMMA ModSmall ==
  ASSUME NEW n \in Nat \ {0}, NEW a \in 0 .. n - 1
  PROVE  a % n = a
OBVIOUS

\* Between two columns where the row above is tested.
LEMMA SameRange ==
  ASSUME NEW c \in Nat, (c + 1) % SyncRange # 0
  PROVE  c + 1 - ((c + 1) % SyncRange) = c - (c % SyncRange)
<1>1. CASE SyncRange = 1
  BY <1>1
<1>2. CASE SyncRange = 2
  BY <1>2
<1>3. CASE SyncRange = 4
  BY <1>3
<1>4. CASE SyncRange = 8
  BY <1>4
<1> QED
  BY <1>1, <1>2, <1>3, <1>4, LoopFilterSizes

-----------------------------------------------------------------------------
(* The invariant *)

\* Before the first frame.
LEMMA InitInv == Init => IInv
<1> SUFFICES ASSUME Init PROVE IInv
  OBVIOUS
<1> USE LoopFilterSizes DEF Init
<1>1. TypeOK
  <2>1. /\ lf_num_workers \in 0 .. NWorkers /\ num_workers \in 0 .. NWorkers
        /\ launched \in 0 .. num_workers
    OBVIOUS
  <2>2. /\ cur_sb_col \in [Rows -> {-1} \cup 0 .. SbCols + SyncRange]
        /\ filtered \in [Rows -> 0 .. SbCols]
    BY DEF TypeOK
  <2>3. worker \in [Workers -> WorkerState]
    BY DEF WorkerState
  <2>4. filtering \in BOOLEAN
    BY Zenon
  <2> QED
    BY <2>1, <2>2, <2>3, <2>4 DEF TypeOK
<1>2. WorkersInv /\ RowsInv /\ ColumnInv /\ PassedInv
  BY DEF WorkersInv, RowsInv, ColumnInv, PassedInv, Workers
<1>3. AboveInv /\ SleepInv /\ ProgressIsTrue
  BY DEF AboveInv, SleepInv, ProgressIsTrue, Workers
<1> QED
  BY <1>1, <1>2, <1>3 DEF IInv

\* A new frame: nothing is launched and nothing filtered.
LEMMA BeginInv ==
  ASSUME IInv, NEW n \in Nat \ {0}, LoopFilterRowsMt(n)
  PROVE  IInv'
<1> USE LoopFilterSizes DEF IInv, LoopFilterRowsMt
<1>1. num_workers' \in 1 .. NWorkers
  BY DEF TypeOK
<1>2. lf_num_workers' \in 1 .. NWorkers /\ num_workers' <= lf_num_workers'
  BY <1>1 DEF TypeOK
<1>3. \A w \in Workers : worker[w].at = "ready"
  BY DEF WorkersInv
<1>4. TypeOK'
  BY <1>1, <1>2 DEF TypeOK, Rows
<1>5. WorkersInv'
  <2>1. \A w \in Workers : worker'[w].at = "ready"
    BY <1>3
  <2>2. num_workers' > 0
    BY <1>1
  <2> QED
    BY <1>2, <2>1, <2>2 DEF WorkersInv
<1>6. RowsInv' /\ ColumnInv' /\ AboveInv' /\ SleepInv' /\ ProgressIsTrue'
  BY <1>3 DEF RowsInv, ColumnInv, AboveInv, SleepInv, ProgressIsTrue, Rows,
              Workers
<1>7. PassedInv'
  <2> SUFFICES ASSUME NEW r \in Rows
               PROVE  Owner(r)' \in Nat
    BY DEF PassedInv
  <2>1. r \in Nat /\ lf_num_workers' \in Nat \ {0}
    BY <1>2 DEF Rows
  <2>2. r % (lf_num_workers') \in 0 .. lf_num_workers' - 1
    BY <2>1, DivMod
  <2>3. Owner(r)' = r % (lf_num_workers')
    BY DEF Owner
  <2>4. \A x \in 0 .. lf_num_workers' - 1 : x \in Nat
    BY <2>1
  <2> QED
    BY <2>2, <2>3, <2>4
<1> QED
  BY <1>4, <1>5, <1>6, <1>7

\* A worker gets its first row, which nobody has touched.
LEMMA LaunchInv == IInv /\ LaunchRows => IInv'
<1> SUFFICES ASSUME IInv, LaunchRows PROVE IInv'
  OBVIOUS
<1> USE LoopFilterSizes DEF IInv, LaunchRows
<1>1. /\ launched \in Workers /\ launched \in Nat
      /\ lf_num_workers \in Nat \ {0}
      /\ launched \in 0 .. lf_num_workers - 1
  BY DEF TypeOK, WorkersInv, Workers
<1>2. Owner(launched) = launched
  BY <1>1, ModSmall DEF Owner
<1>3. \A r \in Nat : Owner(r)' = Owner(r)
  BY DEF Owner
<1>4. launched < SbRows => filtered[launched] = 0
  BY <1>1, <1>2 DEF PassedInv, Rows
<1>5. TypeOK'
  BY <1>1 DEF TypeOK, Workers, WorkerState
<1>6. WorkersInv'
  BY <1>1 DEF WorkersInv, TypeOK, Workers
<1>7. RowsInv'
  BY <1>1, <1>2, <1>3 DEF RowsInv, TypeOK, Workers, WorkerState
<1>8. ColumnInv'
  BY <1>1, <1>4 DEF ColumnInv, TypeOK, Workers, WorkerState
<1>9. PassedInv'
  <2> SUFFICES ASSUME NEW r \in Rows
               PROVE  LET w == Owner(r)
                      IN /\ w < launched' /\ r < worker'[w].row
                              => filtered[r] = SbCols
                         /\ launched' <= w \/ worker'[w].row < r
                              => filtered[r] = 0
    BY <1>3 DEF PassedInv, Rows
  <2>1. Owner(r) \in 0 .. lf_num_workers - 1 /\ Owner(r) \in Workers
    <3>1. r \in Nat
      BY DEF Rows
    <3>2. Owner(r) \in 0 .. lf_num_workers - 1
      BY <1>1, <3>1, DivMod DEF Owner
    <3>3. 0 .. lf_num_workers - 1 \subseteq Workers
      BY DEF TypeOK, Workers
    <3> QED
      BY <3>2, <3>3
  <2>2. CASE Owner(r) = launched
    <3>1. r < launched => FALSE
      BY <1>1, <2>2, ModSmall DEF Owner, Rows
    <3> QED
      BY <1>1, <2>2, <3>1 DEF PassedInv, TypeOK, Rows
  <2>3. CASE Owner(r) # launched
    BY <1>1, <2>1, <2>3 DEF PassedInv, TypeOK
  <2> QED
    BY <2>2, <2>3
<1>10. AboveInv'
  BY <1>1 DEF AboveInv, TypeOK, Workers
<1>11. SleepInv' /\ ProgressIsTrue'
  BY <1>1 DEF SleepInv, ProgressIsTrue, TypeOK, Workers, MustWait
<1> QED
  BY <1>5, <1>6, <1>7, <1>8, <1>9, <1>10, <1>11

\* All workers are done.
LEMMA SyncInv == IInv /\ SyncRows => IInv'
<1> SUFFICES ASSUME IInv, SyncRows PROVE IInv'
  OBVIOUS
<1> USE DEF IInv, SyncRows
<1>1. TypeOK' /\ WorkersInv' /\ RowsInv' /\ ColumnInv'
  BY DEF TypeOK, WorkersInv, RowsInv, ColumnInv
<1>2. PassedInv' /\ AboveInv' /\ SleepInv' /\ ProgressIsTrue'
  BY DEF PassedInv, AboveInv, SleepInv, ProgressIsTrue
<1> QED
  BY <1>1, <1>2

\* A worker that is in a row was launched, and the row is its own.
LEMMA InItsRow ==
  ASSUME IInv, NEW w \in Workers, worker[w].at # "ready"
  PROVE  /\ filtering /\ w < launched /\ w \in Nat
         /\ lf_num_workers \in Nat \ {0}
         /\ worker[w].row \in Rows /\ worker[w].col \in 0 .. SbCols - 1
         /\ Owner(worker[w].row) = w
         /\ \A v \in Workers : worker[v].at # "ready" /\ v # w
                                => worker[v].row # worker[w].row
<1> USE LoopFilterSizes DEF IInv
<1>1. /\ filtering /\ w < launched /\ w \in Nat
      /\ lf_num_workers \in Nat \ {0}
  BY DEF WorkersInv, TypeOK, Workers
<1>2. worker[w].row \in Rows /\ worker[w].col \in 0 .. SbCols - 1
  BY DEF ColumnInv, TypeOK, WorkerState, Rows
<1>3. \A v \in Workers : worker[v].at # "ready" => Owner(worker[v].row) = v
  <2> SUFFICES ASSUME NEW v \in Workers, worker[v].at # "ready"
               PROVE  Owner(worker[v].row) = v
    OBVIOUS
  <2>1. v < launched
    BY DEF WorkersInv, TypeOK, Workers
  <2> QED
    BY <1>1, <2>1 DEF RowsInv
<1> QED
  BY <1>1, <1>2, <1>3

\* sync_read(): the worker sleeps, or the row above is far enough.
LEMMA ReadInv ==
  ASSUME IInv, NEW w \in Workers, SyncRead(w)
  PROVE  IInv'
<1> USE LoopFilterSizes DEF IInv, SyncRead
<1> DEFINE r == worker[w].row
           c == worker[w].col
<1>1. /\ filtering /\ w < launched /\ r \in Rows /\ c \in 0 .. SbCols - 1
  BY InItsRow
<1>2. TypeOK'
  BY DEF TypeOK, WorkerState
<1>3. WorkersInv' /\ RowsInv' /\ ColumnInv' /\ PassedInv' /\ ProgressIsTrue'
  <2>1. worker' = [worker EXCEPT ![w].at = worker'[w].at]
        /\ worker'[w].at \in {"wait", "filter"}
    BY DEF TypeOK, WorkerState
  <2> QED
    BY <1>1, <2>1 DEF WorkersInv, RowsInv, ColumnInv, PassedInv,
                      ProgressIsTrue, TypeOK, WorkerState, Owner
<1>4. SleepInv'
  BY DEF SleepInv, TypeOK, WorkerState, MustWait
<1>5. AboveInv'
  <2>1. CASE r > 0 /\ ~MustWait(r, c)
    <3>1. c % SyncRange = 0 => cur_sb_col[r - 1] >= c + SyncRange
      <4>1. cur_sb_col[r - 1] \in Int /\ SyncRange \in Int /\ c \in Int
        BY <1>1, <2>1 DEF TypeOK, Rows
      <4>2. c % SyncRange = 0 => ~(c > cur_sb_col[r - 1] - SyncRange)
        BY <2>1 DEF MustWait
      <4> QED
        BY <4>1, <4>2
    <3>2. c % SyncRange # 0
            => cur_sb_col[r - 1] >= c - (c % SyncRange) + SyncRange
      BY <1>1, <2>1 DEF AboveInv, Rows
    <3>3. cur_sb_col[r - 1] >= c - (c % SyncRange) + SyncRange
      BY <1>1, <3>1, <3>2
    <3> QED
      BY <3>3 DEF AboveInv, TypeOK, WorkerState
  <2>2. CASE r = 0
    BY <2>2 DEF AboveInv, TypeOK, WorkerState
  <2>3. CASE MustWait(r, c)
    BY <2>3 DEF AboveInv, TypeOK, WorkerState
  <2> QED
    BY <1>1, <2>1, <2>2, <2>3 DEF Rows
<1> QED
  BY <1>2, <1>3, <1>4, <1>5

\* filter_block_plane() of one superblock.
LEMMA FilterInv ==
  ASSUME IInv, NEW w \in Workers, FilterBlock(w)
  PROVE  IInv'
<1> USE LoopFilterSizes DEF IInv, FilterBlock
<1> DEFINE r == worker[w].row
           c == worker[w].col
<1>1. /\ filtering /\ w < launched /\ r \in Rows /\ c \in 0 .. SbCols - 1
      /\ Owner(r) = w
      /\ \A v \in Workers : worker[v].at # "ready" /\ v # w
                             => worker[v].row # r
  BY InItsRow
<1>2. filtered[r] = c /\ filtered' = [filtered EXCEPT ![r] = c + 1]
  BY <1>1 DEF ColumnInv, TypeOK
<1>3. worker' = [worker EXCEPT ![w].at = "write"]
  OBVIOUS
<1>4. TypeOK'
  BY <1>1, <1>2 DEF TypeOK, WorkerState
<1>5. WorkersInv' /\ RowsInv'
  BY <1>1 DEF WorkersInv, RowsInv, TypeOK, WorkerState, Owner
<1>6. ColumnInv'
  BY <1>1, <1>2, <1>3 DEF ColumnInv, TypeOK, WorkerState
<1>7. PassedInv'
  <2> SUFFICES ASSUME NEW s \in Rows
               PROVE  LET v == Owner(s)
                      IN /\ v < launched /\ s < worker'[v].row
                              => filtered'[s] = SbCols
                         /\ launched <= v \/ worker'[v].row < s
                              => filtered'[s] = 0
    BY DEF PassedInv, Owner
  <2>1. \A v : worker'[v].row = worker[v].row
    BY <1>3 DEF TypeOK, WorkerState
  <2>2. CASE s = r
    BY <1>1, <2>1, <2>2 DEF TypeOK, Rows, Workers
  <2>3. CASE s # r
    BY <1>1, <1>2, <2>1, <2>3 DEF PassedInv, TypeOK
  <2> QED
    BY <2>2, <2>3
<1>8. AboveInv' /\ SleepInv'
  BY <1>1 DEF AboveInv, SleepInv, TypeOK, WorkerState, MustWait
<1>9. ProgressIsTrue'
  BY <1>1, <1>2 DEF ProgressIsTrue, TypeOK, Rows
<1> QED
  BY <1>4, <1>5, <1>6, <1>7, <1>8, <1>9

\* sync_write() and the step to the next superblock: the progress of a row
\* never goes back, and the worker that waits for it goes on to read it.
LEMMA WriteInv ==
  ASSUME IInv, NEW w \in Workers, SyncWrite(w)
  PROVE  IInv'
<1> USE LoopFilterSizes DEF IInv
<1> DEFINE r == worker[w].row
           c == worker[w].col
           next == NextBlock(r, c + 1)
           went == [worker EXCEPT ![w] = next]
           told == IF c >= SbCols - 1 THEN SbCols + SyncRange ELSE c
<1>1. worker[w].at = "write"
  BY DEF SyncWrite
<1>2. /\ filtering /\ w < launched /\ r \in Rows /\ c \in 0 .. SbCols - 1
      /\ lf_num_workers \in Nat \ {0} /\ Owner(r) = w
      /\ \A v \in Workers : worker[v].at # "ready" /\ v # w
                             => worker[v].row # r
  BY <1>1, InItsRow
<1>3. filtered[r] = c + 1
  BY <1>1 DEF ColumnInv
<1>4. UNCHANGED <<lf_num_workers, num_workers, launched, filtering, filtered>>
  BY DEF SyncWrite
<1>5. \A s \in Nat : Owner(s)' = Owner(s)
  BY <1>4 DEF Owner
<1>6. \/ worker' = went /\ UNCHANGED cur_sb_col
      \/ /\ cur_sb_col' = [cur_sb_col EXCEPT ![r] = told]
         /\ \/ WaitingFor(r) = {} /\ worker' = went
            \/ \E v \in WaitingFor(r) :
                 worker' = [went EXCEPT ![v].at = "read"]
  BY DEF SyncWrite
<1>7. /\ next \in WorkerState /\ next.at \in {"read", "ready"}
      /\ c + 1 = SbCols
           => /\ next.row = r + lf_num_workers /\ next.col = 0
              /\ next.at = "ready" => next.row >= SbRows
              /\ next.at = "read" => next.row < SbRows
      /\ c + 1 # SbCols
           => next.row = r /\ next.col = c + 1 /\ next.at = "read"
  BY <1>2 DEF NextBlock, WorkerState, Rows
<1>8. went \in [Workers -> WorkerState]
  BY <1>7 DEF TypeOK
<1>9. worker' \in [Workers -> WorkerState] /\ worker'[w] = next
  <2>1. \A v \in WaitingFor(r) :
          /\ v \in Workers /\ v # w
          /\ [went EXCEPT ![v].at = "read"] \in [Workers -> WorkerState]
          /\ [went EXCEPT ![v].at = "read"][w] = next
    BY <1>1, <1>8 DEF WaitingFor, WorkerState, TypeOK
  <2>2. went[w] = next
    BY DEF TypeOK
  <2> QED
    BY <1>6, <1>8, <2>1, <2>2
\* What becomes of the others.
<1>10. \A u \in Workers \ {w} :
         /\ worker'[u].row = worker[u].row /\ worker'[u].col = worker[u].col
         /\ \/ worker'[u].at = worker[u].at
            \/ worker[u].at = "wait" /\ worker'[u].at = "read"
  <2> SUFFICES ASSUME NEW u \in Workers \ {w}
               PROVE  /\ worker'[u].row = worker[u].row
                      /\ worker'[u].col = worker[u].col
                      /\ \/ worker'[u].at = worker[u].at
                         \/ worker[u].at = "wait" /\ worker'[u].at = "read"
    OBVIOUS
  <2>1. CASE worker' = went
    BY <2>1 DEF TypeOK
  <2>2. ASSUME NEW v \in WaitingFor(r),
               worker' = [went EXCEPT ![v].at = "read"]
        PROVE  /\ worker'[u].row = worker[u].row
               /\ worker'[u].col = worker[u].col
               /\ \/ worker'[u].at = worker[u].at
                  \/ worker[u].at = "wait" /\ worker'[u].at = "read"
    BY <1>8, <2>2 DEF WaitingFor, TypeOK, WorkerState
  <2> QED
    BY <1>6, <2>1, <2>2
\* One that still waits does not wait for what was told.
<1>11. \A u \in Workers \ {w} :
         worker'[u].at = "wait" =>
           /\ worker[u].at = "wait"
           /\ cur_sb_col' = cur_sb_col \/ worker[u].row # r + 1
  <2> SUFFICES ASSUME NEW u \in Workers \ {w}, worker'[u].at = "wait",
                      cur_sb_col' # cur_sb_col
               PROVE  worker[u].at = "wait" /\ worker[u].row # r + 1
    BY <1>10
  <2>1. worker[u].at = "wait"
    BY <1>10
  <2>2. u \in WaitingFor(r) \/ worker[u].row # r + 1
    BY <2>1 DEF WaitingFor
  <2>3. ASSUME NEW v \in WaitingFor(r),
               worker' = [went EXCEPT ![v].at = "read"]
        PROVE  worker[u].row # r + 1
    <3>1. v # u
      BY <1>8, <2>3 DEF WaitingFor, TypeOK, WorkerState
    <3> QED
      BY <2>1, <3>1, InItsRow DEF WaitingFor
  <2> QED
    BY <1>6, <2>1, <2>2, <2>3
<1>12. /\ cur_sb_col' \in [Rows -> {-1} \cup 0 .. SbCols + SyncRange]
       /\ \A s \in Rows : cur_sb_col'[s] >= cur_sb_col[s]
       /\ \A s \in Rows : s # r => cur_sb_col'[s] = cur_sb_col[s]
       /\ cur_sb_col'[r] < filtered[r] \/ filtered[r] = SbCols
  <2>1. told \in 0 .. SbCols + SyncRange
    BY <1>2
  <2>2. cur_sb_col[r] < filtered[r] \/ filtered[r] = SbCols
    BY <1>2 DEF ProgressIsTrue
  <2>3. told >= cur_sb_col[r]
    BY <1>2, <1>3, <2>1, <2>2 DEF TypeOK
  <2>4. told < filtered[r] \/ filtered[r] = SbCols
    BY <1>2, <1>3
  <2>5. CASE UNCHANGED cur_sb_col
    BY <2>2, <2>5 DEF TypeOK
  <2>6. CASE cur_sb_col' = [cur_sb_col EXCEPT ![r] = told]
    <3>1. cur_sb_col'[r] = told
      BY <1>2, <2>6 DEF TypeOK
    <3>2. \A s \in Rows : s # r => cur_sb_col'[s] = cur_sb_col[s]
      BY <2>6 DEF TypeOK
    <3>3. \A s \in Rows : cur_sb_col[s] \in Int
      BY DEF TypeOK
    <3>4. \A s \in Rows : cur_sb_col'[s] >= cur_sb_col[s]
      BY <2>3, <3>1, <3>2, <3>3
    <3>5. cur_sb_col' \in [Rows -> {-1} \cup 0 .. SbCols + SyncRange]
      BY <2>1, <2>6 DEF TypeOK
    <3> QED
      BY <2>4, <3>1, <3>2, <3>4, <3>5
  <2> QED
    BY <1>6, <2>5, <2>6
<1>13. TypeOK'
  BY <1>4, <1>9, <1>12 DEF TypeOK
<1>14. WorkersInv'
  BY <1>2, <1>4, <1>9, <1>10 DEF WorkersInv, TypeOK, Workers
<1>15. RowsInv'
  <2>1. Owner(next.row) = w
    <3>1. r \in Nat
      BY <1>2 DEF Rows
    <3>2. Owner(r + lf_num_workers) = Owner(r)
      BY <1>2, <3>1, ModStep DEF Owner
    <3> QED
      BY <1>2, <1>7, <3>2
  <2> SUFFICES ASSUME NEW u \in Workers, u < launched
               PROVE  /\ Owner(worker'[u].row) = u
                      /\ worker'[u].at = "ready" => worker'[u].row >= SbRows
    BY <1>4 DEF RowsInv, Owner
  <2>2. CASE u = w
    BY <1>2, <1>7, <1>9, <2>1, <2>2
  <2>3. CASE u # w
    BY <1>2, <1>10, <2>3 DEF RowsInv
  <2> QED
    BY <2>2, <2>3
<1>16. ColumnInv'
  <2> SUFFICES ASSUME NEW u \in Workers, worker'[u].at # "ready"
               PROVE  /\ worker'[u].row < SbRows
                      /\ worker'[u].col < SbCols
                      /\ filtered[worker'[u].row] =
                           IF worker'[u].at = "write"
                             THEN worker'[u].col + 1 ELSE worker'[u].col
    BY <1>4 DEF ColumnInv
  <2>1. CASE u = w /\ c + 1 = SbCols
    <3>1. next.row \in Rows /\ Owner(next.row) = w /\ r < next.row
      <4>1. r \in Nat
        BY <1>2 DEF Rows
      <4>2. Owner(r + lf_num_workers) = Owner(r)
        BY <1>2, <4>1, ModStep DEF Owner
      <4>3. next.row = r + lf_num_workers /\ next.row < SbRows
        BY <1>7, <1>9, <2>1
      <4> QED
        BY <1>2, <4>1, <4>2, <4>3 DEF Rows
    <3>2. filtered[next.row] = 0
      BY <1>2, <3>1 DEF PassedInv
    <3> QED
      BY <1>7, <1>9, <2>1, <3>1, <3>2 DEF Rows
  <2>2. CASE u = w /\ c + 1 # SbCols
    BY <1>2, <1>3, <1>7, <1>9, <2>2 DEF Rows
  <2>3. CASE u # w
    BY <1>10, <2>3 DEF ColumnInv
  <2> QED
    BY <2>1, <2>2, <2>3
<1>17. PassedInv'
  <2> SUFFICES ASSUME NEW s \in Rows
               PROVE  LET v == Owner(s)
                      IN /\ v < launched /\ s < worker'[v].row
                              => filtered[s] = SbCols
                         /\ launched <= v \/ worker'[v].row < s
                              => filtered[s] = 0
    BY <1>4 DEF PassedInv, Owner
  <2>1. s \in Nat /\ Owner(s) \in Workers
    <3>1. s \in Nat
      BY DEF Rows
    <3>2. Owner(s) \in 0 .. lf_num_workers - 1
      BY <1>2, <3>1, DivMod DEF Owner
    <3>3. 0 .. lf_num_workers - 1 \subseteq Workers
      BY DEF TypeOK, Workers
    <3> QED
      BY <3>1, <3>2, <3>3
  <2>2. CASE Owner(s) # w
    BY <1>2, <1>10, <2>1, <2>2 DEF PassedInv
  <2>3. CASE Owner(s) = w /\ c + 1 # SbCols
    BY <1>2, <1>7, <1>9, <2>3 DEF PassedInv
  <2>4. CASE Owner(s) = w /\ c + 1 = SbCols
    <3>1. s < next.row => s <= r
      <4>1. r \in Nat /\ (r < s => r + lf_num_workers <= s)
        BY <1>2, <2>1, <2>4, ModBetween DEF Owner, Rows
      <4> QED
        BY <1>2, <1>7, <2>1, <2>4, <4>1
    <3>2. s < next.row => filtered[s] = SbCols
      BY <1>2, <1>3, <2>1, <2>4, <3>1 DEF PassedInv, Rows
    <3>3. next.row < s => filtered[s] = 0
      BY <1>2, <1>7, <2>1, <2>4 DEF PassedInv, Rows
    <3> QED
      BY <1>2, <1>9, <2>4, <3>2, <3>3 DEF TypeOK, Workers
  <2> QED
    BY <2>2, <2>3, <2>4
<1>18. AboveInv'
  <2> SUFFICES ASSUME NEW u \in Workers, worker'[u].row > 0,
                      \/ worker'[u].at \in {"filter", "write"}
                      \/ /\ worker'[u].at = "read"
                         /\ worker'[u].col % SyncRange # 0
               PROVE  cur_sb_col'[worker'[u].row - 1] >=
                        worker'[u].col - (worker'[u].col % SyncRange)
                          + SyncRange
    BY DEF AboveInv
  <2>1. CASE u = w
    <3>1. next.row = r /\ next.col = c + 1 /\ (c + 1) % SyncRange # 0
      BY <1>7, <1>9, <2>1
    <3>2. cur_sb_col[r - 1] >= c - (c % SyncRange) + SyncRange
      BY <1>1, <1>9, <2>1, <3>1 DEF AboveInv
    <3>3. cur_sb_col'[r - 1] = cur_sb_col[r - 1]
      BY <1>2, <1>9, <1>12, <2>1, <3>1 DEF Rows
    <3>4. c + 1 - ((c + 1) % SyncRange) = c - (c % SyncRange)
      BY <1>2, <3>1, SameRange
    <3> QED
      BY <1>2, <1>9, <2>1, <3>1, <3>2, <3>3, <3>4
  <2>2. CASE u # w /\ worker'[u].at = worker[u].at
    <3> DEFINE s == worker[u].row
               d == worker[u].col
    <3>1. cur_sb_col[s - 1] >= d - (d % SyncRange) + SyncRange
      BY <1>10, <2>2 DEF AboveInv
    <3>2. s \in Rows /\ s > 0 /\ d \in Nat
      BY <1>10, <2>2, InItsRow
    <3>3. /\ cur_sb_col'[s - 1] >= cur_sb_col[s - 1]
          /\ cur_sb_col'[s - 1] \in Int /\ cur_sb_col[s - 1] \in Int
      BY <1>12, <3>2 DEF Rows, TypeOK
    <3>4. worker'[u].row = s /\ worker'[u].col = d
      BY <1>10, <2>2
    <3>5. d % SyncRange \in Int
      BY <3>2
    <3> QED
      BY <3>1, <3>2, <3>3, <3>4, <3>5
  <2>3. CASE u # w /\ worker[u].at = "wait" /\ worker'[u].at = "read"
    BY <1>10, <2>3 DEF SleepInv, MustWait
  <2> QED
    BY <1>10, <2>1, <2>2, <2>3
<1>19. SleepInv'
  <2> SUFFICES ASSUME NEW u \in Workers, worker'[u].at = "wait"
               PROVE  MustWait(worker[u].row, worker[u].col)'
    BY <1>7, <1>9, <1>10 DEF SleepInv, MustWait
  <2>1. u # w
    BY <1>7, <1>9
  <2>2. MustWait(worker[u].row, worker[u].col)
    BY <1>11, <2>1 DEF SleepInv
  <2>3. /\ worker[u].row \in Rows
        /\ worker'[u].row = worker[u].row /\ worker'[u].col = worker[u].col
    BY <1>10, <1>11, <2>1, InItsRow
  <2>4. cur_sb_col'[worker[u].row - 1] = cur_sb_col[worker[u].row - 1]
    BY <1>2, <1>11, <1>12, <2>1, <2>2, <2>3 DEF Rows, MustWait
  <2> QED
    BY <2>2, <2>3, <2>4 DEF MustWait
<1>20. ProgressIsTrue'
  BY <1>4, <1>12 DEF ProgressIsTrue
<1> QED
  BY <1>13, <1>14, <1>15, <1>16, <1>17, <1>18, <1>19, <1>20

\* Every step keeps the invariant.
LEMMA NextInv == IInv /\ [Next]_vars => IInv'
<1> SUFFICES ASSUME IInv, [Next]_vars PROVE IInv'
  OBVIOUS
<1>1. ASSUME NEW n \in TileCols, LoopFilterRowsMt(n) PROVE IInv'
  BY <1>1, BeginInv, LoopFilterSizes
<1>2. CASE LaunchRows
  BY <1>2, LaunchInv
<1>3. CASE SyncRows
  BY <1>3, SyncInv
<1>4. ASSUME NEW w \in Workers, WorkerStep(w) PROVE IInv'
  BY <1>4, ReadInv, FilterInv, WriteInv DEF WorkerStep
<1>5. CASE UNCHANGED vars
  BY <1>5 DEF vars, IInv, TypeOK, WorkersInv, RowsInv, Owner, ColumnInv,
              PassedInv, AboveInv, SleepInv, MustWait, ProgressIsTrue
<1> QED
  BY <1>1, <1>2, <1>3, <1>4, <1>5 DEF Next

\* The invariant holds of every reachable state, whatever the frames.
THEOREM Invariance == Spec => []IInv
BY InitInv, NextInv, PTL DEF Spec

\* Every variable keeps its type.
THEOREM TypeCorrect == Spec => []TypeOK
BY Invariance, PTL DEF IInv

\* cur_sb_col never tells of a superblock that is not filtered yet, for any
\* sync range and for frames with any numbers of tile columns.
THEOREM ToldIsFiltered == Spec => []ProgressIsTrue
BY Invariance, PTL DEF IInv

\* A row has one follower, which sleeps only while it has to.
LEMMA OneFollower == IInv => NoSignalLost
<1> SUFFICES ASSUME IInv, NEW w \in Workers, worker[w].at = "wait"
             PROVE  /\ MustWait(worker[w].row, worker[w].col)
                    /\ WaitingFor(worker[w].row - 1) = {w}
  BY DEF NoSignalLost
<1>1. MustWait(worker[w].row, worker[w].col)
  BY DEF IInv, SleepInv
<1>2. worker[w].row \in Rows
  BY InItsRow
<1>3. ASSUME NEW v \in Workers, worker[v].at = "wait",
             worker[v].row = worker[w].row - 1 + 1
      PROVE  v = w
  BY <1>2, <1>3, InItsRow DEF Rows
<1> QED
  BY <1>1, <1>2, <1>3 DEF WaitingFor, Rows

\* pthread_cond_signal() is enough: a row has one follower, and it sleeps only
\* while it has to.
THEOREM SignalsAreEnough == Spec => []NoSignalLost
BY OneFollower, Invariance, PTL

-----------------------------------------------------------------------------
(* Frames that all launch the same number of workers *)

\* Rows are distributed for the workers that are launched, and when they have
\* been synced the picture is done.
DoneInv ==
  /\ lf_num_workers = num_workers
  /\ AllRowsFiltered

\* A step of loop_filter_rows_mt() after its beginning, or of a worker.
InRows == LaunchRows \/ SyncRows \/ \E w \in Workers : WorkerStep(w)

\* Before the first frame nothing is left to filter.
LEMMA InitDone == Init => DoneInv
BY DEF Init, DoneInv, AllRowsFiltered

\* A frame with as many workers as before leaves lf_sync->num_workers alone.
LEMMA BeginDone ==
  ASSUME NEW n \in Nat \ {0}, DoneInv, LoopFilterRowsMt(n),
         num_workers = 0 \/ num_workers = num_workers'
  PROVE  DoneInv'
<1> USE LoopFilterSizes DEF DoneInv
<1>1. num_workers' \in Nat \ {0}
  BY DEF LoopFilterRowsMt
<1>2. lf_num_workers' = num_workers'
  <2>1. lf_num_workers' = IF lf_num_workers < num_workers'
                            THEN num_workers' ELSE lf_num_workers
    BY DEF LoopFilterRowsMt
  <2>2. lf_num_workers = 0 \/ lf_num_workers = num_workers'
    OBVIOUS
  <2> QED
    BY <1>1, <2>1, <2>2
<1>3. AllRowsFiltered'
  BY DEF LoopFilterRowsMt, AllRowsFiltered
<1> QED
  BY <1>2, <1>3

\* When all workers are below the picture, all its rows are complete.
LEMMA InRowsDone ==
  ASSUME IInv, DoneInv, InRows
  PROVE  DoneInv' /\ num_workers' = num_workers
<1> USE LoopFilterSizes DEF DoneInv
<1>1. CASE LaunchRows
  BY <1>1 DEF LaunchRows, AllRowsFiltered
<1>2. CASE SyncRows
  <2> SUFFICES ASSUME NEW r \in Rows PROVE filtered[r] = SbCols
    BY <1>2 DEF SyncRows, AllRowsFiltered
  <2>1. r \in Nat /\ lf_num_workers \in Nat \ {0} /\ r < SbRows
    BY <1>2 DEF SyncRows, IInv, TypeOK, WorkersInv, Rows
  <2>2. Owner(r) \in 0 .. lf_num_workers - 1
    BY <2>1, DivMod DEF Owner
  <2>3. Owner(r) \in Workers /\ Owner(r) < launched
    BY <1>2, <2>1, <2>2 DEF SyncRows, IInv, TypeOK, Workers
  <2>4. worker[Owner(r)].row >= SbRows /\ worker[Owner(r)].row \in Nat
    BY <1>2, <2>3 DEF SyncRows, IInv, RowsInv, TypeOK, WorkerState
  <2> QED
    BY <1>2, <2>1, <2>3, <2>4 DEF SyncRows, IInv, PassedInv
<1>3. ASSUME NEW w \in Workers, WorkerStep(w)
      PROVE  DoneInv' /\ num_workers' = num_workers
  <2>1. filtering
    BY <1>3, InItsRow DEF WorkerStep, SyncRead, FilterBlock, SyncWrite
  <2>2. UNCHANGED <<lf_num_workers, num_workers, filtering>>
    BY <1>3 DEF WorkerStep, SyncRead, FilterBlock, SyncWrite
  <2> QED
    BY <2>1, <2>2 DEF AllRowsFiltered
<1> QED
  BY <1>1, <1>2, <1>3 DEF InRows

\* What sync_read() lets through has its upper and upper-right neighbours.
LEMMA NeighboursDone ==
  ASSUME IInv, NEW w \in Workers, worker[w].at = "filter",
         worker[w].row > 0
  PROVE  \/ filtered[worker[w].row - 1] = SbCols
         \/ filtered[worker[w].row - 1] >= worker[w].col + 2
<1> DEFINE r == worker[w].row
           c == worker[w].col
<1>1. filtering /\ r \in Rows /\ r - 1 \in Rows /\ c \in Nat
  <2>1. filtering /\ r \in Rows /\ c \in Nat
    BY InItsRow
  <2> QED
    BY <2>1, LoopFilterSizes DEF Rows
<1>2. cur_sb_col[r - 1] >= c - (c % SyncRange) + SyncRange
  BY DEF IInv, AboveInv
<1>3. c % SyncRange \in 0 .. SyncRange - 1 /\ SyncRange \in Nat \ {0}
  <2>1. SyncRange \in Nat \ {0}
    BY LoopFilterSizes
  <2> QED
    BY <1>1, <2>1, DivMod
<1>4. cur_sb_col[r - 1] \in Int /\ filtered[r - 1] \in Int
  BY <1>1 DEF IInv, TypeOK
<1>5. cur_sb_col[r - 1] < filtered[r - 1] \/ filtered[r - 1] = SbCols
  BY <1>1 DEF IInv, ProgressIsTrue
<1> QED
  BY <1>1, <1>2, <1>3, <1>4, <1>5

\* Before the first frame the wavefront has not begun.
LEMMA WavefrontInit == Init => WavefrontOrder!Init
BY DEF Init, WavefrontOrder!Init, WavefrontOrder!Row, Rows

\* A frame of the filter is one of the wavefront.
LEMMA BeginIsWavefront ==
  ASSUME NEW n, LoopFilterRowsMt(n)
  PROVE  WavefrontOrder!Next
<1>1. [r \in Rows |-> IF r < SbRows THEN 0 ELSE SbCols] = [r \in Rows |-> 0]
  BY LoopFilterSizes DEF Rows
<1>2. filtered' = [r \in Rows |-> IF r < SbRows THEN 0 ELSE SbCols]
  BY <1>1 DEF LoopFilterRowsMt
<1>3. ~filtering /\ filtering' = TRUE
  BY DEF LoopFilterRowsMt
<1>4. WavefrontOrder!Begin(SbRows)
  BY <1>2, <1>3 DEF WavefrontOrder!Begin, WavefrontOrder!Row, Rows
<1>5. SbRows \in 1 .. SbRows
  BY LoopFilterSizes
<1> QED
  BY <1>4, <1>5 DEF WavefrontOrder!Next

\* Every other step is a step of the wavefront, or hidden from it.
LEMMA InRowsIsWavefront ==
  ASSUME IInv, DoneInv', InRows
  PROVE  [WavefrontOrder!Next]_(WavefrontOrder!vars)
<1> USE DEF WavefrontOrder!vars
<1>1. CASE LaunchRows
  BY <1>1 DEF LaunchRows
<1>2. CASE SyncRows
  <2>1. \A r \in Rows : filtered[r] = SbCols
    BY <1>2 DEF DoneInv, AllRowsFiltered, SyncRows
  <2>2. WavefrontOrder!End
    BY <1>2, <2>1 DEF SyncRows, WavefrontOrder!End, WavefrontOrder!Row, Rows
  <2> QED
    BY <2>2 DEF WavefrontOrder!Next
<1>3. ASSUME NEW w \in Workers, SyncRead(w) \/ SyncWrite(w)
      PROVE  UNCHANGED <<filtered, filtering>>
  BY <1>3 DEF SyncRead, SyncWrite
<1>4. ASSUME NEW w \in Workers, FilterBlock(w)
      PROVE  WavefrontOrder!Next
  <2> DEFINE r == worker[w].row
  <2>1. /\ filtering /\ r \in Rows /\ filtered[r] = worker[w].col
        /\ filtered[r] < SbCols /\ worker[w].at = "filter"
    BY <1>4, InItsRow DEF FilterBlock, IInv, ColumnInv
  <2>2. r > 0 => \/ filtered[r - 1] = SbCols
                 \/ filtered[r - 1] >= filtered[r] + 2
    BY <2>1, NeighboursDone
  <2>3. filtered' = [filtered EXCEPT ![r] = @ + 1] /\ filtering' = filtering
    BY <1>4 DEF FilterBlock
  <2>4. WavefrontOrder!Process(r) /\ r \in WavefrontOrder!Row
    BY <2>1, <2>2, <2>3 DEF WavefrontOrder!Process, WavefrontOrder!Row, Rows
  <2> QED
    BY <2>4 DEF WavefrontOrder!Next
<1> QED
  BY <1>1, <1>2, <1>3, <1>4 DEF InRows, WorkerStep

-----------------------------------------------------------------------------
(* Frames that all have the same number of tile columns *)

SameTileCols == \A m, n \in TileCols : m = n

\* The workers of the frames so far.
FramesInv ==
  \/ num_workers = 0
  \/ \E n \in TileCols : num_workers = IF NWorkers < n THEN NWorkers ELSE n

\* Every step keeps both.
LEMMA NextDone ==
  ASSUME SameTileCols, IInv, DoneInv, FramesInv, [Next]_vars
  PROVE  DoneInv' /\ FramesInv'
<1>1. ASSUME NEW n \in TileCols, LoopFilterRowsMt(n)
      PROVE  DoneInv' /\ FramesInv'
  <2>1. num_workers' = IF NWorkers < n THEN NWorkers ELSE n
    BY <1>1 DEF LoopFilterRowsMt
  <2>2. num_workers = 0 \/ num_workers = num_workers'
    BY <2>1 DEF FramesInv, SameTileCols
  <2>3. n \in Nat \ {0}
    BY LoopFilterSizes
  <2> QED
    BY <1>1, <2>1, <2>2, <2>3, BeginDone DEF FramesInv
<1>2. CASE InRows
  BY <1>2, InRowsDone DEF FramesInv
<1>3. CASE UNCHANGED vars
  BY <1>3 DEF vars, DoneInv, FramesInv, AllRowsFiltered
<1> QED
  BY <1>1, <1>2, <1>3 DEF Next, InRows

\* "Wait till all rows are finished" means it: after the sync every superblock
\* of the picture is filtered, for any size and any number of workers.
THEOREM EveryRowFiltered ==
  ASSUME SameTileCols
  PROVE  Spec => []AllRowsFiltered
<1>1. IInv /\ DoneInv /\ FramesInv /\ [Next]_vars => DoneInv' /\ FramesInv'
  BY NextDone
<1>2. DoneInv => AllRowsFiltered
  BY DEF DoneInv
<1>3. Init => FramesInv
  BY DEF Init, FramesInv
<1> QED
  BY <1>1, <1>2, <1>3, InitDone, Invariance, PTL DEF Spec

\* The order of the filter is the wavefront, for any picture, any number of
\* workers and every sync range: no superblock is filtered before the ones
\* above it and above its right neighbour.
THEOREM FilterIsWavefront ==
  ASSUME SameTileCols
  PROVE  Spec => ImplementsWavefront
<1>1. Init => FramesInv
  BY DEF Init, FramesInv
<1>2. IInv /\ DoneInv /\ FramesInv /\ [Next]_vars => DoneInv' /\ FramesInv'
  BY NextDone
<1>3. IInv /\ DoneInv' /\ [Next]_vars
        => [WavefrontOrder!Next]_(WavefrontOrder!vars)
  <2> SUFFICES ASSUME IInv, DoneInv', [Next]_vars
               PROVE  [WavefrontOrder!Next]_(WavefrontOrder!vars)
    OBVIOUS
  <2>1. CASE UNCHANGED vars
    BY <2>1 DEF vars, WavefrontOrder!vars
  <2> QED
    BY <2>1, BeginIsWavefront, InRowsIsWavefront DEF Next, InRows
<1> QED
  BY <1>1, <1>2, <1>3, InitDone, WavefrontInit, Invariance, PTL
  DEF Spec, ImplementsWavefront, WavefrontOrder!Spec

-----------------------------------------------------------------------------
(* The rearrangement of the tiles *)

\* The quotient is the one that leaves a remainder.
LEMMA DivUnique ==
  ASSUME NEW k \in Nat \ {0}, NEW a \in Nat, NEW g \in Nat,
         k * g <= a, a < k * g + k
  PROVE  a \div k = g
<1> DEFINE q == a \div k
<1>1. /\ q \in Nat /\ a % k \in 0 .. k - 1
      /\ a = k * q + (a % k)
  BY DivMod
<1>2. k * q \in Int /\ k * g \in Int
  BY <1>1
<1>3. CASE q < g
  BY <1>1, <1>2, <1>3, Times
<1>4. CASE g < q
  BY <1>1, <1>2, <1>4, Times
<1> QED
  BY <1>1, <1>3, <1>4

\* A frame has no more columns than tiles.
LEMMA FirstFactor ==
  ASSUME NEW a \in Nat, NEW b \in Nat \ {0}
  PROVE  a <= a * b
<1>1. a * b = a + a * (b - 1) /\ a * (b - 1) >= 0
  OBVIOUS
<1> QED
  BY <1>1

\* A tile's worker is one of the workers.
LEMMA ModNat ==
  ASSUME NEW n \in Nat \ {0}, NEW a \in Nat
  PROVE  a % n \in 0 .. n - 1 /\ ~(a % n < 0)
<1>1. a % n \in 0 .. n - 1
  BY DivMod
<1> QED
  BY <1>1

\* The first place of the group of place p, and its last.
First(p, k) == ((p - 1) \div k) * k + 1
Last(p, k, cols) == LeastOf(First(p, k) + k - 1, cols)

\* A place is between the first and the last of its group, and so is every
\* place of the group.
LEMMA Groups ==
  ASSUME NEW k \in Nat \ {0}, NEW cols \in Nat \ {0}, NEW p \in 1 .. cols
  PROVE  /\ First(p, k) \in 1 .. p
         /\ Last(p, k, cols) \in p .. cols
         /\ \A q \in First(p, k) .. Last(p, k, cols) :
              First(q, k) = First(p, k) /\ Last(q, k, cols) = Last(p, k, cols)
<1> DEFINE g == (p - 1) \div k
<1>1. /\ g \in Nat
      /\ k * g \in Nat
      /\ k * g <= p - 1 /\ p - 1 < k * g + k
  <2>1. p - 1 \in Nat
    OBVIOUS
  <2>2. /\ g \in Nat /\ (p - 1) % k \in 0 .. k - 1
        /\ p - 1 = k * g + ((p - 1) % k)
    BY <2>1, DivMod
  <2>3. k * g \in Nat
    BY <2>2
  <2> QED
    BY <2>2, <2>3
<1>2. First(p, k) = k * g + 1
  BY <1>1 DEF First
<1>3. First(p, k) \in 1 .. p /\ Last(p, k, cols) \in p .. cols
  BY <1>1, <1>2 DEF Last, LeastOf
<1>4. ASSUME NEW q \in First(p, k) .. Last(p, k, cols)
      PROVE  First(q, k) = First(p, k)
  <2>1. q \in Int /\ k * g + 1 <= q /\ q <= k * g + k
    BY <1>1, <1>2, <1>3 DEF Last, LeastOf
  <2>2. q - 1 \in Nat /\ k * g <= q - 1 /\ q - 1 < k * g + k
    BY <1>1, <2>1
  <2>3. (q - 1) \div k = g
    BY <1>1, <2>2, DivUnique
  <2> QED
    BY <2>3 DEF First
<1> QED
  BY <1>3, <1>4 DEF Last

\* The place that place p gets its tile from.
From(p, k, cols) == IF p = Last(p, k, cols) THEN First(p, k) ELSE p + 1

\* Every place gets the tile of another one, and every tile has a place.
LEMMA FromIsBijection ==
  ASSUME NEW k \in Nat \ {0}, NEW cols \in Nat \ {0}
  PROVE  /\ \A p \in 1 .. cols : From(p, k, cols) \in 1 .. cols
         /\ \A p, q \in 1 .. cols : From(p, k, cols) = From(q, k, cols) => p = q
         /\ \A r \in 1 .. cols : \E p \in 1 .. cols : From(p, k, cols) = r
<1>1. ASSUME NEW p \in 1 .. cols
      PROVE  /\ From(p, k, cols) \in First(p, k) .. Last(p, k, cols)
             /\ From(p, k, cols) \in 1 .. cols
             /\ First(From(p, k, cols), k) = First(p, k)
             /\ Last(From(p, k, cols), k, cols) = Last(p, k, cols)
  <2>1. /\ First(p, k) \in 1 .. p /\ Last(p, k, cols) \in p .. cols
    BY Groups
  <2>2. From(p, k, cols) \in First(p, k) .. Last(p, k, cols)
    BY <2>1 DEF From
  <2>3. /\ First(From(p, k, cols), k) = First(p, k)
        /\ Last(From(p, k, cols), k, cols) = Last(p, k, cols)
    BY <2>2, Groups
  <2>4. From(p, k, cols) \in 1 .. cols
    BY <2>1, <2>2
  <2> QED
    BY <2>2, <2>3, <2>4
<1>2. ASSUME NEW p \in 1 .. cols, NEW q \in 1 .. cols,
             From(p, k, cols) = From(q, k, cols)
      PROVE  p = q
  <2>1. First(p, k) = First(q, k) /\ Last(p, k, cols) = Last(q, k, cols)
    BY <1>1, <1>2
  <2>2. First(p, k) \in 1 .. p /\ First(q, k) \in 1 .. q
    BY Groups
  <2> QED
    BY <1>2, <2>1, <2>2 DEF From
<1>3. ASSUME NEW r \in 1 .. cols
      PROVE  \E p \in 1 .. cols : From(p, k, cols) = r
  <2>1. First(r, k) \in 1 .. r /\ Last(r, k, cols) \in r .. cols
    BY Groups
  <2>2. CASE r = First(r, k)
    <3>1. Last(r, k, cols) \in First(r, k) .. Last(r, k, cols)
      BY <2>1
    <3>2. From(Last(r, k, cols), k, cols) = r
      BY <2>2, <3>1, Groups DEF From
    <3> QED
      BY <2>1, <3>2
  <2>3. CASE r # First(r, k)
    <3>1. r - 1 \in First(r, k) .. Last(r, k, cols) /\ r - 1 \in 1 .. cols
      BY <2>1, <2>3
    <3>2. Last(r - 1, k, cols) = Last(r, k, cols)
      BY <3>1, Groups
    <3>3. From(r - 1, k, cols) = r
      BY <2>1, <3>1, <3>2 DEF From
    <3> QED
      BY <3>1, <3>3
  <2> QED
    BY <2>2, <2>3
<1> QED
  BY <1>1, <1>2, <1>3

\* The rearrangement loses no tile and doubles none.
LEMMA RegroupedIsBijection ==
  ASSUME frame.cols \in Nat \ {0}, NEW k \in Nat \ {0},
         NEW sorted \in Bijection(1 .. frame.cols, 0 .. frame.cols - 1)
  PROVE  Regrouped(sorted, k) \in Bijection(1 .. frame.cols, 0 .. frame.cols - 1)
<1> DEFINE cols == frame.cols
           P == 1 .. cols
           T == 0 .. cols - 1
           b == Regrouped(sorted, k)
<1>1. /\ sorted \in [P -> T]
      /\ \A p, q \in P : sorted[p] = sorted[q] => p = q
      /\ \A t \in T : \E p \in P : sorted[p] = t
  BY DEF Bijection, Injection, Surjection, IsInjective
<1>2. b = [p \in P |-> sorted[From(p, k, cols)]]
  <2>1. DOMAIN sorted = P
    BY <1>1
  <2>2. ASSUME NEW p \in P
        PROVE  (IF p = Last(p, k, cols) THEN sorted[First(p, k)]
                ELSE sorted[p + 1]) = sorted[From(p, k, cols)]
    BY DEF From
  <2> QED
    BY <2>1, <2>2 DEF Regrouped, First, Last
<1>3. \A p \in P : From(p, k, cols) \in P
  BY FromIsBijection
<1>4. b \in [P -> T]
  BY <1>1, <1>2, <1>3
<1>5. ASSUME NEW p \in P, NEW q \in P, b[p] = b[q]
      PROVE  p = q
  <2>1. From(p, k, cols) \in P /\ From(q, k, cols) \in P
    BY <1>3
  <2>2. sorted[From(p, k, cols)] = sorted[From(q, k, cols)]
    BY <1>2, <1>5
  <2>3. From(p, k, cols) = From(q, k, cols)
    BY <1>1, <2>1, <2>2
  <2> QED
    BY <2>3, FromIsBijection
<1>6. ASSUME NEW t \in T
      PROVE  \E p \in P : b[p] = t
  <2>1. PICK r \in P : sorted[r] = t
    BY <1>1
  <2>2. PICK p \in P : From(p, k, cols) = r
    BY FromIsBijection
  <2> QED
    BY <1>2, <2>1, <2>2
<1> QED
  BY <1>4, <1>5, <1>6 DEF Bijection, Injection, Surjection, IsInjective
-----------------------------------------------------------------------------
(* The invariant *)

\* The orders that the tiles of a frame may be given to the workers in.
Orders(cols) == Bijection(1 .. cols, 0 .. cols - 1)
Buffers == {<<>>} \cup UNION {Orders(cols) : cols \in Nat}

FrameState == [cols : Nat, rows : Nat, filter : Nat, buffers : Buffers,
               n : Nat, i : Nat, corrupted : BOOLEAN, final_worker : Int,
               end : Int]
JobState == [at : {"ready", "tile"}, tile : Int, had_error : BOOLEAN,
             counts : [Tile -> Nat]]

CodecTypeOK ==
  /\ codec \in {"decoder", "encoder"}
  /\ at \in {"app", "sizes", "round", "launch", "sync", "handler", "filter",
             "filtering"}
  /\ frame \in FrameState
  /\ created \in 0 .. NWorkers
  /\ job \in [Workers -> JobState]
  /\ done \in [Tile -> Nat]

\* The number of tiles of the frame.
Total == frame.cols * frame.rows

\* The places that only one of the two codecs is in, and where it filters.
PlaceInv ==
  /\ at \in {"sizes", "round", "handler"} => codec = "decoder"
  /\ at = "launch" => codec = "encoder"
  /\ filtering => at = "filtering"

\* The threads are those of the first frame.
ThreadsInv ==
  /\ alive = 0 .. created - 2
  /\ codec = "decoder" => created \in {0, ThreadsCreated(0)}
  /\ codec = "encoder" =>
       created = 0 \/ \E cols \in TileCols : created = ThreadsCreated(cols)

\* A frame has several tile columns, no more tiles than there are numbers, and
\* no more workers than were created, nor launched.
FrameInv ==
  at # "app" =>
    /\ NWorkers > 1 /\ frame.cols > 1
    /\ frame.cols <= Total /\ Total <= MaxTiles
    /\ codec = "decoder" => Total = frame.cols
    /\ codec = "encoder" \/ frame.filter > 0 => frame.cols \in TileCols
    /\ num_tile_workers \in 1 .. created
    /\ frame.i <= num_tile_workers

\* The numbers that are not the frame's count as done, and before any tile is
\* launched none is.
PaddingInv ==
  /\ at # "app" => \A t \in Tile : t >= Total => done[t] = 1
  /\ at = "sizes" => \A t \in Tile : t < Total => done[t] = 0

\* Tiles are worked on while the codec's thread launches them, waits for them,
\* or is in the error handler; each by one worker, and none again.
WorkInv ==
  \A w \in Workers : job[w].at = "tile" =>
    /\ at \in {"round", "launch", "sync", "handler"}
    /\ w < created
    /\ job[w].tile \in Tile
    /\ done[job[w].tile] = 0
    /\ \A v \in Workers : job[v].at = "tile" /\ v # w
                           => job[v].tile # job[w].tile

\* The decoder's rounds.  The first frame.n tiles were launched, the last
\* frame.i of them in this round, for the workers 0 .. frame.i - 1.
RoundInv ==
  codec = "decoder" /\ at \in {"round", "sync"} =>
    /\ frame.buffers \in Orders(frame.cols)
    /\ frame.n <= frame.cols
    /\ frame.i <= frame.n
    /\ at = "round" => frame.n < frame.cols /\ frame.i < num_tile_workers
    /\ \A w \in Workers :
         IF w < frame.i
           THEN /\ job[w].tile = frame.buffers[frame.n - frame.i + w + 1]
                /\ job[w].at = "ready" => done[job[w].tile] = 1
           ELSE job[w].at = "ready"
    /\ \A p \in 1 .. frame.cols :
         /\ p <= frame.n - frame.i => done[frame.buffers[p]] = 1
         /\ p > frame.n => done[frame.buffers[p]] = 0

\* The last tile column was not launched yet, its worker is known, or its end.
FinalInv ==
  codec = "decoder" =>
    /\ at \in {"round", "sync"} =>
         \/ /\ frame.final_worker = -1
            /\ \/ frame.end = frame.cols - 1
               \/ \A p \in 1 .. frame.n : frame.buffers[p] # frame.cols - 1
         \/ /\ frame.final_worker \in 0 .. frame.i - 1
            /\ job[frame.final_worker].tile = frame.cols - 1
    /\ at = "sizes" =>
         /\ frame.n = 0 /\ frame.i = 0 /\ frame.final_worker = -1
    /\ at \in {"filter", "filtering"} => frame.end = frame.cols - 1

\* The encoder's strides.  Worker w has the tiles congruent to w.
StrideInv ==
  codec = "encoder" /\ at \in {"launch", "sync"} =>
    /\ at = "launch" => frame.i < num_tile_workers
    /\ at = "sync" => frame.i = num_tile_workers
    /\ \A w \in Workers : job[w].at = "tile" =>
         w < frame.i /\ job[w].tile < Total /\ job[w].tile % created = w
    /\ \A t \in Tile : t < Total =>
         LET w == t % created
         IN IF w < frame.i /\ (job[w].at = "tile" => t < job[w].tile)
              THEN done[t] = 1 ELSE done[t] = 0

CodecInv ==
  /\ IInv
  /\ CodecTypeOK
  /\ PlaceInv
  /\ ThreadsInv
  /\ FrameInv
  /\ PaddingInv
  /\ WorkInv
  /\ RoundInv
  /\ FinalInv
  /\ StrideInv
-----------------------------------------------------------------------------
(* The invariant is one *)

\* Steps that leave the loop filter alone keep its invariant.
LEMMA FilterUnchanged == IInv /\ UNCHANGED vars => IInv'
BY NextInv

LEMMA CodecInitInv == CodecInit => CodecInv
<1> SUFFICES ASSUME CodecInit PROVE CodecInv
  OBVIOUS
<1> USE LoopFilterSizes, TileAssumptions DEF CodecInit
<1>1. IInv
  BY InitInv
<1>2. CodecTypeOK
  <2>1. frame \in FrameState
    BY DEF FrameState, NoFrame, NoTile, Buffers
  <2>2. NoCounts \in [Tile -> Nat]
    BY DEF NoCounts
  <2>3. job \in [Workers -> JobState]
    BY <2>2 DEF JobState, NoTile
  <2>4. done \in [Tile -> Nat]
    OBVIOUS
  <2>5. created \in 0 .. NWorkers
    OBVIOUS
  <2> QED
    BY <2>1, <2>3, <2>4, <2>5 DEF CodecTypeOK
<1>3. PlaceInv /\ ThreadsInv /\ FrameInv /\ PaddingInv
  BY DEF Init, PlaceInv, ThreadsInv, FrameInv, PaddingInv
<1>4. WorkInv /\ RoundInv /\ FinalInv /\ StrideInv
  BY DEF WorkInv, RoundInv, FinalInv, StrideInv
<1> QED
  BY <1>1, <1>2, <1>3, <1>4 DEF CodecInv

\* Between frames nobody works.
LEMMA AllIdle ==
  ASSUME CodecInv, at \in {"app", "sizes", "filter", "filtering"}
  PROVE  \A w \in Workers : job[w].at = "ready"
BY DEF CodecInv, WorkInv, CodecTypeOK, JobState

\* A frame begins.
LEMMA BeginInvariant ==
  ASSUME CodecInv,
         NEW cols \in Nat, NEW rows \in Nat \ {0}, NEW filter \in Nat,
         NEW place \in {"sizes", "launch"},
         BeginFrame(cols, rows, filter, place), CreateWorkers(cols),
         cols <= cols * rows, cols * rows <= MaxTiles,
         place = IF codec = "decoder" THEN "sizes" ELSE "launch",
         codec = "decoder" => rows = 1,
         codec = "encoder" \/ filter > 0 => cols \in TileCols,
         created = 0 \/ LeastOf(ThreadsCreated(cols), cols) <= created
  PROVE  CodecInv'
<1> USE LoopFilterSizes, TileAssumptions DEF CodecInv
<1>1. /\ at = "app" /\ at' = place /\ NWorkers > 1 /\ cols > 1
      /\ codec' = codec /\ UNCHANGED vars
  BY DEF BeginFrame
<1>2. /\ frame' \in FrameState
      /\ frame'.cols = cols /\ frame'.rows = rows /\ frame'.filter = filter
      /\ frame'.n = 0 /\ frame'.i = 0 /\ frame'.final_worker = -1
  <2>1. NoFrame \in FrameState
    BY DEF FrameState, NoFrame, NoTile, Buffers
  <2>2. NoFrame.n = 0 /\ NoFrame.i = 0 /\ NoFrame.final_worker = -1
    BY DEF NoFrame
  <2> DEFINE f1 == [NoFrame EXCEPT !.cols = cols]
             f2 == [f1 EXCEPT !.rows = rows]
             f3 == [f2 EXCEPT !.filter = filter]
  <2>3. f1 \in FrameState /\ f1.cols = cols
        /\ f1.n = 0 /\ f1.i = 0 /\ f1.final_worker = -1
    BY <2>1, <2>2 DEF FrameState
  <2>4. f2 \in FrameState /\ f2.cols = cols /\ f2.rows = rows
        /\ f2.n = 0 /\ f2.i = 0 /\ f2.final_worker = -1
    <3> HIDE DEF f1
    <3> QED
      BY <2>3 DEF FrameState
  <2>5. f3 \in FrameState /\ f3.cols = cols /\ f3.rows = rows
        /\ f3.filter = filter
        /\ f3.n = 0 /\ f3.i = 0 /\ f3.final_worker = -1
    <3> HIDE DEF f2
    <3> QED
      BY <2>4 DEF FrameState
  <2>6. frame' = f3
    BY DEF BeginFrame
  <2> HIDE DEF f3
  <2> QED
    BY <2>5, <2>6
<1>3. /\ job' \in [Workers -> JobState]
      /\ \A w \in Workers : job'[w].at = "ready"
  <2>1. NoCounts \in [Tile -> Nat]
    BY DEF NoCounts
  <2>2. job' = [w \in Workers |-> [job[w] EXCEPT !.counts = NoCounts]]
    BY DEF BeginFrame
  <2>3. job \in [Workers -> JobState]
    BY DEF CodecTypeOK
  <2>4. \A w \in Workers : job'[w] = [job[w] EXCEPT !.counts = NoCounts]
    BY <2>2
  <2>5. \A w \in Workers : job[w].at = "ready"
    BY <1>1, AllIdle
  <2>6. ASSUME NEW w \in Workers
        PROVE  [job[w] EXCEPT !.counts = NoCounts] \in JobState
               /\ [job[w] EXCEPT !.counts = NoCounts].at = "ready"
    BY <2>1, <2>3, <2>5 DEF JobState
  <2> QED
    BY <2>2, <2>4, <2>6
<1>4. /\ done' \in [Tile -> Nat]
      /\ \A t \in Tile : done'[t] = IF t < cols * rows THEN 0 ELSE 1
  BY DEF BeginFrame
<1>5. /\ created' \in 1 .. NWorkers
      /\ alive' = 0 .. created' - 2
      /\ num_tile_workers' \in 1 .. created'
      /\ created # 0 => created' = created
      /\ created = 0 => created' = ThreadsCreated(cols)
  <2>1. CASE created = 0
    <3>1. created' = ThreadsCreated(cols) /\ alive' = 0 .. created' - 2
      BY <2>1 DEF CreateWorkers
    <3>2. NWorkers % 2 \in {0, 1}
      OBVIOUS
    <3> QED
      BY <1>1, <1>2, <2>1, <3>1, <3>2
      DEF ThreadsCreated, LeastOf, num_tile_workers
  <2>2. CASE created # 0
    <3>1. created' = created /\ alive' = alive
      BY <2>2 DEF CreateWorkers
    <3>2. created \in 1 .. NWorkers /\ NWorkers % 2 \in {0, 1}
      BY <2>2 DEF CodecTypeOK
    <3>3. num_tile_workers' = LeastOf(ThreadsCreated(cols), cols)
      BY <1>1, <1>2, <3>2 DEF num_tile_workers, ThreadsCreated, LeastOf
    <3>4. LeastOf(ThreadsCreated(cols), cols) \in Nat \ {0}
      BY <1>1, <3>2 DEF ThreadsCreated, LeastOf
    <3> QED
      BY <2>2, <3>1, <3>2, <3>3, <3>4 DEF ThreadsInv
  <2> QED
    BY <2>1, <2>2
<1>6. IInv'
  BY <1>1, FilterUnchanged
<1>7. CodecTypeOK'
  BY <1>1, <1>2, <1>3, <1>4, <1>5 DEF CodecTypeOK
<1>8. PlaceInv'
  BY <1>1 DEF PlaceInv, CodecTypeOK, vars
<1>9. ThreadsInv'
  BY <1>1, <1>5 DEF ThreadsInv, ThreadsCreated, CodecTypeOK
<1>10. FrameInv' /\ PaddingInv'
  <2>1. Total' = cols * rows /\ cols * rows \in Nat
    BY <1>2 DEF Total
  <2>2. codec = "decoder" => cols * rows = cols
    OBVIOUS
  <2>3. FrameInv'
    BY <1>1, <1>2, <1>5, <2>1, <2>2 DEF FrameInv, CodecTypeOK
  <2>4. PaddingInv'
    BY <1>1, <1>4, <2>1 DEF PaddingInv, Tile
  <2> QED
    BY <2>3, <2>4
<1>11. WorkInv'
  BY <1>3 DEF WorkInv
<1>12. RoundInv' /\ FinalInv'
  BY <1>1, <1>2 DEF RoundInv, FinalInv, CodecTypeOK
<1>13. StrideInv'
  <2>1. Total' = cols * rows
    BY <1>2 DEF Total
  <2>2. ASSUME NEW t \in Tile
        PROVE  ~(t % (created') < 0)
    <3>1. t \in Nat /\ created' \in Nat \ {0}
      BY <1>5 DEF Tile
    <3> QED
      BY <3>1, ModNat
  <2>3. CASE codec = "encoder"
    <3>1. /\ at' = "launch" /\ frame'.i = 0 /\ 0 < num_tile_workers'
          /\ 0 <= num_tile_workers'
      BY <1>1, <1>2, <1>5, <2>3
    <3>2. \A t \in Tile : t < Total' => done'[t] = 0
      BY <1>4, <2>1
    <3> QED
      BY <1>3, <2>2, <3>1, <3>2 DEF StrideInv
  <2>4. CASE codec = "decoder"
    BY <1>1, <2>4 DEF StrideInv
  <2> QED
    BY <2>3, <2>4 DEF CodecTypeOK
<1> QED
  BY <1>6, <1>7, <1>8, <1>9, <1>10, <1>11, <1>12, <1>13

\* decode_tiles_mt() begins.
LEMMA DecodeTilesMtInv == CodecInv /\ DecodeTilesMt => CodecInv'
<1> SUFFICES ASSUME CodecInv, DecodeTilesMt PROVE CodecInv'
  OBVIOUS
<1>1. PICK cols \in TileCols \cup UnfilteredCols :
        /\ created = 0 \/ LeastOf(ThreadsCreated(cols), cols) <= created
        /\ BeginFrame(cols, 1, IF cols \in UnfilteredCols THEN 0 ELSE 1, "sizes")
        /\ CreateWorkers(cols)
  BY DEF DecodeTilesMt
<1>2. codec = "decoder"
  BY DEF DecodeTilesMt
<1> DEFINE filter == IF cols \in UnfilteredCols THEN 0 ELSE 1
<1>3. filter \in Nat /\ (filter > 0 => cols \in TileCols)
  OBVIOUS
<1>4. /\ cols \in Nat /\ cols * 1 = cols /\ cols <= MaxTiles
  BY LoopFilterSizes, TileAssumptions
<1> HIDE DEF filter
<1>5. BeginFrame(cols, 1, filter, "sizes")
  BY <1>1 DEF filter
<1>6. "sizes" = IF codec = "decoder" THEN "sizes" ELSE "launch"
  BY <1>2
<1>7. codec = "encoder" \/ filter > 0 => cols \in TileCols
  BY <1>2, <1>3
<1> QED
  BY <1>1, <1>3, <1>4, <1>5, <1>6, <1>7, BeginInvariant

\* vp9_encode_tiles_mt() begins.
LEMMA EncodeTilesMtInv == CodecInv /\ EncodeTilesMt => CodecInv'
<1> SUFFICES ASSUME CodecInv, EncodeTilesMt PROVE CodecInv'
  OBVIOUS
<1>1. PICK cols \in TileCols, rows \in TileRows, filter \in 0 .. Filterings :
        /\ created = 0 \/ LeastOf(NWorkers, cols) <= created
        /\ BeginFrame(cols, rows, filter, "launch")
        /\ CreateWorkers(cols)
  BY DEF EncodeTilesMt
<1>2. codec = "encoder"
  BY DEF EncodeTilesMt
<1>3. cols \in Nat /\ rows \in Nat \ {0} /\ filter \in Nat
  BY LoopFilterSizes, TileAssumptions
<1>4. cols * rows <= MaxTiles
  BY TileAssumptions
<1>5. cols <= cols * rows
  BY <1>3, FirstFactor
<1>6. created = 0 \/ LeastOf(ThreadsCreated(cols), cols) <= created
  BY <1>1, <1>2, <1>3, LoopFilterSizes DEF ThreadsCreated, LeastOf
<1>7. "launch" = IF codec = "decoder" THEN "sizes" ELSE "launch"
  BY <1>2
<1> QED
  BY <1>1, <1>2, <1>3, <1>4, <1>5, <1>6, <1>7, BeginInvariant

\* The tiles' order is one of them all.
LEMMA GetTileBuffersInv == CodecInv /\ GetTileBuffers => CodecInv'
<1> SUFFICES ASSUME CodecInv, GetTileBuffers PROVE CodecInv'
  OBVIOUS
<1> USE DEF CodecInv
<1> DEFINE buffers == frame'.buffers
<1>1. /\ at = "sizes" /\ at' = "round" /\ codec = "decoder"
      /\ UNCHANGED <<vars, codec, created, alive, job, done>>
  BY DEF GetTileBuffers, PlaceInv
<1>2. /\ frame.cols \in Nat /\ frame.cols > 1 /\ Total = frame.cols
      /\ Total <= MaxTiles /\ num_tile_workers \in 1 .. created
      /\ created \in 0 .. NWorkers
  BY <1>1 DEF FrameInv, CodecTypeOK, FrameState
<1>3. num_tile_workers \in Nat \ {0}
  BY <1>2, LoopFilterSizes
<1>4. PICK sorted \in Bijection(1 .. frame.cols, 0 .. frame.cols - 1) :
        frame' = [frame EXCEPT !.buffers = Regrouped(sorted, num_tile_workers)]
  BY DEF GetTileBuffers
<1>5. Regrouped(sorted, num_tile_workers) \in Orders(frame.cols)
  BY <1>2, <1>3, RegroupedIsBijection DEF Orders
<1>6. Regrouped(sorted, num_tile_workers) \in Buffers
  BY <1>2, <1>5 DEF Buffers
<1>7. /\ frame' \in FrameState /\ buffers \in Orders(frame.cols)
      /\ frame'.cols = frame.cols /\ frame'.rows = frame.rows
      /\ frame'.filter = frame.filter
      /\ frame'.n = 0 /\ frame'.i = 0 /\ frame'.final_worker = -1
  BY <1>1, <1>4, <1>5, <1>6 DEF CodecTypeOK, FrameState, FinalInv
<1>8. num_tile_workers' = num_tile_workers /\ Total' = Total
  BY <1>1, <1>7 DEF num_tile_workers, Total
<1>9. \A w \in Workers : job[w].at = "ready"
  BY <1>1, AllIdle
<1>10. IInv' /\ CodecTypeOK' /\ ThreadsInv' /\ PlaceInv'
  <2>1. IInv'
    BY <1>1, FilterUnchanged
  <2>2. CodecTypeOK'
    BY <1>1, <1>7 DEF CodecTypeOK
  <2>3. ThreadsInv' /\ PlaceInv'
    BY <1>1 DEF ThreadsInv, ThreadsCreated, PlaceInv, vars
  <2> QED
    BY <2>1, <2>2, <2>3
<1>11. FrameInv' /\ PaddingInv' /\ StrideInv'
  BY <1>1, <1>7, <1>8 DEF FrameInv, PaddingInv, StrideInv
<1>12. WorkInv'
  BY <1>1, <1>9 DEF WorkInv
<1>13. RoundInv'
  <2>1. \A p \in 1 .. frame.cols : buffers[p] \in 0 .. frame.cols - 1
    BY <1>7 DEF Orders, Bijection, Injection
  <2>2. ASSUME NEW p \in 1 .. frame.cols
        PROVE  done[buffers[p]] = 0
    <3>1. buffers[p] \in Tile /\ buffers[p] < Total
      BY <1>2, <2>1, TileAssumptions DEF Tile
    <3> QED
      BY <1>1, <3>1 DEF PaddingInv
  <2> QED
    BY <1>1, <1>2, <1>7, <1>8, <1>9, <2>2, LoopFilterSizes
    DEF RoundInv, Workers
<1>14. FinalInv'
  BY <1>1, <1>7 DEF FinalInv
<1> QED
  BY <1>10, <1>11, <1>12, <1>13, <1>14

\* The decoder gives the frame up.
LEMMA TruncatedInv == CodecInv /\ Truncated => CodecInv'
<1> SUFFICES ASSUME CodecInv, Truncated PROVE CodecInv'
  OBVIOUS
<1> USE DEF CodecInv
<1>1. /\ at \in {"sizes", "round"} /\ at' = "handler" /\ codec = "decoder"
      /\ UNCHANGED <<vars, codec, frame, created, alive, job, done>>
  BY DEF Truncated, PlaceInv
<1>2. IInv' /\ CodecTypeOK' /\ ThreadsInv' /\ PlaceInv'
  <2>1. IInv'
    BY <1>1, FilterUnchanged
  <2>2. CodecTypeOK'
    BY <1>1 DEF CodecTypeOK
  <2>3. ThreadsInv' /\ PlaceInv'
    BY <1>1 DEF ThreadsInv, ThreadsCreated, PlaceInv, vars
  <2> QED
    BY <2>1, <2>2, <2>3
<1>3. FrameInv' /\ PaddingInv' /\ StrideInv' /\ RoundInv' /\ FinalInv'
  BY <1>1 DEF FrameInv, PaddingInv, StrideInv, RoundInv, FinalInv, Total,
              num_tile_workers
<1>4. WorkInv'
  BY <1>1 DEF WorkInv
<1> QED
  BY <1>2, <1>3, <1>4

\* A tile is launched: its worker is idle, and nobody has or had the tile.
LEMMA LaunchTileInv == CodecInv /\ LaunchTile => CodecInv'
<1> SUFFICES ASSUME CodecInv, LaunchTile PROVE CodecInv'
  OBVIOUS
<1> USE DEF CodecInv
<1> DEFINE w == frame.i
           b == frame.buffers
           col == b[frame.n + 1]
           last == w = num_tile_workers - 1 \/ frame.n = frame.cols - 1
           started == [job[w] EXCEPT
                         !.at = IF Starts(w, last) THEN "tile" ELSE "ready",
                         !.tile = col, !.had_error = FALSE]
<1>1. /\ at = "round" /\ codec = "decoder" /\ at' \in {"round", "sync"}
      /\ at' = "round" => ~last
      /\ UNCHANGED <<vars, codec, created, alive, done>>
      /\ job' = [job EXCEPT ![w] = started]
      /\ frame' = [frame EXCEPT !.i = w + 1, !.n = @ + 1,
                                !.final_worker = FinalWorker(col)]
  BY DEF LaunchTile, PlaceInv
<1>2. /\ frame.cols \in Nat /\ frame.cols > 1 /\ Total = frame.cols
      /\ Total <= MaxTiles /\ num_tile_workers \in 1 .. created
      /\ created \in 0 .. NWorkers
      /\ frame.n \in Nat /\ w \in Nat /\ frame.final_worker \in Int
      /\ frame \in FrameState
  BY <1>1 DEF FrameInv, CodecTypeOK, FrameState
<1>3. /\ b \in [1 .. frame.cols -> 0 .. frame.cols - 1]
      /\ \A p, q \in 1 .. frame.cols : b[p] = b[q] => p = q
      /\ frame.n < frame.cols /\ w < num_tile_workers /\ w <= frame.n
  BY <1>1 DEF RoundInv, Orders, Bijection, Injection, IsInjective
<1>4. /\ w \in Workers /\ w < created /\ job[w].at = "ready"
      /\ frame.n + 1 \in 1 .. frame.cols
      /\ col \in 0 .. frame.cols - 1 /\ col \in Tile
      /\ done[col] = 0
  <2>1. /\ w \in Workers /\ w < created
        /\ frame.n + 1 \in 1 .. frame.cols
    BY <1>2, <1>3, LoopFilterSizes DEF Workers
  <2>2. job[w].at = "ready"
    BY <1>1, <1>2, <2>1 DEF RoundInv
  <2>3. col \in 0 .. frame.cols - 1
    BY <1>3, <2>1
  <2>4. col \in Tile
    BY <1>2, <2>3, TileAssumptions DEF Tile
  <2>5. frame.n + 1 > frame.n
    BY <1>2
  <2>6. done[col] = 0
    BY <1>1, <2>1, <2>5 DEF RoundInv
  <2> QED
    BY <2>1, <2>2, <2>3, <2>4, <2>6
<1>5. Starts(w, last)
  BY <1>2, <1>3 DEF Starts, ThreadsInv
<1>6. /\ started \in JobState /\ started.at = "tile" /\ started.tile = col
  <2>1. job[w] \in JobState
    BY <1>4 DEF CodecTypeOK
  <2> HIDE DEF col, last
  <2>2. col \in Int
    BY <1>4
  <2>3. started = [job[w] EXCEPT !.at = "tile", !.tile = col, !.had_error = FALSE]
    BY <1>5
  <2> QED
    BY <2>1, <2>2, <2>3 DEF JobState
<1> HIDE DEF started
<1>7. /\ job' \in [Workers -> JobState]
      /\ job'[w].at = "tile" /\ job'[w].tile = col
      /\ \A v \in Workers : v # w => job'[v] = job[v]
  BY <1>1, <1>4, <1>6 DEF CodecTypeOK
<1>8. /\ frame' \in FrameState
      /\ frame'.cols = frame.cols /\ frame'.rows = frame.rows
      /\ frame'.filter = frame.filter /\ frame'.buffers = b
      /\ frame'.end = frame.end
      /\ frame'.i = w + 1 /\ frame'.n = frame.n + 1
      /\ frame'.final_worker = IF col = frame.cols - 1 THEN w
                               ELSE frame.final_worker
  <2> DEFINE final == FinalWorker(col)
             f1 == [frame EXCEPT !.i = w + 1]
             f2 == [f1 EXCEPT !.n = @ + 1]
             f3 == [f2 EXCEPT !.final_worker = final]
  <2>1. frame' = f3
    BY <1>1
  <2>2. final = (IF col = frame.cols - 1 THEN w ELSE frame.final_worker)
        /\ final \in Int
    BY <1>2 DEF FinalWorker
  <2> HIDE DEF final
  <2>3. /\ f1 \in FrameState /\ f1.i = w + 1
        /\ f1.cols = frame.cols /\ f1.rows = frame.rows
        /\ f1.filter = frame.filter /\ f1.buffers = b
        /\ f1.end = frame.end /\ f1.n = frame.n
    BY <1>2 DEF FrameState
  <2> HIDE DEF f1
  <2>4. /\ f2 \in FrameState /\ f2.i = w + 1
        /\ f2.cols = frame.cols /\ f2.rows = frame.rows
        /\ f2.filter = frame.filter /\ f2.buffers = b
        /\ f2.end = frame.end /\ f2.n = frame.n + 1
    BY <1>2, <2>3 DEF FrameState
  <2> HIDE DEF f2
  <2>5. /\ f3 \in FrameState /\ f3.i = w + 1
        /\ f3.cols = frame.cols /\ f3.rows = frame.rows
        /\ f3.filter = frame.filter /\ f3.buffers = b
        /\ f3.end = frame.end /\ f3.n = frame.n + 1
        /\ f3.final_worker = final
    BY <2>2, <2>4 DEF FrameState
  <2> QED
    BY <2>1, <2>2, <2>5
<1>9. num_tile_workers' = num_tile_workers /\ Total' = Total
  BY <1>1, <1>8 DEF num_tile_workers, Total
<1>10. IInv' /\ CodecTypeOK' /\ ThreadsInv' /\ PlaceInv'
  <2>1. IInv'
    BY <1>1, FilterUnchanged
  <2>2. CodecTypeOK'
    BY <1>1, <1>7, <1>8 DEF CodecTypeOK
  <2>3. ThreadsInv' /\ PlaceInv'
    BY <1>1 DEF ThreadsInv, ThreadsCreated, PlaceInv, vars
  <2> QED
    BY <2>1, <2>2, <2>3
<1>11. FrameInv' /\ PaddingInv' /\ StrideInv'
  <2>1. w + 1 <= num_tile_workers
    BY <1>2, <1>3
  <2> HIDE DEF w
  <2> QED
    BY <1>1, <1>8, <1>9, <2>1 DEF FrameInv, PaddingInv, StrideInv
<1>12. ASSUME NEW v \in Workers, job[v].at = "tile"
       PROVE  job[v].tile # col
  <2>1. v \in Nat /\ v < w /\ job[v].tile = b[frame.n - w + v + 1]
    BY <1>1, <1>4, <1>12 DEF RoundInv, Workers
  <2>2. /\ frame.n - w + v + 1 \in 1 .. frame.cols
        /\ frame.n - w + v + 1 # frame.n + 1
    BY <1>2, <1>3, <2>1
  <2> QED
    BY <1>3, <1>4, <2>1, <2>2
<1>13. WorkInv'
  BY <1>1, <1>4, <1>7, <1>12 DEF WorkInv
<1>14. RoundInv'
  <2>1. /\ b \in Orders(frame.cols)
        /\ \A v \in Workers :
             IF v < w
               THEN /\ job[v].tile = b[frame.n - w + v + 1]
                    /\ job[v].at = "ready" => done[job[v].tile] = 1
               ELSE job[v].at = "ready"
        /\ \A p \in 1 .. frame.cols :
             /\ p <= frame.n - w => done[b[p]] = 1
             /\ p > frame.n => done[b[p]] = 0
    BY <1>1 DEF RoundInv
  <2>2. /\ frame.n + 1 <= frame.cols /\ w + 1 <= frame.n + 1
        /\ w + 1 <= num_tile_workers
        /\ ~last => frame.n + 1 < frame.cols /\ w + 1 < num_tile_workers
    BY <1>2, <1>3
  <2>3. ASSUME NEW v \in Workers
        PROVE  IF v < w + 1
                 THEN /\ job'[v].tile = b[(frame.n + 1) - (w + 1) + v + 1]
                      /\ job'[v].at = "ready" => done[job'[v].tile] = 1
                 ELSE job'[v].at = "ready"
    <3>1. CASE v = w
      <4>1. (frame.n + 1) - (w + 1) + v + 1 = frame.n + 1 /\ v < w + 1
        BY <1>2, <3>1
      <4> QED
        BY <1>7, <3>1, <4>1
    <3>2. CASE v # w
      <4>1. /\ (frame.n + 1) - (w + 1) + v + 1 = frame.n - w + v + 1
            /\ v < w + 1 <=> v < w
        BY <1>2, <3>2 DEF Workers
      <4> QED
        BY <1>7, <2>1, <3>2, <4>1
    <3> QED
      BY <3>1, <3>2
  <2>4. ASSUME NEW p \in 1 .. frame.cols
        PROVE  /\ p <= (frame.n + 1) - (w + 1) => done[b[p]] = 1
               /\ p > frame.n + 1 => done[b[p]] = 0
    <3>1. (frame.n + 1) - (w + 1) = frame.n - w /\ (p > frame.n + 1 => p > frame.n)
      BY <1>2
    <3> QED
      BY <2>1, <3>1
  <2> HIDE DEF w, b, last
  <2> QED
    BY <1>1, <1>8, <1>9, <2>1, <2>2, <2>3, <2>4 DEF RoundInv
<1>15. FinalInv'
  <2>1. \/ /\ frame.final_worker = -1
           /\ \/ frame.end = frame.cols - 1
              \/ \A p \in 1 .. frame.n : b[p] # frame.cols - 1
        \/ /\ frame.final_worker \in 0 .. w - 1
           /\ job[frame.final_worker].tile = frame.cols - 1
    BY <1>1 DEF FinalInv
  <2>2. CASE col = frame.cols - 1
    <3>1. frame'.final_worker = w /\ w \in 0 .. frame'.i - 1
      BY <1>2, <1>8, <2>2
    <3> HIDE DEF w, b, col
    <3> QED
      BY <1>1, <1>7, <1>8, <2>2, <3>1 DEF FinalInv
  <2>3. CASE col # frame.cols - 1
    <3>1. frame'.final_worker = frame.final_worker
      BY <1>8, <2>3
    <3>2. CASE frame.final_worker = -1
      <4>1. ASSUME \A p \in 1 .. frame.n : b[p] # frame.cols - 1,
                   NEW p \in 1 .. frame.n + 1
            PROVE  b[p] # frame.cols - 1
        <5>1. p = frame.n + 1 \/ p \in 1 .. frame.n
          BY <1>2
        <5> QED
          BY <2>3, <4>1, <5>1
      <4>2. ~(frame.final_worker \in 0 .. w - 1)
        BY <3>2
      <4> HIDE DEF w, b, col
      <4> QED
        BY <1>1, <1>8, <2>1, <3>1, <3>2, <4>1, <4>2 DEF FinalInv
    <3>3. CASE frame.final_worker # -1
      <4>1. /\ frame.final_worker \in 0 .. w - 1
            /\ job[frame.final_worker].tile = frame.cols - 1
        BY <2>1, <3>3
      <4>2. /\ frame.final_worker \in Workers /\ frame.final_worker # w
            /\ frame.final_worker \in 0 .. (w + 1) - 1
        BY <1>2, <1>4, <4>1, LoopFilterSizes DEF Workers
      <4>3. job'[frame.final_worker] = job[frame.final_worker]
        BY <1>7, <4>2
      <4> HIDE DEF w, b, col
      <4> QED
        BY <1>1, <1>8, <3>1, <4>1, <4>2, <4>3 DEF FinalInv
    <3> QED
      BY <3>2, <3>3
  <2> QED
    BY <2>2, <2>3
<1> QED
  BY <1>10, <1>11, <1>13, <1>14, <1>15

\* A tile is decoded, by the only worker that has it.
LEMMA DecodeTileInv ==
  ASSUME CodecInv, NEW w \in Workers, DecodeTile(w)
  PROVE  CodecInv'
<1> USE DEF CodecInv
<1> DEFINE t == job[w].tile
<1>1. /\ codec = "decoder" /\ job[w].at = "tile"
      /\ UNCHANGED <<vars, codec, at, frame, created, alive>>
      /\ done' = [done EXCEPT ![t] = @ + 1]
  BY DEF DecodeTile
<1>2. PICK fails \in BOOLEAN :
        job' = [job EXCEPT ![w].at = "ready",
                           ![w].had_error = @ \/ fails,
                           ![w].counts[t] = @ + 1]
  BY DEF DecodeTile
<1>3. /\ t \in Tile /\ done[t] = 0 /\ at \in {"round", "sync", "handler"}
      /\ \A v \in Workers : job[v].at = "tile" /\ v # w => job[v].tile # t
  BY <1>1 DEF WorkInv, PlaceInv
<1>4. /\ job' \in [Workers -> JobState]
      /\ job'[w].at = "ready" /\ job'[w].tile = t
      /\ \A v \in Workers : v # w => job'[v] = job[v]
  <2> DEFINE j1 == [job EXCEPT ![w].at = "ready"]
             j2 == [j1 EXCEPT ![w].had_error = @ \/ fails]
             j3 == [j2 EXCEPT ![w].counts[t] = @ + 1]
  <2>1. job' = j3
    BY <1>2
  <2>2. /\ j1 \in [Workers -> JobState] /\ j1[w].at = "ready" /\ j1[w].tile = t
        /\ \A v \in Workers : v # w => j1[v] = job[v]
    BY DEF CodecTypeOK, JobState
  <2> HIDE DEF j1
  <2>3. (j1[w].had_error \/ fails) \in BOOLEAN
    BY Zenon
  <2>4. /\ j2 \in [Workers -> JobState] /\ j2[w].at = "ready" /\ j2[w].tile = t
        /\ \A v \in Workers : v # w => j2[v] = job[v]
    BY <2>2, <2>3 DEF JobState
  <2> HIDE DEF j2
  <2>5. /\ j3 \in [Workers -> JobState] /\ j3[w].at = "ready" /\ j3[w].tile = t
        /\ \A v \in Workers : v # w => j3[v] = job[v]
    BY <1>3, <2>4 DEF JobState
  <2> HIDE DEF j3
  <2> QED
    BY <2>1, <2>5
<1>5. /\ done' \in [Tile -> Nat] /\ done'[t] = 1
      /\ \A u \in Tile : u # t => done'[u] = done[u]
  BY <1>1, <1>3 DEF CodecTypeOK
<1>6. num_tile_workers' = num_tile_workers /\ Total' = Total
  BY <1>1 DEF num_tile_workers, Total
<1>7. IInv' /\ CodecTypeOK' /\ ThreadsInv' /\ PlaceInv'
  <2>1. IInv'
    BY <1>1, FilterUnchanged
  <2>2. CodecTypeOK'
    BY <1>1, <1>4, <1>5 DEF CodecTypeOK
  <2>3. ThreadsInv' /\ PlaceInv'
    BY <1>1 DEF ThreadsInv, ThreadsCreated, PlaceInv, vars
  <2> QED
    BY <2>1, <2>2, <2>3
<1>8. FrameInv' /\ PaddingInv' /\ StrideInv'
  BY <1>1, <1>3, <1>5, <1>6 DEF FrameInv, PaddingInv, StrideInv
<1>9. WorkInv'
  BY <1>1, <1>3, <1>4, <1>5 DEF WorkInv
<1>10. RoundInv'
  <2>1. SUFFICES ASSUME at \in {"round", "sync"}
                 PROVE  RoundInv'
    BY <1>1 DEF RoundInv
  <2>2. w < frame.i /\ t = frame.buffers[frame.n - frame.i + w + 1]
    BY <1>1, <2>1 DEF RoundInv
  <2>3. /\ frame.cols \in Nat /\ frame.n \in Nat /\ frame.i \in Nat
        /\ frame.n <= frame.cols /\ frame.i <= frame.n /\ w \in Nat
        /\ frame.buffers \in [1 .. frame.cols -> 0 .. frame.cols - 1]
        /\ \A p, q \in 1 .. frame.cols :
             frame.buffers[p] = frame.buffers[q] => p = q
        /\ frame.cols <= MaxTiles
    BY <1>1, <2>1
    DEF RoundInv, CodecTypeOK, FrameState, Orders, Bijection, Injection,
        IsInjective, Workers, FrameInv
  <2>4. ASSUME NEW p \in 1 .. frame.cols,
               p <= frame.n - frame.i \/ p > frame.n
        PROVE  done'[frame.buffers[p]] = done[frame.buffers[p]]
    <3>1. /\ p # frame.n - frame.i + w + 1
          /\ frame.n - frame.i + w + 1 \in 1 .. frame.cols
      BY <2>2, <2>3, <2>4
    <3>2. frame.buffers[p] # t
      BY <2>2, <2>3, <3>1
    <3>3. frame.buffers[p] \in Tile
      BY <2>3, TileAssumptions DEF Tile
    <3> QED
      BY <1>5, <3>2, <3>3
  <2>5. ASSUME NEW v \in Workers
        PROVE  IF v < frame.i
                 THEN /\ job'[v].tile = frame.buffers[frame.n - frame.i + v + 1]
                      /\ job'[v].at = "ready" => done'[job'[v].tile] = 1
                 ELSE job'[v].at = "ready"
    <3>1. IF v < frame.i
            THEN /\ job[v].tile = frame.buffers[frame.n - frame.i + v + 1]
                 /\ job[v].at = "ready" => done[job[v].tile] = 1
            ELSE job[v].at = "ready"
      BY <1>1, <2>1 DEF RoundInv
    <3>2. CASE v = w
      BY <1>4, <1>5, <2>2, <3>2
    <3>3. CASE v # w /\ v < frame.i
      <4>1. /\ frame.n - frame.i + v + 1 # frame.n - frame.i + w + 1
            /\ frame.n - frame.i + v + 1 \in 1 .. frame.cols
            /\ frame.n - frame.i + w + 1 \in 1 .. frame.cols
        BY <2>2, <2>3, <3>3 DEF Workers
      <4>2. job[v].tile # t /\ job[v].tile \in 0 .. frame.cols - 1
        BY <2>2, <2>3, <3>1, <3>3, <4>1
      <4>3. job[v].tile \in Tile
        BY <2>3, <4>2, TileAssumptions DEF Tile
      <4> QED
        BY <1>4, <1>5, <3>1, <3>3, <4>2, <4>3
    <3>4. CASE v # w /\ ~(v < frame.i)
      BY <1>4, <3>1, <3>4
    <3> QED
      BY <3>2, <3>3, <3>4
  <2>6. ASSUME NEW p \in 1 .. frame.cols
        PROVE  /\ p <= frame.n - frame.i => done'[frame.buffers[p]] = 1
               /\ p > frame.n => done'[frame.buffers[p]] = 0
    BY <1>1, <2>1, <2>4 DEF RoundInv
  <2> HIDE DEF t
  <2> QED
    BY <1>1, <1>6, <2>1, <2>5, <2>6 DEF RoundInv
<1>11. FinalInv'
  <2>1. \A v \in Workers : job'[v].tile = job[v].tile
    BY <1>4
  <2>2. at \in {"round", "sync"} =>
          \A v \in 0 .. frame.i - 1 : v \in Workers
    BY <1>1, LoopFilterSizes
    DEF RoundInv, FrameInv, CodecTypeOK, FrameState, Workers
  <2> QED
    BY <1>1, <1>3, <2>1, <2>2 DEF FinalInv
<1> QED
  BY <1>7, <1>8, <1>9, <1>10, <1>11

\* What was launched is decoded when the round's workers are idle.
LEMMA SyncedDone ==
  ASSUME CodecInv, codec = "decoder", at = "sync",
         \A w \in 0 .. frame.i - 1 : job[w].at = "ready",
         NEW p \in 1 .. frame.n
  PROVE  done[frame.buffers[p]] = 1
<1> USE DEF CodecInv
<1>1. /\ frame.cols \in Nat /\ frame.n \in Nat /\ frame.i \in Nat
      /\ frame.i <= frame.n /\ frame.n <= frame.cols
      /\ frame.i <= num_tile_workers /\ num_tile_workers \in 1 .. created
      /\ created \in 0 .. NWorkers
  BY DEF FrameInv, CodecTypeOK, FrameState, RoundInv
<1>2. CASE p \in frame.n - frame.i + 1 .. frame.n
  <2> DEFINE w == p - (frame.n - frame.i) - 1
  <2>1. /\ w \in 0 .. frame.i - 1 /\ w \in Workers /\ w < frame.i
        /\ frame.n - frame.i + w + 1 = p
    BY <1>1, <1>2, LoopFilterSizes DEF Workers
  <2> HIDE DEF w
  <2> QED
    BY <2>1 DEF RoundInv
<1>3. CASE p <= frame.n - frame.i
  <2>1. p \in 1 .. frame.cols
    BY <1>1
  <2> QED
    BY <1>3, <2>1 DEF RoundInv
<1> QED
  BY <1>1, <1>2, <1>3

\* The round is synced.  When it is the last one every place of the order was
\* launched, the one of the last tile column as well.
LEMMA SyncRoundInv == CodecInv /\ SyncRound => CodecInv'
<1> SUFFICES ASSUME CodecInv, SyncRound PROVE CodecInv'
  OBVIOUS
<1> USE DEF CodecInv
<1> DEFINE over == frame.n = frame.cols
           b == frame.buffers
           end == IF frame.final_worker = -1 THEN frame.end
                  ELSE job[frame.final_worker].tile
<1>1. /\ at = "sync" /\ codec = "decoder"
      /\ at' = IF ~over THEN "round"
               ELSE IF Corrupted THEN "handler" ELSE "filter"
      /\ UNCHANGED <<vars, codec, created, alive, job, done>>
      /\ \A w \in 0 .. frame.i - 1 : job[w].at = "ready"
  BY DEF SyncRound, Idle
<1>2. /\ frame \in FrameState
      /\ frame.cols \in Nat /\ frame.cols > 1 /\ frame.n \in Nat
      /\ frame.i \in Nat /\ frame.end \in Int /\ frame.final_worker \in Int
      /\ frame.i <= frame.n /\ frame.i <= num_tile_workers
      /\ num_tile_workers \in 1 .. created /\ created \in 0 .. NWorkers
      /\ b \in Orders(frame.cols) /\ frame.n <= frame.cols
  BY <1>1 DEF FrameInv, CodecTypeOK, FrameState, RoundInv
<1>3. end \in Int
  <2>1. frame.final_worker # -1 => frame.final_worker \in Workers
    BY <1>1, <1>2, LoopFilterSizes DEF FinalInv, Workers
  <2> QED
    BY <1>2, <2>1 DEF CodecTypeOK, JobState
<1>4. /\ frame' \in FrameState
      /\ frame'.cols = frame.cols /\ frame'.rows = frame.rows
      /\ frame'.filter = frame.filter /\ frame'.n = frame.n /\ frame'.i = 0
      /\ frame'.final_worker = -1 /\ frame'.end = end
      /\ frame'.corrupted = Corrupted
      /\ ~over => frame'.buffers = b
  <2> DEFINE f1 == [frame EXCEPT !.corrupted = Corrupted]
             f2 == [f1 EXCEPT !.end = end]
             f3 == [f2 EXCEPT !.final_worker = -1]
             f4 == [f3 EXCEPT !.buffers = IF over THEN <<>> ELSE @]
             f5 == [f4 EXCEPT !.i = 0]
  <2>1. frame' = f5
    BY DEF SyncRound
  <2>2. Corrupted \in BOOLEAN
    BY Zenon DEF Corrupted
  <2>3. /\ f1 \in FrameState /\ f1.corrupted = Corrupted
        /\ f1.cols = frame.cols /\ f1.rows = frame.rows /\ f1.n = frame.n
        /\ f1.filter = frame.filter /\ f1.buffers = b
    BY <1>2, <2>2 DEF FrameState
  <2> HIDE DEF f1, end
  <2>4. /\ f2 \in FrameState /\ f2.corrupted = Corrupted /\ f2.end = end
        /\ f2.cols = frame.cols /\ f2.rows = frame.rows /\ f2.n = frame.n
        /\ f2.filter = frame.filter /\ f2.buffers = b
    BY <1>3, <2>3 DEF FrameState
  <2> HIDE DEF f2
  <2>5. /\ f3 \in FrameState /\ f3.corrupted = Corrupted /\ f3.end = end
        /\ f3.cols = frame.cols /\ f3.rows = frame.rows /\ f3.n = frame.n
        /\ f3.filter = frame.filter /\ f3.buffers = b
        /\ f3.final_worker = -1
    BY <2>4 DEF FrameState
  <2> HIDE DEF f3
  <2>6. /\ f4 \in FrameState /\ f4.corrupted = Corrupted /\ f4.end = end
        /\ f4.cols = frame.cols /\ f4.rows = frame.rows /\ f4.n = frame.n
        /\ f4.filter = frame.filter /\ (~over => f4.buffers = b)
        /\ f4.final_worker = -1
    BY <2>5 DEF FrameState, Buffers
  <2> HIDE DEF f4
  <2>7. /\ f5 \in FrameState /\ f5.corrupted = Corrupted /\ f5.end = end
        /\ f5.cols = frame.cols /\ f5.rows = frame.rows /\ f5.n = frame.n
        /\ f5.filter = frame.filter /\ (~over => f5.buffers = b)
        /\ f5.final_worker = -1 /\ f5.i = 0
    BY <2>6 DEF FrameState
  <2> HIDE DEF f5
  <2> QED
    BY <2>1, <2>7
<1>5. num_tile_workers' = num_tile_workers /\ Total' = Total
  BY <1>1, <1>4 DEF num_tile_workers, Total
<1>6. \A w \in Workers : job[w].at = "ready"
  <2>1. \A w \in Workers : w < frame.i => w \in 0 .. frame.i - 1
    BY <1>2 DEF Workers
  <2> QED
    BY <1>1, <2>1 DEF RoundInv
<1>7. IInv' /\ CodecTypeOK' /\ ThreadsInv' /\ PlaceInv'
  <2>1. IInv'
    BY <1>1, FilterUnchanged
  <2>2. CodecTypeOK'
    BY <1>1, <1>4 DEF CodecTypeOK
  <2>3. ThreadsInv' /\ PlaceInv'
    BY <1>1 DEF ThreadsInv, ThreadsCreated, PlaceInv, vars
  <2> QED
    BY <2>1, <2>2, <2>3
<1>8. FrameInv' /\ PaddingInv' /\ StrideInv' /\ WorkInv'
  BY <1>1, <1>4, <1>5, <1>6 DEF FrameInv, PaddingInv, StrideInv, WorkInv
<1>9. RoundInv'
  <2>1. CASE over
    BY <1>1, <2>1 DEF RoundInv
  <2>2. CASE ~over
    <3>1. frame.n < frame.cols /\ 0 < num_tile_workers
      BY <1>2, <2>2
    <3>2. ASSUME NEW p \in 1 .. frame.cols
          PROVE  /\ p <= frame.n => done[b[p]] = 1
                 /\ p > frame.n => done[b[p]] = 0
      <4>1. p <= frame.n => p \in 1 .. frame.n
        BY <1>2
      <4> QED
        BY <1>1, <4>1, SyncedDone DEF RoundInv
    <3>3. frame.n - 0 = frame.n
      BY <1>2
    <3>4. \A v \in Workers : ~(v < 0)
      BY DEF Workers
    <3> HIDE DEF b
    <3> QED
      BY <1>1, <1>2, <1>4, <1>5, <1>6, <2>2, <3>1, <3>2, <3>3, <3>4
      DEF RoundInv
  <2> QED
    BY <2>1, <2>2
<1>10. FinalInv'
  <2>1. \/ end = frame.cols - 1
        \/ \A p \in 1 .. frame.n : b[p] # frame.cols - 1
    BY <1>1, <1>2 DEF FinalInv
  <2>2. CASE over
    <3>1. frame.cols - 1 \in 0 .. frame.cols - 1
      BY <1>2
    <3>2. \E p \in 1 .. frame.cols : b[p] = frame.cols - 1
      BY <1>2, <3>1 DEF Orders, Bijection, Surjection
    <3>3. end = frame.cols - 1
      BY <2>1, <2>2, <3>2
    <3> HIDE DEF end
    <3> QED
      BY <1>1, <1>4, <2>2, <3>3 DEF FinalInv
  <2>3. CASE ~over
    <3> HIDE DEF end, b
    <3> QED
      BY <1>1, <1>4, <2>1, <2>3 DEF FinalInv
  <2> QED
    BY <2>2, <2>3
<1> QED
  BY <1>7, <1>8, <1>9, <1>10

\* The error handler is left when nobody works.
LEMMA HandlerInv == CodecInv /\ Handler => CodecInv'
<1> SUFFICES ASSUME CodecInv, Handler PROVE CodecInv'
  OBVIOUS
<1> USE DEF CodecInv
<1>1. /\ at = "handler" /\ codec = "decoder" /\ at' = "app"
      /\ UNCHANGED <<vars, codec, created, alive, job, done>>
      /\ \A w \in 0 .. created - 1 : job[w].at = "ready"
      /\ frame' = [frame EXCEPT !.buffers = <<>>]
  BY DEF Handler, MayLeave, Idle, PlaceInv
<1>2. frame' \in FrameState
  BY <1>1 DEF CodecTypeOK, FrameState, Buffers
<1>3. \A w \in Workers : job[w].at = "ready"
  <2>1. ASSUME NEW w \in Workers, job[w].at = "tile"
        PROVE  w \in 0 .. created - 1
    BY <2>1 DEF WorkInv, Workers, CodecTypeOK
  <2> QED
    BY <1>1, <2>1 DEF CodecTypeOK, JobState
<1>4. IInv' /\ CodecTypeOK' /\ ThreadsInv' /\ PlaceInv'
  <2>1. IInv'
    BY <1>1, FilterUnchanged
  <2>2. CodecTypeOK'
    BY <1>1, <1>2 DEF CodecTypeOK
  <2>3. ThreadsInv' /\ PlaceInv'
    BY <1>1 DEF ThreadsInv, ThreadsCreated, PlaceInv, vars
  <2> QED
    BY <2>1, <2>2, <2>3
<1>5. FrameInv' /\ PaddingInv' /\ WorkInv' /\ RoundInv' /\ FinalInv' /\ StrideInv'
  BY <1>1, <1>3
  DEF FrameInv, PaddingInv, WorkInv, RoundInv, FinalInv, StrideInv
<1> QED
  BY <1>4, <1>5

\* An encoder's worker gets its first tile, which nobody has touched.
LEMMA LaunchTilesInv == CodecInv /\ LaunchTiles => CodecInv'
<1> SUFFICES ASSUME CodecInv, LaunchTiles PROVE CodecInv'
  OBVIOUS
<1> USE DEF CodecInv
<1> DEFINE w == frame.i
           last == w = num_tile_workers - 1
           started == [job[w] EXCEPT
                         !.at = IF Starts(w, last) THEN "tile" ELSE "ready",
                         !.tile = w]
<1>1. /\ at = "launch" /\ codec = "encoder"
      /\ at' = IF last THEN "sync" ELSE "launch"
      /\ UNCHANGED <<vars, codec, created, alive, done>>
      /\ job' = [job EXCEPT ![w] = started]
      /\ frame' = [frame EXCEPT !.i = w + 1]
  BY DEF LaunchTiles, PlaceInv
<1>2. /\ frame \in FrameState /\ frame.cols \in Nat
      /\ Total \in Nat /\ frame.cols <= Total /\ Total <= MaxTiles
      /\ num_tile_workers \in 1 .. created /\ created \in 0 .. NWorkers
      /\ created \in Nat \ {0}
      /\ w \in Nat /\ w < num_tile_workers /\ num_tile_workers <= frame.cols
  <2>1. /\ frame \in FrameState /\ frame.cols \in Nat /\ frame.rows \in Nat
        /\ frame.cols <= Total /\ Total <= MaxTiles
        /\ num_tile_workers \in 1 .. created /\ created \in 0 .. NWorkers
        /\ w \in Nat /\ w < num_tile_workers
    BY <1>1 DEF FrameInv, CodecTypeOK, FrameState, StrideInv
  <2>2. Total \in Nat
    BY <2>1 DEF Total
  <2>3. num_tile_workers <= frame.cols
    BY <1>1, <2>1, LoopFilterSizes DEF num_tile_workers, LeastOf
  <2>4. created \in Nat \ {0}
    BY <2>1, LoopFilterSizes
  <2> QED
    BY <2>1, <2>2, <2>3, <2>4
<1>3. /\ w \in Workers /\ w < created /\ w < Total /\ w \in Tile
      /\ w \in 0 .. created - 1
  BY <1>2, LoopFilterSizes, TileAssumptions DEF Workers, Tile
<1>4. w % created = w
  BY <1>2, <1>3, ModSmall
<1>5. job[w].at = "ready" /\ done[w] = 0
  <2>1. job[w].at = "ready"
    BY <1>1, <1>2, <1>3 DEF StrideInv, CodecTypeOK, JobState
  <2>2. ~(w < w)
    BY <1>2
  <2> QED
    BY <1>1, <1>3, <1>4, <2>1, <2>2 DEF StrideInv
<1>6. Starts(w, last)
  BY <1>2, <1>3 DEF Starts, ThreadsInv
<1>7. started \in JobState /\ started.at = "tile" /\ started.tile = w
  <2>1. job[w] \in JobState
    BY <1>3 DEF CodecTypeOK
  <2> DEFINE at_tile == [job[w] EXCEPT !.at = "tile"]
  <2>2. started = [at_tile EXCEPT !.tile = w]
    BY <1>6
  <2>3. at_tile \in JobState /\ at_tile.at = "tile"
    BY <2>1 DEF JobState
  <2>4. w \in Int
    BY <1>2
  <2> HIDE DEF w, started, at_tile
  <2> QED
    BY <2>2, <2>3, <2>4 DEF JobState
<1> HIDE DEF started
<1>8. /\ job' \in [Workers -> JobState]
      /\ job'[w].at = "tile" /\ job'[w].tile = w
      /\ \A v \in Workers : v # w => job'[v] = job[v]
  BY <1>1, <1>3, <1>7 DEF CodecTypeOK
<1>9. /\ frame' \in FrameState
      /\ frame'.cols = frame.cols /\ frame'.rows = frame.rows
      /\ frame'.filter = frame.filter /\ frame'.i = w + 1
  BY <1>1, <1>2 DEF FrameState
<1>10. num_tile_workers' = num_tile_workers /\ Total' = Total
  BY <1>1, <1>9 DEF num_tile_workers, Total
<1>11. IInv' /\ CodecTypeOK' /\ ThreadsInv' /\ PlaceInv'
  <2>1. IInv'
    BY <1>1, FilterUnchanged
  <2>2. CodecTypeOK'
    BY <1>1, <1>8, <1>9 DEF CodecTypeOK
  <2>3. ThreadsInv' /\ PlaceInv'
    BY <1>1 DEF ThreadsInv, ThreadsCreated, PlaceInv, vars
  <2> QED
    BY <2>1, <2>2, <2>3
<1>12. FrameInv' /\ PaddingInv' /\ RoundInv' /\ FinalInv'
  <2>1. w + 1 <= num_tile_workers
    BY <1>2
  <2> HIDE DEF w, last
  <2> QED
    BY <1>1, <1>9, <1>10, <2>1 DEF FrameInv, PaddingInv, RoundInv, FinalInv
<1>13. ASSUME NEW v \in Workers, job[v].at = "tile"
       PROVE  v < w /\ v # w /\ job[v].tile # w
  <2>1. v < w /\ job[v].tile % created = v
    BY <1>1, <1>13 DEF StrideInv
  <2>2. v # w
    BY <1>2, <2>1
  <2> QED
    BY <1>4, <2>1, <2>2
<1>14. WorkInv'
  BY <1>1, <1>3, <1>5, <1>8, <1>13 DEF WorkInv
<1>15. StrideInv'
  <2>1. /\ w + 1 <= num_tile_workers
        /\ ~last => w + 1 < num_tile_workers
        /\ last => w + 1 = num_tile_workers
    BY <1>2
  <2>2. ASSUME NEW v \in Workers, job'[v].at = "tile"
        PROVE  /\ v < w + 1 /\ job'[v].tile < Total
               /\ job'[v].tile % created = v
    <3>1. CASE v = w
      BY <1>2, <1>3, <1>4, <1>8, <3>1
    <3>2. CASE v # w
      <4>1. v < w /\ job[v].tile < Total /\ job[v].tile % created = v
        BY <1>1, <1>8, <2>2, <3>2 DEF StrideInv
      <4>2. v < w + 1
        BY <1>2, <4>1 DEF Workers
      <4> QED
        BY <1>8, <3>2, <4>1, <4>2
    <3> QED
      BY <3>1, <3>2
  <2>3. ASSUME NEW t \in Tile, t < Total
        PROVE  LET v == t % created
               IN IF v < w + 1 /\ (job'[v].at = "tile" => t < job'[v].tile)
                    THEN done[t] = 1 ELSE done[t] = 0
    <3> DEFINE v == t % created
    <3>1. t \in Nat
      BY DEF Tile
    <3>2. v \in 0 .. created - 1
      BY <1>2, <3>1, ModNat
    <3>3. v \in Workers /\ v \in Nat
      BY <1>2, <3>2, LoopFilterSizes DEF Workers
    <3>4. IF v < w /\ (job[v].at = "tile" => t < job[v].tile)
            THEN done[t] = 1 ELSE done[t] = 0
      BY <1>1, <2>3 DEF StrideInv
    <3>5. CASE v = w
      <4>1. ~(v < w)
        BY <1>2, <3>5
      <4>2. done[t] = 0
        BY <3>4, <4>1
      <4>3. ~(t < w)
        <5>1. ASSUME t < w
              PROVE  FALSE
          <6>1. t \in 0 .. created - 1
            BY <1>2, <1>3, <3>1, <5>1
          <6>2. v = t
            BY <1>2, <6>1, ModSmall
          <6> QED
            BY <1>2, <3>1, <3>5, <5>1, <6>2
        <5> QED
          BY <5>1
      <4> HIDE DEF w
      <4> QED
        BY <1>8, <3>5, <4>2, <4>3
    <3>6. CASE v # w
      <4>1. v < w + 1 <=> v < w
        BY <1>2, <3>3, <3>6
      <4> HIDE DEF w
      <4> QED
        BY <1>8, <3>3, <3>4, <3>6, <4>1
    <3> QED
      BY <3>5, <3>6
  <2> HIDE DEF w, last
  <2> QED
    BY <1>1, <1>9, <1>10, <2>1, <2>2, <2>3 DEF StrideInv
<1> QED
  BY <1>11, <1>12, <1>14, <1>15

\* An encoder's worker encodes a tile and goes on to its next one.
LEMMA EncodeTileInv ==
  ASSUME CodecInv, NEW w \in Workers, EncodeTile(w)
  PROVE  CodecInv'
<1> USE DEF CodecInv
<1> DEFINE t == job[w].tile
           over == t + created >= Total
           next == IF over THEN NoTile ELSE t + created
           place == IF over THEN "ready" ELSE "tile"
           tally(c) == IF OwnData(w) THEN c ELSE c + 1
<1>1. /\ codec = "encoder" /\ job[w].at = "tile"
      /\ UNCHANGED <<vars, codec, at, frame, created, alive>>
      /\ done' = [done EXCEPT ![t] = @ + 1]
      /\ job' = [job EXCEPT
                   ![w].at = place,
                   ![w].tile = next,
                   ![w].had_error = @ \/ over,
                   ![w].counts[t] = tally(@)]
  BY DEF EncodeTile, Total
<1>2. /\ t \in Tile /\ done[t] = 0 /\ at \in {"launch", "sync"}
      /\ \A v \in Workers : job[v].at = "tile" /\ v # w => job[v].tile # t
  BY <1>1 DEF WorkInv, PlaceInv
<1>3. /\ t \in Nat /\ t < Total /\ w < frame.i /\ t % created = w
      /\ Total \in Nat /\ Total <= MaxTiles /\ created \in Nat \ {0}
      /\ w < created
  <2>1. frame.cols \in Nat /\ frame.rows \in Nat /\ created \in 0 .. NWorkers
    BY DEF CodecTypeOK, FrameState
  <2>2. Total \in Nat
    BY <2>1 DEF Total
  <2>3. Total <= MaxTiles /\ num_tile_workers \in 1 .. created
    BY <1>2 DEF FrameInv
  <2>4. created \in Nat \ {0}
    BY <2>1, <2>3, LoopFilterSizes
  <2>5. t < Total /\ w < frame.i /\ t % created = w
    BY <1>1, <1>2 DEF StrideInv
  <2>6. w < created
    BY <1>1 DEF WorkInv
  <2> QED
    BY <1>2, <2>2, <2>3, <2>4, <2>5, <2>6 DEF Tile
<1>4. /\ job' \in [Workers -> JobState]
      /\ job'[w].at = IF over THEN "ready" ELSE "tile"
      /\ job'[w].tile = next
      /\ \A v \in Workers : v # w => job'[v] = job[v]
  <2> DEFINE j1 == [job EXCEPT ![w].at = place]
             j2 == [j1 EXCEPT ![w].tile = next]
             j3 == [j2 EXCEPT ![w].had_error = @ \/ over]
             j4 == [j3 EXCEPT ![w].counts[t] = tally(@)]
  <2>1. job' = j4
    <3> HIDE DEF over, next, place, tally, t
    <3> QED
      BY <1>1
  <2>2. place \in {"ready", "tile"} /\ next \in Int
    BY <1>3 DEF NoTile
  <2> HIDE DEF next, over
  <2>3. /\ j1 \in [Workers -> JobState] /\ j1[w].at = place
        /\ \A v \in Workers : v # w => j1[v] = job[v]
    <3> HIDE DEF place
    <3> QED
      BY <2>2 DEF CodecTypeOK, JobState
  <2> HIDE DEF place, j1
  <2>4. /\ j2 \in [Workers -> JobState] /\ j2[w].at = place /\ j2[w].tile = next
        /\ \A v \in Workers : v # w => j2[v] = job[v]
    BY <2>2, <2>3 DEF JobState
  <2> HIDE DEF j2
  <2>5. (j2[w].had_error \/ over) \in BOOLEAN
    BY Zenon
  <2>6. /\ j3 \in [Workers -> JobState] /\ j3[w].at = place /\ j3[w].tile = next
        /\ \A v \in Workers : v # w => j3[v] = job[v]
    BY <2>4, <2>5 DEF JobState
  <2> HIDE DEF j3, t
  <2>7. t \in Tile /\ j3[w].counts[t] \in Nat
    BY <1>2, <2>6 DEF JobState
  <2>8. tally(j3[w].counts[t]) \in Nat
    BY <2>7
  <2> HIDE DEF tally
  <2>9. /\ j4 \in [Workers -> JobState] /\ j4[w].at = place
        /\ j4[w].tile = next
        /\ \A v \in Workers : v # w => j4[v] = job[v]
    BY <2>6, <2>7, <2>8 DEF JobState
  <2> HIDE DEF j4
  <2> QED
    BY <2>1, <2>9 DEF place

<1>5. /\ done' \in [Tile -> Nat] /\ done'[t] = 1
      /\ \A u \in Tile : u # t => done'[u] = done[u]
  BY <1>1, <1>2 DEF CodecTypeOK
<1>6. num_tile_workers' = num_tile_workers /\ Total' = Total
  BY <1>1 DEF num_tile_workers, Total
<1>7. IInv' /\ CodecTypeOK' /\ ThreadsInv' /\ PlaceInv'
  <2>1. IInv'
    BY <1>1, FilterUnchanged
  <2>2. CodecTypeOK'
    BY <1>1, <1>4, <1>5 DEF CodecTypeOK
  <2>3. ThreadsInv' /\ PlaceInv'
    BY <1>1 DEF ThreadsInv, ThreadsCreated, PlaceInv, vars
  <2> QED
    BY <2>1, <2>2, <2>3
<1>8. FrameInv' /\ PaddingInv' /\ RoundInv' /\ FinalInv'
  <2>1. PaddingInv'
    BY <1>1, <1>2, <1>3, <1>5, <1>6 DEF PaddingInv, Tile
  <2>2. FrameInv' /\ RoundInv' /\ FinalInv'
    BY <1>1, <1>6 DEF FrameInv, RoundInv, FinalInv
  <2> QED
    BY <2>1, <2>2
<1>9. ~over => /\ next = t + created /\ next \in Nat /\ next < Total
               /\ next \in Tile /\ next % created = w
  <2>1. (t + created) % created = w
    BY <1>3, ModStep
  <2> QED
    BY <1>3, <2>1, TileAssumptions DEF Tile
<1>10. ASSUME NEW v \in Workers, job'[v].at = "tile"
       PROVE  /\ v < frame.i /\ job'[v].tile < Total
              /\ job'[v].tile % created = v
  <2>1. CASE v = w
    <3>1. ~over
      BY <1>4, <1>10, <2>1
    <3> HIDE DEF over, next, t
    <3> QED
      BY <1>3, <1>4, <1>9, <2>1, <3>1
  <2>2. CASE v # w
    BY <1>1, <1>2, <1>4, <1>10, <2>2 DEF StrideInv
  <2> QED
    BY <2>1, <2>2
<1>11. ASSUME NEW u \in Tile, u < Total
       PROVE  IF u % created < frame.i
                 /\ (job'[u % created].at = "tile" => u < job'[u % created].tile)
                THEN done'[u] = 1 ELSE done'[u] = 0
  <2> DEFINE v == u % created
  <2>1. u \in Nat
    BY DEF Tile
  <2>2. v \in Workers
    <3>1. v \in 0 .. created - 1
      BY <1>3, <2>1, ModNat
    <3>2. created \in 0 .. NWorkers
      BY DEF CodecTypeOK
    <3> QED
      BY <3>1, <3>2, LoopFilterSizes DEF Workers
  <2>3. IF v < frame.i /\ (job[v].at = "tile" => u < job[v].tile)
          THEN done[u] = 1 ELSE done[u] = 0
    BY <1>1, <1>2, <1>11 DEF StrideInv
  <2>4. CASE v # w
    <3>1. u # t
      BY <1>3, <2>4
    <3>2. done'[u] = done[u] /\ job'[v] = job[v]
      BY <1>4, <1>5, <2>2, <2>4, <3>1
    <3> QED
      BY <2>3, <3>2
  <2>5. CASE v = w
    <3>1. u # t => done'[u] = IF u < t THEN 1 ELSE 0
      BY <1>1, <1>3, <1>5, <2>3, <2>5
    <3>2. t < u => t + created <= u
      BY <1>3, <2>1, <2>5, ModBetween
    <3>3. CASE over
      <4>1. ~(t < u)
        BY <1>3, <1>11, <2>1, <3>2, <3>3
      <4>2. u = t \/ u < t
        BY <1>3, <2>1, <4>1
      <4>3. done'[u] = 1
        BY <1>5, <3>1, <4>2
      <4>4. job'[v].at = "ready"
        BY <1>4, <2>5, <3>3
      <4> QED
        BY <1>3, <2>5, <4>3, <4>4
    <3>4. CASE ~over
      <4>1. job'[v].at = "tile" /\ job'[v].tile = t + created
        BY <1>4, <1>9, <2>5, <3>4
      <4>2. u < t + created <=> (u = t \/ u < t)
        BY <1>3, <2>1, <3>2
      <4>3. done'[u] = IF u < t + created THEN 1 ELSE 0
        BY <1>3, <1>5, <2>1, <3>1, <4>2
      <4> QED
        BY <1>3, <2>5, <4>1, <4>3
    <3> QED
      BY <3>3, <3>4
  <2> QED
    BY <2>4, <2>5
<1>12. StrideInv'
  BY <1>1, <1>2, <1>6, <1>10, <1>11 DEF StrideInv
<1>13. WorkInv'
  <2> SUFFICES ASSUME NEW v \in Workers, job'[v].at = "tile"
               PROVE  /\ at \in {"round", "launch", "sync", "handler"}
                      /\ v < created
                      /\ job'[v].tile \in Tile
                      /\ done'[job'[v].tile] = 0
                      /\ \A x \in Workers : job'[x].at = "tile" /\ x # v
                           => job'[x].tile # job'[v].tile
    BY <1>1 DEF WorkInv
  <2>1. at \in {"round", "launch", "sync", "handler"}
    BY <1>2
  <2>2. v < created /\ job'[v].tile \in Tile
    <3>1. CASE v = w
      <4>1. ~over
        BY <1>4, <2>1, <3>1
      <4> HIDE DEF over, next, t
      <4> QED
        BY <1>3, <1>4, <1>9, <3>1, <4>1
    <3>2. CASE v # w
      BY <1>4, <3>2 DEF WorkInv
    <3> QED
      BY <3>1, <3>2
  <2>3. job'[v].tile < Total /\ job'[v].tile % created = v
    BY <1>10
  <2>4. done'[job'[v].tile] = 0
    <3>1. ~(job'[v].tile < job'[v].tile)
      BY <2>2 DEF Tile
    <3> QED
      BY <1>11, <2>2, <2>3, <3>1
  <2>5. \A x \in Workers : job'[x].at = "tile" /\ x # v
          => job'[x].tile # job'[v].tile
    BY <1>10, <2>3
  <2> QED
    BY <2>1, <2>2, <2>4, <2>5
<1> QED
  BY <1>7, <1>8, <1>12, <1>13

\* The encoder's workers are synced.
LEMMA SyncTilesInv == CodecInv /\ SyncTiles => CodecInv'
<1> SUFFICES ASSUME CodecInv, SyncTiles PROVE CodecInv'
  OBVIOUS
<1> USE DEF CodecInv
<1>1. /\ at = "sync" /\ codec = "encoder" /\ at' = "filter"
      /\ UNCHANGED <<vars, codec, frame, created, alive, job, done>>
      /\ \A w \in 0 .. num_tile_workers - 1 : job[w].at = "ready"
  BY DEF SyncTiles, Idle
<1>2. \A w \in Workers : job[w].at = "ready"
  <2>1. frame.i = num_tile_workers /\ num_tile_workers \in Int
    BY <1>1 DEF StrideInv, FrameInv
  <2>2. ASSUME NEW w \in Workers, job[w].at = "tile"
        PROVE  w \in 0 .. num_tile_workers - 1
    <3>1. w < num_tile_workers
      BY <1>1, <2>1, <2>2 DEF StrideInv
    <3> QED
      BY <2>1, <3>1 DEF Workers
  <2> QED
    BY <1>1, <2>2 DEF CodecTypeOK, JobState
<1>3. IInv' /\ CodecTypeOK' /\ ThreadsInv' /\ PlaceInv'
  <2>1. IInv'
    BY <1>1, FilterUnchanged
  <2>2. CodecTypeOK'
    BY <1>1 DEF CodecTypeOK
  <2>3. ThreadsInv' /\ PlaceInv'
    BY <1>1 DEF ThreadsInv, ThreadsCreated, PlaceInv, vars
  <2> QED
    BY <2>1, <2>2, <2>3
<1>4. FrameInv' /\ PaddingInv' /\ WorkInv' /\ RoundInv' /\ FinalInv' /\ StrideInv'
  BY <1>1, <1>2
  DEF FrameInv, PaddingInv, WorkInv, RoundInv, FinalInv, StrideInv, Total,
      num_tile_workers
<1> QED
  BY <1>3, <1>4

\* The loop filter begins a frame, with workers to run it.
LEMMA FilterFrameInv == CodecInv /\ FilterFrame => CodecInv'
<1> SUFFICES ASSUME CodecInv, FilterFrame PROVE CodecInv'
  OBVIOUS
<1> USE DEF CodecInv
<1>1. /\ at = "filter" /\ at' = "filtering" /\ frame.filter > 0
      /\ LoopFilterRowsMt(LeastOf(created, frame.cols))
      /\ frame' = [frame EXCEPT !.filter = @ - 1]
      /\ UNCHANGED <<codec, created, alive, job, done>>
  BY DEF FilterFrame
<1>2. /\ frame \in FrameState /\ frame.filter \in Nat
      /\ LeastOf(created, frame.cols) \in Nat \ {0}
  BY <1>1, LoopFilterSizes DEF FrameInv, CodecTypeOK, FrameState, LeastOf
<1>3. /\ frame' \in FrameState
      /\ frame'.cols = frame.cols /\ frame'.rows = frame.rows
      /\ frame'.end = frame.end
  <2>1. frame.filter - 1 \in Nat
    BY <1>1, <1>2
  <2> QED
    BY <1>1, <1>2, <2>1 DEF FrameState
<1>4. num_tile_workers' = num_tile_workers /\ Total' = Total
  BY <1>1, <1>3 DEF num_tile_workers, Total
<1>5. \A w \in Workers : job[w].at = "ready"
  BY <1>1, AllIdle
<1>6. IInv' /\ CodecTypeOK' /\ ThreadsInv' /\ PlaceInv'
  <2>1. IInv'
    BY <1>1, <1>2, BeginInv
  <2>2. CodecTypeOK'
    BY <1>1, <1>3 DEF CodecTypeOK
  <2>3. ThreadsInv' /\ PlaceInv'
    BY <1>1 DEF ThreadsInv, ThreadsCreated, PlaceInv
  <2> QED
    BY <2>1, <2>2, <2>3
<1>7. FrameInv'
  <2>1. frame.cols \in TileCols
    BY <1>1 DEF FrameInv
  <2> QED
    BY <1>1, <1>3, <1>4, <2>1 DEF FrameInv
<1>8. PaddingInv' /\ WorkInv' /\ RoundInv' /\ FinalInv' /\ StrideInv'
  BY <1>1, <1>3, <1>4, <1>5
  DEF PaddingInv, WorkInv, RoundInv, FinalInv, StrideInv
<1> QED
  BY <1>6, <1>7, <1>8

\* The loop filter's steps leave the tiles alone.
LEMMA FilterStepInv == CodecInv /\ FilterStep => CodecInv'
<1> SUFFICES ASSUME CodecInv, FilterStep PROVE CodecInv'
  OBVIOUS
<1> USE DEF CodecInv
<1>1. UNCHANGED <<codec, at, frame, created, alive, job, done, filtering>>
  BY DEF FilterStep, tileVars, LaunchRows, WorkerStep, SyncRead, FilterBlock,
         SyncWrite
<1>2. IInv'
  BY NextInv DEF FilterStep, Next
<1>3. CodecTypeOK' /\ ThreadsInv' /\ PlaceInv' /\ FrameInv' /\ PaddingInv'
  BY <1>1 DEF CodecTypeOK, ThreadsInv, ThreadsCreated, PlaceInv, FrameInv,
              PaddingInv, Total, num_tile_workers
<1>4. WorkInv' /\ RoundInv' /\ FinalInv' /\ StrideInv'
  BY <1>1 DEF WorkInv, RoundInv, FinalInv, StrideInv, Total, num_tile_workers
<1> QED
  BY <1>2, <1>3, <1>4

\* "Wait till all rows are finished"
LEMMA FrameIsFilteredInv == CodecInv /\ FrameIsFiltered => CodecInv'
<1> SUFFICES ASSUME CodecInv, FrameIsFiltered PROVE CodecInv'
  OBVIOUS
<1> USE DEF CodecInv
<1>1. /\ at = "filtering" /\ at' = "filter" /\ filtering' = FALSE
      /\ UNCHANGED <<codec, frame, created, alive, job, done>>
  BY DEF FrameIsFiltered, SyncRows, PlaceInv
<1>2. IInv'
  BY NextInv DEF FrameIsFiltered, Next
<1>3. CodecTypeOK' /\ ThreadsInv' /\ PlaceInv' /\ FrameInv' /\ PaddingInv'
  BY <1>1 DEF CodecTypeOK, ThreadsInv, ThreadsCreated, PlaceInv, FrameInv,
              PaddingInv, Total, num_tile_workers
<1>4. WorkInv' /\ RoundInv' /\ FinalInv' /\ StrideInv'
  <2>1. \A w \in Workers : job[w].at = "ready"
    BY <1>1, AllIdle
  <2> QED
    BY <1>1, <2>1 DEF WorkInv, RoundInv, FinalInv, StrideInv
<1> QED
  BY <1>2, <1>3, <1>4

\* The frame is returned.
LEMMA EndFrameInv == CodecInv /\ EndFrame => CodecInv'
<1> SUFFICES ASSUME CodecInv, EndFrame PROVE CodecInv'
  OBVIOUS
<1> USE DEF CodecInv
<1>1. /\ at = "filter" /\ at' = "app"
      /\ UNCHANGED <<vars, codec, frame, created, alive, job, done>>
  BY DEF EndFrame
<1>2. IInv'
  BY <1>1, FilterUnchanged
<1>3. CodecTypeOK' /\ ThreadsInv' /\ PlaceInv' /\ FrameInv' /\ PaddingInv'
  BY <1>1 DEF CodecTypeOK, ThreadsInv, ThreadsCreated, PlaceInv, FrameInv,
              PaddingInv, vars
<1>4. WorkInv' /\ RoundInv' /\ FinalInv' /\ StrideInv'
  <2>1. \A w \in Workers : job[w].at = "ready"
    BY <1>1, AllIdle
  <2> QED
    BY <1>1, <2>1 DEF WorkInv, RoundInv, FinalInv, StrideInv
<1> QED
  BY <1>2, <1>3, <1>4

\* Every step keeps the invariant.
LEMMA CodecNextInv == CodecInv /\ [CodecNext]_codecVars => CodecInv'
<1> SUFFICES ASSUME CodecInv, [CodecNext]_codecVars PROVE CodecInv'
  OBVIOUS
<1>1. CASE DecodeTilesMt
  BY <1>1, DecodeTilesMtInv
<1>2. CASE EncodeTilesMt
  BY <1>2, EncodeTilesMtInv
<1>3. CASE InFrame
  BY <1>3, GetTileBuffersInv, TruncatedInv, LaunchTileInv, SyncRoundInv,
     HandlerInv, LaunchTilesInv, SyncTilesInv, FilterFrameInv,
     FrameIsFilteredInv, EndFrameInv
  DEF InFrame
<1>4. ASSUME NEW w \in Workers, TileStep(w) PROVE CodecInv'
  BY <1>4, DecodeTileInv, EncodeTileInv DEF TileStep
<1>5. CASE FilterStep
  BY <1>5, FilterStepInv
<1>6. CASE UNCHANGED codecVars
  <2>1. UNCHANGED <<vars, codec, at, frame, created, alive, job, done>>
    BY <1>6 DEF codecVars, tileVars
  <2>2. IInv'
    BY <2>1, FilterUnchanged DEF CodecInv
  <2>3. CodecTypeOK' /\ ThreadsInv' /\ PlaceInv' /\ FrameInv' /\ PaddingInv'
    BY <2>1 DEF CodecInv, CodecTypeOK, ThreadsInv, ThreadsCreated, PlaceInv,
                FrameInv, PaddingInv, Total, num_tile_workers, vars
  <2>4. WorkInv' /\ RoundInv' /\ FinalInv' /\ StrideInv'
    BY <2>1 DEF CodecInv, WorkInv, RoundInv, FinalInv, StrideInv, Total,
                num_tile_workers
  <2> QED
    BY <2>2, <2>3, <2>4 DEF CodecInv
<1> QED
  BY <1>1, <1>2, <1>3, <1>4, <1>5, <1>6 DEF CodecNext

\* The invariant holds of every reachable state, whatever frames there are.
THEOREM CodecInvariance == CodecSpec => []CodecInv
BY CodecInitInv, CodecNextInv, PTL DEF CodecSpec

\* The loop filter's workers follow the row above, and pthread_cond_signal() is
\* enough, also when they are the decoder's or the encoder's tile workers.
THEOREM CodecSignalsAreEnough == CodecSpec => []NoSignalLost
<1>1. CodecInv => NoSignalLost
  BY OneFollower DEF CodecInv
<1> QED
  BY <1>1, CodecInvariance, PTL

\* The data of the next frame begin where the last tile column ends, in
\* whichever round and by whichever worker it was decoded, for any sizes of the
\* tiles.
THEOREM EndIsFound == CodecSpec => []EndIsOfLastTile
<1>1. CodecInv => EndIsOfLastTile
  BY DEF CodecInv, FinalInv, EndIsOfLastTile
<1> QED
  BY <1>1, CodecInvariance, PTL

-----------------------------------------------------------------------------
(* Frames that are filtered all have the same number of tile columns *)

\* The loop filter begins when all tiles were done and none failed.
DecodedInv ==
  at \in {"filter", "filtering"} =>
    /\ \A t \in Tile : done[t] = 1
    /\ codec = "decoder" => ~frame.corrupted /\ frame.i = 0

\* The encoder has then as many workers as it uses.
LEMMA EncoderWorkers ==
  ASSUME SameTileCols, CodecInv, codec = "encoder", at # "app"
  PROVE  num_tile_workers = created
<1>1. frame.cols \in TileCols /\ created # 0
  BY LoopFilterSizes DEF CodecInv, FrameInv, CodecTypeOK
<1>2. PICK cols \in TileCols : created = ThreadsCreated(cols)
  BY <1>1 DEF CodecInv, ThreadsInv
<1>3. cols = frame.cols
  BY <1>1 DEF SameTileCols
<1> QED
  BY <1>2, <1>3 DEF num_tile_workers, ThreadsCreated

\* What the sync of a round leaves of its failures.
LEMMA SyncRoundFrame ==
  ASSUME CodecInv, SyncRound
  PROVE  frame'.corrupted = Corrupted /\ frame'.i = 0
<1> DEFINE f1 == [frame EXCEPT !.corrupted = Corrupted]
           f2 == [f1 EXCEPT !.end = IF frame.final_worker = -1 THEN @
                                    ELSE job[frame.final_worker].tile]
           f3 == [f2 EXCEPT !.final_worker = -1]
           f4 == [f3 EXCEPT !.buffers = IF frame.n = frame.cols
                                          THEN <<>> ELSE @]
           f5 == [f4 EXCEPT !.i = 0]
<1>1. frame' = f5
  BY DEF SyncRound
<1>2. /\ DOMAIN f1 = DOMAIN frame /\ f1.corrupted = Corrupted
      /\ {"corrupted", "end", "final_worker", "buffers", "i"}
           \subseteq DOMAIN frame
  BY DEF CodecInv, CodecTypeOK, FrameState
<1> HIDE DEF f1
<1>3. DOMAIN f2 = DOMAIN frame /\ f2.corrupted = Corrupted
  BY <1>2
<1> HIDE DEF f2
<1>4. DOMAIN f3 = DOMAIN frame /\ f3.corrupted = Corrupted
  BY <1>2, <1>3
<1> HIDE DEF f3
<1>5. DOMAIN f4 = DOMAIN frame /\ f4.corrupted = Corrupted
  BY <1>2, <1>4
<1> HIDE DEF f4
<1>6. f5.i = 0 /\ f5.corrupted = Corrupted
  BY <1>2, <1>5
<1> QED
  BY <1>1, <1>6

\* Every step keeps it: each tile of a synced frame was one of its workers'.
LEMMA DecodedNext ==
  ASSUME SameTileCols, CodecInv, CodecInv', DecodedInv, [CodecNext]_codecVars
  PROVE  DecodedInv'
<1> USE DEF CodecInv
<1>1. CASE SyncRound
  <2>1. /\ at = "sync" /\ codec = "decoder" /\ codec' = codec /\ done' = done
        /\ at' = "filter" => frame.n = frame.cols /\ ~Corrupted
        /\ at' \in {"round", "handler", "filter"}
        /\ \A w \in 0 .. frame.i - 1 : job[w].at = "ready"
    BY <1>1 DEF SyncRound, Idle
  <2>2. frame'.corrupted = Corrupted /\ frame'.i = 0
    BY <1>1, SyncRoundFrame
  <2>3. ASSUME at' = "filter", NEW t \in Tile
        PROVE  done[t] = 1
    <3>1. CASE t < Total
      <4>1. t \in 0 .. frame.cols - 1
        BY <2>1, <3>1 DEF FrameInv, Tile, CodecTypeOK, FrameState
      <4>2. PICK p \in 1 .. frame.cols : frame.buffers[p] = t
        BY <2>1, <4>1 DEF RoundInv, Orders, Bijection, Surjection
      <4> QED
        BY <2>1, <2>3, <4>2, SyncedDone
    <3>2. CASE ~(t < Total)
      <4>1. t >= Total
        BY <3>2 DEF Tile, Total, CodecTypeOK, FrameState
      <4> QED
        BY <2>1, <4>1 DEF PaddingInv
    <3> QED
      BY <3>1, <3>2
  <2> QED
    BY <2>1, <2>2, <2>3 DEF DecodedInv
<1>2. CASE SyncTiles
  <2>1. /\ at = "sync" /\ codec = "encoder" /\ codec' = codec /\ done' = done
        /\ \A w \in 0 .. num_tile_workers - 1 : job[w].at = "ready"
    BY <1>2 DEF SyncTiles, Idle
  <2>2. num_tile_workers = created /\ frame.i = created
        /\ created \in Nat \ {0}
    BY <2>1, EncoderWorkers, LoopFilterSizes
    DEF StrideInv, FrameInv, CodecTypeOK
  <2>3. ASSUME NEW t \in Tile
        PROVE  done[t] = 1
    <3>1. CASE t < Total
      <4>1. t % created \in 0 .. created - 1
        BY <2>2, ModNat DEF Tile
      <4>2. t % created < frame.i /\ job[t % created].at = "ready"
        BY <2>1, <2>2, <4>1
      <4> QED
        BY <2>1, <3>1, <4>2 DEF StrideInv
    <3>2. CASE ~(t < Total)
      <4>1. t >= Total
        BY <3>2 DEF Tile, Total, CodecTypeOK, FrameState
      <4> QED
        BY <2>1, <4>1 DEF PaddingInv
    <3> QED
      BY <3>1, <3>2
  <2> QED
    BY <2>1, <2>3 DEF DecodedInv
<1>3. CASE FilterFrame
  <2>1. /\ at = "filter" /\ UNCHANGED <<codec, done>>
        /\ frame' = [frame EXCEPT !.filter = @ - 1]
    BY <1>3 DEF FilterFrame
  <2>2. frame'.corrupted = frame.corrupted /\ frame'.i = frame.i
    BY <2>1 DEF CodecTypeOK, FrameState
  <2> QED
    BY <2>1, <2>2 DEF DecodedInv
<1>4. CASE FrameIsFiltered
  BY <1>4 DEF FrameIsFiltered, SyncRows, PlaceInv, DecodedInv
<1>5. CASE FilterStep
  BY <1>5 DEF FilterStep, tileVars, DecodedInv
<1>6. ASSUME at' \notin {"filter", "filtering"}
      PROVE  DecodedInv'
  BY <1>6 DEF DecodedInv
<1>7. ASSUME \/ DecodeTilesMt \/ EncodeTilesMt \/ GetTileBuffers \/ Truncated
             \/ LaunchTile \/ Handler \/ LaunchTiles \/ EndFrame
      PROVE  at' \notin {"filter", "filtering"}
  BY <1>7 DEF DecodeTilesMt, EncodeTilesMt, BeginFrame, GetTileBuffers,
              Truncated, LaunchTile, Handler, LaunchTiles, EndFrame
<1>8. ASSUME NEW w \in Workers, TileStep(w)
      PROVE  at' \notin {"filter", "filtering"}
  BY <1>8 DEF TileStep, DecodeTile, EncodeTile, WorkInv
<1>9. CASE UNCHANGED codecVars
  BY <1>9 DEF codecVars, tileVars, DecodedInv
<1> QED
  BY <1>1, <1>2, <1>3, <1>4, <1>5, <1>6, <1>7, <1>8, <1>9
  DEF CodecNext, InFrame

-----------------------------------------------------------------------------
(* The tiles of a frame are each worked on once *)

\* What TiledFrameService has for failed.
Failed ==
  /\ codec = "decoder"
  /\ frame.corrupted \/ \E w \in 0 .. frame.i - 1 : job[w].had_error

\* A tile is worked on by one worker, while the frame is running.
LEMMA TileStepIsWork ==
  ASSUME CodecInv, NEW w \in Workers, TileStep(w)
  PROVE  TiledFrameService!Next
<1> USE DEF CodecInv
<1> DEFINE t == job[w].tile
<1>1. /\ job[w].at = "tile" /\ done' = [done EXCEPT ![t] = @ + 1]
      /\ UNCHANGED <<codec, at, frame, good>>
  BY DEF TileStep, DecodeTile, EncodeTile
<1>2. t \in Tile /\ done[t] = 0 /\ at # "app"
  BY <1>1 DEF WorkInv
<1>3. done' = [done EXCEPT ![t] = 1]
  BY <1>1, <1>2 DEF CodecTypeOK
<1>4. Failed => Failed'
  <2>1. CASE DecodeTile(w)
    <3> SUFFICES ASSUME NEW v \in 0 .. frame.i - 1, job[v].had_error,
                        codec = "decoder"
                 PROVE  job'[v].had_error
      BY <1>1 DEF Failed
    <3>1. v \in Workers
      <4>1. /\ frame.i \in Nat /\ frame.i <= num_tile_workers
            /\ num_tile_workers \in 1 .. created /\ created \in 0 .. NWorkers
        BY <1>2 DEF FrameInv, CodecTypeOK, FrameState
      <4> QED
        BY <4>1, LoopFilterSizes DEF Workers
    <3>2. job[w].had_error => job'[w].had_error
      BY <2>1 DEF DecodeTile, CodecTypeOK, JobState
    <3>3. v # w => job'[v] = job[v]
      BY <2>1, <3>1 DEF DecodeTile, CodecTypeOK
    <3> QED
      BY <3>2, <3>3
  <2>2. CASE EncodeTile(w)
    BY <2>2 DEF Failed, EncodeTile
  <2> QED
    BY <2>1, <2>2 DEF TileStep
<1>5. PICK u \in Tile : u = t
  BY <1>2
<1>6. TiledFrameService!Work(u)
  BY <1>1, <1>2, <1>3, <1>4, <1>5 DEF TiledFrameService!Work, Failed
<1> QED
  BY <1>6 DEF TiledFrameService!Next

\* Every step is a step of the abstract frame, or hidden from it.
LEMMA TiledFrameNext ==
  ASSUME CodecInv, CodecInv', DecodedInv, [CodecNext]_codecVars
  PROVE  [TiledFrameService!Next]_(TiledFrameService!vars)
<1> USE DEF CodecInv
<1>1. ASSUME NEW cols \in Nat, NEW rows \in Nat, NEW filter, NEW place,
             place # "app", BeginFrame(cols, rows, filter, place)
      PROVE  TiledFrameService!Next
  <2> DEFINE tiles == {t \in Tile : t < cols * rows}
  <2>1. done' = [t \in Tile |-> IF t \in tiles THEN 0 ELSE 1]
    BY <1>1 DEF BeginFrame
  <2>2. at = "app" /\ at' # "app" /\ good' = good
    BY <1>1 DEF BeginFrame
  <2>3. ~Failed'
    <3> DEFINE f1 == [NoFrame EXCEPT !.cols = cols]
               f2 == [f1 EXCEPT !.rows = rows]
               f3 == [f2 EXCEPT !.filter = filter]
    <3>1. frame' = f3
      BY <1>1 DEF BeginFrame
    <3>2. /\ NoFrame.corrupted = FALSE /\ NoFrame.i = 0
          /\ {"cols", "rows", "filter", "corrupted", "i"} \subseteq DOMAIN NoFrame
      BY DEF NoFrame
    <3>3. f1.corrupted = FALSE /\ f1.i = 0 /\ DOMAIN f1 = DOMAIN NoFrame
      BY <3>2
    <3> HIDE DEF f1
    <3>4. f2.corrupted = FALSE /\ f2.i = 0 /\ DOMAIN f2 = DOMAIN NoFrame
      BY <3>2, <3>3
    <3> HIDE DEF f2
    <3>5. f3.corrupted = FALSE /\ f3.i = 0
      BY <3>2, <3>4
    <3> HIDE DEF f3
    <3> QED
      BY <3>1, <3>5 DEF Failed
  <2>4. tiles \in SUBSET Tile
    OBVIOUS
  <2> HIDE DEF tiles
  <2>5. TiledFrameService!Begin(tiles)
    BY <2>1, <2>2, <2>3 DEF TiledFrameService!Begin, Failed
  <2> QED
    BY <2>4, <2>5 DEF TiledFrameService!Next
<1>2. ASSUME UNCHANGED <<done, good>>, at # "app", at' # "app",
             Failed' = Failed
      PROVE  UNCHANGED TiledFrameService!vars
  BY <1>2 DEF TiledFrameService!vars, Failed
<1>3. CASE DecodeTilesMt
  <2>1. PICK cols \in TileCols \cup UnfilteredCols :
          BeginFrame(cols, 1, IF cols \in UnfilteredCols THEN 0 ELSE 1, "sizes")
    BY <1>3 DEF DecodeTilesMt
  <2>2. cols \in Nat
    BY LoopFilterSizes, TileAssumptions
  <2> QED
    BY <1>1, <2>1, <2>2
<1>4. CASE EncodeTilesMt
  <2>1. PICK cols \in TileCols, rows \in TileRows, filter \in 0 .. Filterings :
          BeginFrame(cols, rows, filter, "launch")
    BY <1>4 DEF EncodeTilesMt
  <2>2. cols \in Nat /\ rows \in Nat
    BY LoopFilterSizes, TileAssumptions
  <2> QED
    BY <1>1, <2>1, <2>2
<1>5. CASE GetTileBuffers
  <2>1. /\ at = "sizes" /\ at' = "round"
        /\ UNCHANGED <<codec, job, done, good>>
        /\ \E b : frame' = [frame EXCEPT !.buffers = b]
    BY <1>5 DEF GetTileBuffers
  <2>2. frame'.corrupted = frame.corrupted /\ frame'.i = frame.i
    BY <2>1 DEF CodecTypeOK, FrameState
  <2>3. Failed' = Failed
    BY <2>1, <2>2 DEF Failed
  <2> QED
    BY <1>2, <2>1, <2>3
<1>6. CASE Truncated
  <2>1. /\ at \in {"sizes", "round"} /\ at' = "handler"
        /\ UNCHANGED <<codec, frame, job, done, good>>
    BY <1>6 DEF Truncated
  <2> QED
    BY <1>2, <2>1 DEF Failed
<1>7. CASE LaunchTile
  <2> DEFINE w == frame.i
  <2>1. /\ at = "round" /\ at' \in {"round", "sync"}
        /\ UNCHANGED <<codec, done, good>>
        /\ \E n, f : frame' = [frame EXCEPT !.i = w + 1, !.n = n,
                                            !.final_worker = f]
        /\ \E a, t : job' = [job EXCEPT ![w] = [@ EXCEPT !.at = a, !.tile = t,
                                                         !.had_error = FALSE]]
    BY <1>7 DEF LaunchTile
  <2>2. /\ w \in Nat /\ w < num_tile_workers /\ codec = "decoder"
        /\ num_tile_workers \in 1 .. created /\ created \in 0 .. NWorkers
    BY <2>1 DEF RoundInv, PlaceInv, CodecTypeOK, FrameState, FrameInv
  <2>3. w \in Workers
    BY <2>2, LoopFilterSizes DEF Workers
  <2>4. /\ frame'.i = w + 1 /\ frame'.corrupted = frame.corrupted
    <3>1. PICK n, f : frame' = [frame EXCEPT !.i = w + 1, !.n = n,
                                             !.final_worker = f]
      BY <2>1
    <3>2. {"i", "n", "final_worker", "corrupted"} \subseteq DOMAIN frame
      BY DEF CodecTypeOK, FrameState
    <3> QED
      BY <3>1, <3>2
  <2>5. /\ ~job'[w].had_error
        /\ \A v \in Workers : v # w => job'[v] = job[v]
    <3>1. PICK a, t : job' = [job EXCEPT ![w] = [@ EXCEPT !.at = a, !.tile = t,
                                                          !.had_error = FALSE]]
      BY <2>1
    <3>2. job[w] \in JobState /\ DOMAIN job = Workers
      BY <2>3 DEF CodecTypeOK
    <3> QED
      BY <2>3, <3>1, <3>2 DEF JobState
  <2>6. Failed' = Failed
    <3>1. \A v \in 0 .. w - 1 : v \in Workers /\ v # w
      BY <2>2, LoopFilterSizes DEF Workers
    <3>2. \A v \in 0 .. w : v = w \/ v \in 0 .. w - 1
      BY <2>2
    <3>3. 0 .. (w + 1) - 1 = 0 .. w /\ 0 .. w - 1 \subseteq 0 .. w
      BY <2>2
    <3> HIDE DEF w
    <3> QED
      BY <2>1, <2>2, <2>4, <2>5, <3>1, <3>2, <3>3 DEF Failed, w
  <2> QED
    BY <1>2, <2>1, <2>6
<1>8. CASE SyncRound
  <2>1. /\ at = "sync" /\ at' # "app"
        /\ UNCHANGED <<codec, job, done, good>>
    BY <1>8 DEF SyncRound
  <2>2. frame'.corrupted = Corrupted /\ frame'.i = 0
    BY <1>8, SyncRoundFrame
  <2>3. Failed <=> Corrupted
    BY <1>8 DEF Failed, Corrupted, SyncRound
  <2>4. Failed' <=> Corrupted
    <3>1. ~(\E w \in 0 .. 0 - 1 : job'[w].had_error)
      OBVIOUS
    <3>2. codec' = "decoder"
      BY <1>8 DEF SyncRound
    <3> QED
      BY <2>2, <3>1, <3>2 DEF Failed
  <2>5. Failed' = Failed
    BY <2>3, <2>4 DEF Failed
  <2> QED
    BY <1>2, <2>1, <2>5
<1>9. CASE Handler
  <2>1. /\ at = "handler" /\ at' = "app" /\ good' = FALSE
        /\ UNCHANGED <<codec, job, done>>
        /\ frame' = [frame EXCEPT !.buffers = <<>>]
    BY <1>9 DEF Handler
  <2>2. frame'.corrupted = frame.corrupted /\ frame'.i = frame.i
    BY <2>1 DEF CodecTypeOK, FrameState
  <2>3. Failed' = Failed
    BY <2>1, <2>2 DEF Failed
  <2>4. TiledFrameService!GiveUp
    BY <2>1, <2>3 DEF TiledFrameService!GiveUp, Failed
  <2> QED
    BY <2>4 DEF TiledFrameService!Next
<1>10. CASE LaunchTiles \/ SyncTiles
  <2>1. /\ at \in {"launch", "sync"} /\ at' # "app" /\ codec = "encoder"
        /\ UNCHANGED <<codec, done, good>>
    BY <1>10 DEF LaunchTiles, SyncTiles, PlaceInv
  <2>2. Failed' = Failed
    BY <2>1 DEF Failed
  <2> QED
    BY <1>2, <2>1, <2>2
<1>11. CASE FilterFrame
  <2>1. /\ at = "filter" /\ at' = "filtering"
        /\ UNCHANGED <<codec, job, done, good>>
        /\ frame' = [frame EXCEPT !.filter = @ - 1]
    BY <1>11 DEF FilterFrame
  <2>2. frame'.corrupted = frame.corrupted /\ frame'.i = frame.i
    BY <2>1 DEF CodecTypeOK, FrameState
  <2>3. Failed' = Failed
    BY <2>1, <2>2 DEF Failed
  <2> QED
    BY <1>2, <2>1, <2>3
<1>12. CASE FrameIsFiltered
  <2>1. /\ at = "filtering" /\ at' = "filter"
        /\ UNCHANGED <<codec, frame, job, done, good>>
    BY <1>12 DEF FrameIsFiltered, SyncRows, PlaceInv
  <2> QED
    BY <1>2, <2>1 DEF Failed
<1>13. CASE EndFrame
  <2>1. /\ at = "filter" /\ at' = "app" /\ good' = TRUE
        /\ UNCHANGED <<codec, frame, job, done>>
    BY <1>13 DEF EndFrame
  <2>2. ~Failed /\ \A t \in Tile : done[t] = 1
    BY <2>1 DEF DecodedInv, Failed
  <2>3. TiledFrameService!Return
    BY <2>1, <2>2 DEF TiledFrameService!Return, Failed
  <2> QED
    BY <2>3 DEF TiledFrameService!Next
<1>14. ASSUME NEW w \in Workers, TileStep(w)
       PROVE  TiledFrameService!Next
  BY <1>14, TileStepIsWork
<1>15. CASE FilterStep \/ UNCHANGED codecVars
  <2>1. UNCHANGED <<codec, at, frame, job, done, good>>
    BY <1>15 DEF FilterStep, codecVars, tileVars
  <2> QED
    BY <2>1 DEF TiledFrameService!vars
<1> QED
  BY <1>3, <1>4, <1>5, <1>6, <1>7, <1>8, <1>9, <1>10, <1>11, <1>12, <1>13,
     <1>14, <1>15
  DEF CodecNext, InFrame

\* Every tile is decoded or encoded once, whatever the number of threads, the
\* sizes of the tiles and their failures; none is worked on when the frame is
\* over, also when the decoder leaves it by longjmp(); and a frame that is
\* returned as good has all its tiles, none of which failed.
THEOREM TilesAreDoneOnce ==
  ASSUME SameTileCols
  PROVE  CodecSpec => ImplementsTiledFrame
<1>1. CodecInit => TiledFrameService!Init
  BY DEF CodecInit, TiledFrameService!Init, NoFrame
<1>2. CodecInit => DecodedInv
  BY DEF CodecInit, DecodedInv
<1>3. CodecInv /\ CodecInv' /\ DecodedInv /\ [CodecNext]_codecVars => DecodedInv'
  BY DecodedNext
<1>4. CodecInv /\ CodecInv' /\ DecodedInv /\ [CodecNext]_codecVars
        => [TiledFrameService!Next]_(TiledFrameService!vars)
  BY TiledFrameNext
<1> QED
  BY <1>1, <1>2, <1>3, <1>4, CodecInvariance, PTL
  DEF CodecSpec, ImplementsTiledFrame, TiledFrameService!Spec

-----------------------------------------------------------------------------
(* The loop filter of the codec *)

\* The workers of the frames so far, which are as many every time.
CodecDoneInv ==
  /\ DoneInv
  /\ \/ num_workers = 0
     \/ /\ created # 0
        /\ \E cols \in TileCols : num_workers = LeastOf(created, cols)

\* The loop filter's variables and the number of threads have their own steps.
LEMMA OwnSteps ==
  ASSUME CodecInv, [CodecNext]_codecVars
  PROVE  /\ FilterFrame \/ FrameIsFiltered \/ FilterStep \/ UNCHANGED vars
         /\ created # 0 => created' = created
<1>1. CASE DecodeTilesMt \/ EncodeTilesMt
  BY <1>1 DEF DecodeTilesMt, EncodeTilesMt, BeginFrame, CreateWorkers
<1>2. CASE InFrame
  BY <1>2 DEF InFrame, GetTileBuffers, Truncated, LaunchTile, SyncRound, Handler,
              LaunchTiles, SyncTiles, FilterFrame, FrameIsFiltered, EndFrame
<1>3. ASSUME NEW w \in Workers, TileStep(w)
      PROVE  UNCHANGED vars /\ created' = created
  BY <1>3 DEF TileStep, DecodeTile, EncodeTile
<1>4. CASE FilterStep
  BY <1>4 DEF FilterStep, tileVars
<1>5. CASE UNCHANGED codecVars
  BY <1>5 DEF codecVars, tileVars
<1> QED
  BY <1>1, <1>2, <1>3, <1>4, <1>5 DEF CodecNext

\* Every step keeps it.
LEMMA CodecDoneNext ==
  ASSUME SameTileCols, CodecInv, CodecDoneInv, [CodecNext]_codecVars
  PROVE  CodecDoneInv'
<1>1. CASE FilterFrame
  <2> DEFINE n == LeastOf(created, frame.cols)
  <2>1. /\ at = "filter" /\ frame.filter > 0 /\ LoopFilterRowsMt(n)
        /\ created' = created
    BY <1>1 DEF FilterFrame
  <2>2. /\ frame.cols \in TileCols /\ created \in 0 .. NWorkers
        /\ num_tile_workers \in 1 .. created
    BY <2>1 DEF CodecInv, FrameInv, CodecTypeOK
  <2>3. n \in Nat \ {0} /\ n <= NWorkers /\ created # 0
    <3>1. NWorkers \in Nat /\ frame.cols \in Nat \ {0}
      BY <2>2, LoopFilterSizes
    <3>2. created \in Nat \ {0} /\ created <= NWorkers
      BY <2>2, <3>1
    <3> QED
      BY <3>1, <3>2 DEF LeastOf
  <2>4. num_workers' = n
    <3> HIDE DEF n
    <3>1. num_workers' = IF NWorkers < n THEN NWorkers ELSE n
      BY <2>1 DEF LoopFilterRowsMt
    <3> QED
      BY <2>3, <3>1, LoopFilterSizes
  <2>5. num_workers = 0 \/ num_workers = n
    BY <2>2 DEF CodecDoneInv, SameTileCols
  <2> HIDE DEF n
  <2>6. DoneInv'
    BY <2>1, <2>3, <2>4, <2>5, BeginDone DEF CodecDoneInv
  <2> QED
    BY <2>1, <2>2, <2>3, <2>4, <2>6 DEF CodecDoneInv, n
<1>2. CASE FrameIsFiltered \/ FilterStep
  <2>1. InRows /\ created' = created
    BY <1>2 DEF FrameIsFiltered, FilterStep, InRows, tileVars
  <2> QED
    BY <2>1, InRowsDone DEF CodecDoneInv, CodecInv
<1>3. CASE UNCHANGED vars
  BY <1>3, OwnSteps DEF vars, CodecDoneInv, DoneInv, AllRowsFiltered
<1> QED
  BY <1>1, <1>2, <1>3, OwnSteps

\* No superblock is filtered before the ones above it and above its right
\* neighbour, and the filter returns when all are filtered, also when the tile
\* workers of a codec run it: for any picture, any number of workers and tiles,
\* and every sync range.
THEOREM CodecFilterIsWavefront ==
  ASSUME SameTileCols
  PROVE  CodecSpec => ImplementsWavefront
<1>1. CodecInit => WavefrontOrder!Init
  BY WavefrontInit DEF CodecInit
<1>2. CodecInit => CodecDoneInv
  BY InitDone DEF CodecInit, Init, CodecDoneInv
<1>3. CodecInv /\ CodecDoneInv /\ [CodecNext]_codecVars => CodecDoneInv'
  BY CodecDoneNext
<1>4. CodecInv /\ CodecDoneInv' /\ [CodecNext]_codecVars
        => [WavefrontOrder!Next]_(WavefrontOrder!vars)
  <2> SUFFICES ASSUME CodecInv, CodecDoneInv', [CodecNext]_codecVars
               PROVE  [WavefrontOrder!Next]_(WavefrontOrder!vars)
    OBVIOUS
  <2>1. CASE FilterFrame
    BY <2>1, BeginIsWavefront DEF FilterFrame
  <2>2. CASE FrameIsFiltered \/ FilterStep
    <3>1. InRows
      BY <2>2 DEF FrameIsFiltered, FilterStep, InRows
    <3>2. IInv /\ DoneInv'
      BY DEF CodecInv, CodecDoneInv
    <3> QED
      BY <3>1, <3>2, InRowsIsWavefront
  <2>3. CASE UNCHANGED vars
    BY <2>3 DEF vars, WavefrontOrder!vars
  <2> QED
    BY <2>1, <2>2, <2>3, OwnSteps
<1> QED
  BY <1>1, <1>2, <1>3, <1>4, CodecInvariance, PTL
  DEF CodecSpec, ImplementsWavefront, WavefrontOrder!Spec

-----------------------------------------------------------------------------
(* What the tiles count is counted in once *)

\* A tile that was not done is counted nowhere; one that was is counted once, by
\* a worker whose counts will be accumulated or, with the encoder's own data, in
\* the frame's.
CountedOnce(t) ==
  \/ done[t] = 0 /\ counted[t] = 0 /\ \A w \in Workers : job[w].counts[t] = 0
  \/ /\ done[t] = 1 /\ counted[t] = 0
     /\ \E w \in Workers :
          /\ w < num_tile_workers - IF codec = "encoder" THEN 1 ELSE 0
          /\ job[w].counts[t] = 1
          /\ \A v \in Workers \ {w} : job[v].counts[t] = 0
  \/ /\ done[t] = 1 /\ codec = "encoder" /\ counted[t] = 1
     /\ \A w \in Workers : job[w].counts[t] = 0

\* Counts are complete when the tiles are decoded or encoded.
CountedInv ==
  /\ counted = [t \in Tile |-> counted[t]]
  /\ at \in {"sizes", "round", "launch", "sync"} =>
       \A t \in Tile : t < Total => CountedOnce(t)
  /\ at \in {"filter", "filtering"} =>
       \A t \in Tile : t < Total => counted[t] = 1

\* The sum over workers that do not count a tile, but for one of them at most.
LEMMA AccumulatedIs ==
  ASSUME NEW ws \in SUBSET Workers
  PROVE  /\ \A t \in Tile :
              (\A w \in ws : job[w].counts[t] = 0)
                => Accumulated(ws)[t] = counted[t] + 0
         /\ \A t \in Tile, w \in ws :
              job[w].counts[t] = 1 /\ (\A v \in ws \ {w} : job[v].counts[t] = 0)
                => Accumulated(ws)[t] = counted[t] + 1
<1> DEFINE tallies(t) == UNION {{w} \X (1 .. job[w].counts[t]) : w \in ws}
<1>1. ASSUME NEW t \in Tile
      PROVE  Accumulated(ws)[t] = counted[t] + Cardinality(tallies(t))
  BY DEF Accumulated
<1>2. ASSUME NEW t \in Tile, \A w \in ws : job[w].counts[t] = 0
      PROVE  Accumulated(ws)[t] = counted[t] + 0
  <2>1. tallies(t) = {}
    BY <1>2
  <2>2. Cardinality(tallies(t)) = 0
    BY <2>1, FS_EmptySet
  <2> QED
    BY <1>1, <2>2
<1>3. ASSUME NEW t \in Tile, NEW w \in ws, job[w].counts[t] = 1,
             \A v \in ws \ {w} : job[v].counts[t] = 0
      PROVE  Accumulated(ws)[t] = counted[t] + 1
  <2>1. tallies(t) = {<<w, 1>>}
    <3>1. 1 .. 1 = {1} /\ 1 .. 0 = {}
      OBVIOUS
    <3>2. ASSUME NEW v \in ws
          PROVE  {v} \X (1 .. job[v].counts[t]) =
                   IF v = w THEN {<<w, 1>>} ELSE {}
      BY <1>3, <3>1
    <3> QED
      BY <3>2
  <2>2. Cardinality(tallies(t)) = 1
    BY <2>1, FS_Singleton
  <2> QED
    BY <1>1, <2>2
<1> QED
  BY <1>2, <1>3

\* A frame begins with nothing counted.
LEMMA BeginCounted ==
  ASSUME CodecInv, NEW cols, NEW rows, NEW filter, NEW place \in {"sizes", "launch"},
         cols \in Nat, rows \in Nat, BeginFrame(cols, rows, filter, place)
  PROVE  CountedInv'
<1>1. /\ job \in [Workers -> JobState] /\ at' = place
      /\ job' = [w \in Workers |-> [job[w] EXCEPT !.counts = NoCounts]]
      /\ done' = [t \in Tile |-> IF t < cols * rows THEN 0 ELSE 1]
      /\ counted' = NoCounts
  BY DEF CodecInv, CodecTypeOK, BeginFrame
<1>2. frame'.cols = cols /\ frame'.rows = rows
  <2> DEFINE f1 == [NoFrame EXCEPT !.cols = cols]
             f2 == [f1 EXCEPT !.rows = rows]
             f3 == [f2 EXCEPT !.filter = filter]
  <2>1. frame' = f3
    BY DEF BeginFrame
  <2>2. f1.cols = cols /\ DOMAIN f1 = DOMAIN NoFrame
        /\ {"cols", "rows", "filter"} \subseteq DOMAIN NoFrame
    BY DEF NoFrame
  <2> HIDE DEF f1
  <2>3. f2.cols = cols /\ f2.rows = rows /\ DOMAIN f2 = DOMAIN NoFrame
    BY <2>2
  <2> HIDE DEF f2
  <2>4. f3.cols = cols /\ f3.rows = rows
    BY <2>2, <2>3
  <2> QED
    BY <2>1, <2>4
<1>3. ASSUME NEW w \in Workers, NEW t \in Tile
      PROVE  job'[w].counts[t] = 0
  BY <1>1 DEF JobState, NoCounts
<1>4. ASSUME NEW t \in Tile, t < Total'
      PROVE  CountedOnce(t)'
  <2>1. done'[t] = 0 /\ counted'[t] = 0
    BY <1>1, <1>2, <1>4 DEF Total, NoCounts
  <2> QED
    BY <1>3, <2>1 DEF CountedOnce
<1> QED
  BY <1>1, <1>4 DEF CountedInv, NoCounts

\* What one worker counts more of a tile.
LEMMA Tallied ==
  ASSUME CodecInv, CodecInv', NEW w \in Workers, NEW t \in Tile, NEW d \in {0, 1},
         job[w].counts[t] = 0,
         \A v \in Workers : job'[v].counts =
           IF v = w THEN [job[w].counts EXCEPT ![t] = @ + d] ELSE job[v].counts
  PROVE  /\ job'[w].counts[t] = d
         /\ \A v \in Workers \ {w} : job'[v].counts = job[v].counts
         /\ \A v \in Workers, u \in Tile \ {t} :
              job'[v].counts[u] = job[v].counts[u]
<1>1. job \in [Workers -> JobState] /\ job[w].counts \in [Tile -> Nat]
  BY DEF CodecInv, CodecTypeOK, JobState
<1> QED
  BY <1>1

\* Steps that only move tiles between the workers and their places.
LEMMA SameCounts ==
  ASSUME CountedInv, UNCHANGED <<codec, created, counted, done>>,
         frame'.cols = frame.cols, frame'.rows = frame.rows,
         \A v \in Workers : job'[v].counts = job[v].counts,
         \/ /\ at \in {"sizes", "round", "launch", "sync"}
            /\ at' \in {"sizes", "round", "launch", "sync"}
         \/ at \in {"filter", "filtering"} /\ at' \in {"filter", "filtering"}
         \/ at' \in {"app", "handler"}
  PROVE  CountedInv'
<1>1. Total' = Total /\ num_tile_workers' = num_tile_workers
  BY DEF Total, num_tile_workers
<1>2. ASSUME NEW t \in Tile, CountedOnce(t)
      PROVE  CountedOnce(t)'
  BY <1>1, <1>2 DEF CountedOnce
<1>3. counted' = [t \in Tile |-> counted'[t]]
  BY DEF CountedInv
<1> QED
  BY <1>1, <1>2, <1>3 DEF CountedInv

\* The decoder counts a tile with its worker.
LEMMA DecodeTileCounted ==
  ASSUME CodecInv, CodecInv', CountedInv, NEW w \in Workers, DecodeTile(w)
  PROVE  CountedInv'
<1> USE DEF CodecInv
<1>a. job[w].tile \in Tile
  BY DEF DecodeTile, WorkInv
<1>0. PICK t \in Tile : t = job[w].tile
  BY <1>a
<1>1. /\ codec = "decoder" /\ job[w].at = "tile"
      /\ UNCHANGED <<vars, codec, at, frame, created, alive, counted>>
      /\ done' = [done EXCEPT ![t] = @ + 1]
  BY <1>0 DEF DecodeTile
<1>2. PICK fails \in BOOLEAN :
        job' = [job EXCEPT ![w].at = "ready",
                           ![w].had_error = @ \/ fails,
                           ![w].counts[t] = @ + 1]
  BY <1>0 DEF DecodeTile
<1>3. t \in Tile /\ done[t] = 0 /\ at \in {"round", "sync", "handler"}
  BY <1>0, <1>1 DEF WorkInv, PlaceInv
<1>4. \A v \in Workers : job'[v].counts =
        IF v = w THEN [job[w].counts EXCEPT ![t] = @ + 1] ELSE job[v].counts
  <2> DEFINE j1 == [job EXCEPT ![w].at = "ready"]
             j2 == [j1 EXCEPT ![w].had_error = @ \/ fails]
             j3 == [j2 EXCEPT ![w].counts[t] = @ + 1]
  <2>1. job' = j3
    BY <1>2
  <2>2. /\ j1 \in [Workers -> JobState]
        /\ \A v \in Workers : j1[v].counts = job[v].counts
    BY DEF CodecTypeOK, JobState
  <2> HIDE DEF j1
  <2>3. (j1[w].had_error \/ fails) \in BOOLEAN
    BY Zenon
  <2>4. /\ j2 \in [Workers -> JobState]
        /\ \A v \in Workers : j2[v].counts = job[v].counts
    BY <2>2, <2>3 DEF JobState
  <2> HIDE DEF j2
  <2>5. \A v \in Workers : j3[v].counts =
          IF v = w THEN [j2[w].counts EXCEPT ![t] = @ + 1] ELSE j2[v].counts
    BY <2>4 DEF JobState
  <2> HIDE DEF j3
  <2> QED
    BY <2>1, <2>4, <2>5
<1>5. CASE at = "handler"
  BY <1>1, <1>5 DEF CountedInv
<1>6. CASE at \in {"round", "sync"}
  <2>1. t < Total /\ w < num_tile_workers
    <3>1. t < Total
      <4>1. Total \in Nat /\ t \in Nat
        BY DEF Tile, Total, CodecTypeOK, FrameState
      <4> QED
        BY <1>3, <1>6, <4>1 DEF PaddingInv
    <3>2. w < frame.i /\ frame.i <= num_tile_workers /\ frame.i \in Nat
          /\ num_tile_workers \in Int /\ w \in Int
      BY <1>1, <1>6, LoopFilterSizes DEF RoundInv, FrameInv, CodecTypeOK, FrameState, Workers
    <3> QED
      BY <3>1, <3>2
  <2>2. CountedOnce(t) /\ counted[t] = 0 /\ \A v \in Workers : job[v].counts[t] = 0
    BY <1>3, <1>6, <2>1 DEF CountedInv, CountedOnce
  <2>3. /\ job'[w].counts[t] = 1
        /\ \A v \in Workers \ {w} : job'[v].counts = job[v].counts
        /\ \A v \in Workers, u \in Tile \ {t} :
             job'[v].counts[u] = job[v].counts[u]
    <3> QED
      BY <1>3, <1>4, <2>2, Tallied
  <2>4. /\ done'[t] = 1
        /\ \A u \in Tile \ {t} : done'[u] = done[u]
    BY <1>1, <1>3 DEF CodecTypeOK
  <2>5. Total' = Total /\ num_tile_workers' = num_tile_workers
    BY <1>1 DEF Total, num_tile_workers
  <2>6. num_tile_workers \in Int
    BY <1>6, LoopFilterSizes DEF FrameInv, CodecTypeOK
  <2>7. CountedOnce(t)'
    <3> SUFFICES /\ done'[t] = 1 /\ counted'[t] = 0
                 /\ w < num_tile_workers' - IF codec' = "encoder" THEN 1 ELSE 0
                 /\ job'[w].counts[t] = 1
                 /\ \A v \in Workers \ {w} : job'[v].counts[t] = 0
      BY DEF CountedOnce
    <3> QED
      BY <1>1, <2>1, <2>2, <2>3, <2>4, <2>5, <2>6
  <2>8. ASSUME NEW u \in Tile, u < Total', u # t
        PROVE  CountedOnce(u)'
    <3>1. CountedOnce(u)
      BY <1>6, <2>5, <2>8 DEF CountedInv
    <3> QED
      BY <1>1, <2>3, <2>4, <2>5, <2>8, <3>1 DEF CountedOnce
  <2> QED
    BY <1>1, <1>6, <2>7, <2>8 DEF CountedInv
<1> QED
  BY <1>3, <1>5, <1>6

\* The encoder counts a tile with its worker, or in the frame's counts.
LEMMA EncodeTileCounted ==
  ASSUME SameTileCols, CodecInv, CodecInv', CountedInv,
         NEW w \in Workers, EncodeTile(w)
  PROVE  CountedInv'
<1> USE DEF CodecInv
<1>a. job[w].tile \in Tile
  BY DEF EncodeTile, WorkInv
<1>0. PICK t \in Tile : t = job[w].tile
  BY <1>a
<1> DEFINE over == t + created >= Total
           own == OwnData(w)
<1>1. /\ codec = "encoder" /\ job[w].at = "tile"
      /\ UNCHANGED <<vars, codec, at, frame, created, alive>>
      /\ done' = [done EXCEPT ![t] = @ + 1]
      /\ counted' = IF own THEN [counted EXCEPT ![t] = @ + 1] ELSE counted
      /\ job' = [job EXCEPT
                   ![w].at = IF over THEN "ready" ELSE "tile",
                   ![w].tile = IF over THEN NoTile ELSE t + created,
                   ![w].had_error = @ \/ over,
                   ![w].counts[t] = IF own THEN @ ELSE @ + 1]
  BY <1>0 DEF EncodeTile, Total
<1>2. /\ done[t] = 0 /\ at \in {"launch", "sync"}
      /\ t < Total /\ w < frame.i
  BY <1>0, <1>1 DEF WorkInv, PlaceInv, StrideInv
<1>3. num_tile_workers = created /\ created \in Nat /\ frame.i <= created
      /\ frame.i \in Nat /\ w \in Nat /\ w < created
  BY <1>1, <1>2, EncoderWorkers, LoopFilterSizes
  DEF FrameInv, CodecTypeOK, FrameState, Workers
<1>4. PICK d \in {0, 1} : d = IF own THEN 0 ELSE 1
  OBVIOUS
<1>5. \A v \in Workers : job'[v].counts =
        IF v = w THEN [job[w].counts EXCEPT ![t] = @ + d] ELSE job[v].counts
  <2> DEFINE place == IF over THEN "ready" ELSE "tile"
             next == IF over THEN NoTile ELSE t + created
             tally(c) == IF own THEN c ELSE c + 1
             j1 == [job EXCEPT ![w].at = place]
             j2 == [j1 EXCEPT ![w].tile = next]
             j3 == [j2 EXCEPT ![w].had_error = @ \/ over]
             j4 == [j3 EXCEPT ![w].counts[t] = tally(@)]
  <2>1. job' = j4
    <3> HIDE DEF over, own
    <3> QED
      BY <1>1
  <2>2. place \in {"ready", "tile"} /\ next \in Int
    BY <1>3 DEF NoTile, Tile
  <2> HIDE DEF next, place, over
  <2>3. /\ j1 \in [Workers -> JobState]
        /\ \A v \in Workers : j1[v].counts = job[v].counts
    BY <2>2 DEF CodecTypeOK, JobState
  <2> HIDE DEF j1
  <2>4. /\ j2 \in [Workers -> JobState]
        /\ \A v \in Workers : j2[v].counts = job[v].counts
    BY <2>2, <2>3 DEF JobState
  <2> HIDE DEF j2
  <2>5. (j2[w].had_error \/ over) \in BOOLEAN
    BY Zenon
  <2>6. /\ j3 \in [Workers -> JobState]
        /\ \A v \in Workers : j3[v].counts = job[v].counts
    BY <2>4, <2>5 DEF JobState
  <2> HIDE DEF j3
  <2>7. tally(j3[w].counts[t]) = j3[w].counts[t] + d
    BY <1>4, <2>6 DEF JobState
  <2> HIDE DEF tally
  <2>8. \A v \in Workers : j4[v].counts =
          IF v = w THEN [j3[w].counts EXCEPT ![t] = tally(@)] ELSE j3[v].counts
    BY <2>6 DEF JobState
  <2> HIDE DEF j4
  <2>9. [j3[w].counts EXCEPT ![t] = tally(@)] = [j3[w].counts EXCEPT ![t] = @ + d]
    BY <2>6, <2>7 DEF JobState
  <2> QED
    BY <2>1, <2>6, <2>8, <2>9
<1> HIDE DEF over
<1>6. CountedOnce(t) /\ counted[t] = 0 /\ \A v \in Workers : job[v].counts[t] = 0
  BY <1>2 DEF CountedInv, CountedOnce
<1>7. /\ job'[w].counts[t] = d
      /\ \A v \in Workers \ {w} : job'[v].counts = job[v].counts
      /\ \A v \in Workers, u \in Tile \ {t} :
           job'[v].counts[u] = job[v].counts[u]
  BY <1>5, <1>6, Tallied
<1>8. /\ done'[t] = 1
      /\ \A u \in Tile \ {t} : done'[u] = done[u]
  BY <1>1, <1>2 DEF CodecTypeOK
<1>9. /\ counted' = [u \in Tile |-> counted'[u]]
      /\ counted'[t] = 1 - d
      /\ \A u \in Tile \ {t} : counted'[u] = counted[u]
  <2>1. DOMAIN counted = Tile
    BY DEF CountedInv
  <2>2. CASE own
    BY <1>1, <1>4, <1>6, <2>1, <2>2 DEF CountedInv
  <2>3. CASE ~own
    BY <1>1, <1>4, <1>6, <2>3 DEF CountedInv
  <2> QED
    BY <2>2, <2>3
<1>10. Total' = Total /\ num_tile_workers' = num_tile_workers
  BY <1>1 DEF Total, num_tile_workers
<1>11. CountedOnce(t)'
  <2>1. CASE own
    <3>1. \A v \in Workers : job'[v].counts[t] = 0
      BY <1>4, <1>6, <1>7, <2>1
    <3>2. done'[t] = 1 /\ codec' = "encoder" /\ counted'[t] = 1
      BY <1>1, <1>4, <1>8, <1>9, <2>1
    <3> QED
      BY <3>1, <3>2 DEF CountedOnce
  <2>2. CASE ~own
    <3>1. w < num_tile_workers' - IF codec' = "encoder" THEN 1 ELSE 0
      BY <1>1, <1>3, <1>10, <2>2 DEF OwnData
    <3>2. job'[w].counts[t] = 1 /\ counted'[t] = 0
          /\ \A v \in Workers \ {w} : job'[v].counts[t] = 0
      BY <1>4, <1>6, <1>7, <1>9, <2>2
    <3> QED
      BY <1>8, <3>1, <3>2 DEF CountedOnce
  <2> QED
    BY <2>1, <2>2
<1>12. ASSUME NEW u \in Tile, u < Total', u # t
       PROVE  CountedOnce(u)'
  <2>1. CountedOnce(u)
    BY <1>2, <1>10, <1>12 DEF CountedInv
  <2>2. /\ done'[u] = done[u] /\ counted'[u] = counted[u] /\ codec' = codec
        /\ \A v \in Workers : job'[v].counts[u] = job[v].counts[u]
    BY <1>1, <1>7, <1>8, <1>9, <1>12
  <2> QED
    BY <1>10, <2>1, <2>2 DEF CountedOnce
<1> QED
  BY <1>1, <1>2, <1>9, <1>11, <1>12 DEF CountedInv

\* The decoder's workers are accumulated when all rounds are over.
LEMMA SyncRoundCounted ==
  ASSUME CodecInv, CodecInv', DecodedInv', CountedInv, SyncRound
  PROVE  CountedInv'
<1> USE DEF CodecInv
<1> DEFINE over == frame.n = frame.cols
           ws == 0 .. num_tile_workers - 1
<1>1. /\ codec = "decoder" /\ at = "sync"
      /\ UNCHANGED <<codec, created, job, done>>
      /\ counted' = IF over THEN Accumulated(ws) ELSE counted
      /\ at' \in {"round", "handler", "filter"}
      /\ at' = "round" => ~over
      /\ at' = "filter" => over
  BY DEF SyncRound, Counts
<1>2. frame'.cols = frame.cols /\ frame'.rows = frame.rows
  <2> DEFINE f1 == [frame EXCEPT !.corrupted = Corrupted]
             f2 == [f1 EXCEPT !.end = IF frame.final_worker = -1 THEN @
                                      ELSE job[frame.final_worker].tile]
             f3 == [f2 EXCEPT !.final_worker = -1]
             f4 == [f3 EXCEPT !.buffers = IF over THEN <<>> ELSE @]
             f5 == [f4 EXCEPT !.i = 0]
  <2>1. frame' = f5
    BY DEF SyncRound
  <2>2. /\ f1.cols = frame.cols /\ f1.rows = frame.rows
        /\ {"cols", "rows"} \subseteq DOMAIN frame /\ DOMAIN f1 = DOMAIN frame
    BY DEF CodecTypeOK, FrameState
  <2> HIDE DEF f1
  <2>3. f2.cols = f1.cols /\ f2.rows = f1.rows /\ DOMAIN f2 = DOMAIN frame
    BY <2>2
  <2> HIDE DEF f2
  <2>4. f3.cols = f1.cols /\ f3.rows = f1.rows /\ DOMAIN f3 = DOMAIN frame
    BY <2>2, <2>3
  <2> HIDE DEF f3
  <2>5. f4.cols = f1.cols /\ f4.rows = f1.rows /\ DOMAIN f4 = DOMAIN frame
    BY <2>2, <2>4
  <2> HIDE DEF f4
  <2>6. f5.cols = f1.cols /\ f5.rows = f1.rows
    BY <2>2, <2>5
  <2> QED
    BY <2>1, <2>2, <2>6
<1>3. CASE at' = "round"
  BY <1>1, <1>2, <1>3, SameCounts
<1>4. CASE at' = "handler"
  BY <1>1, <1>4 DEF CountedInv, Accumulated
<1>5. CASE at' = "filter"
  <2>1. counted' = Accumulated(ws) /\ counted' = [t \in Tile |-> counted'[t]]
    BY <1>1, <1>5 DEF Accumulated
  <2>2. ws \subseteq Workers
    BY <1>1, LoopFilterSizes DEF FrameInv, CodecTypeOK, Workers
  <2>3. ASSUME NEW t \in Tile, t < Total'
        PROVE  counted'[t] = 1
    <3>1. t < Total /\ done[t] = 1
      BY <1>1, <1>2, <1>5, <2>3 DEF Total, DecodedInv
    <3>2. CountedOnce(t) /\ codec # "encoder"
      BY <1>1, <3>1 DEF CountedInv
    <3>3. PICK w \in Workers :
            /\ w < num_tile_workers - IF codec = "encoder" THEN 1 ELSE 0
            /\ job[w].counts[t] = 1
            /\ \A v \in Workers \ {w} : job[v].counts[t] = 0
      BY <3>1, <3>2 DEF CountedOnce
    <3>4. w \in ws /\ counted[t] = 0
      <4>1. w \in Nat /\ num_tile_workers \in Nat
        BY <1>1, LoopFilterSizes DEF FrameInv, CodecTypeOK, Workers
      <4> QED
        BY <3>1, <3>2, <3>3, <4>1 DEF CountedOnce
    <3> HIDE DEF ws
    <3>5. Accumulated(ws)[t] = counted[t] + 1
      BY <2>2, <3>3, <3>4, AccumulatedIs
    <3> QED
      BY <2>1, <3>4, <3>5
  <2> QED
    BY <1>5, <2>1, <2>3 DEF CountedInv
<1> QED
  BY <1>1, <1>3, <1>4, <1>5

\* The encoder's workers but the last are accumulated when all tiles are done.
LEMMA SyncTilesCounted ==
  ASSUME SameTileCols, CodecInv, CodecInv', DecodedInv', CountedInv, SyncTiles
  PROVE  CountedInv'
<1> USE DEF CodecInv
<1> DEFINE ws == 0 .. num_tile_workers - 2
<1>1. /\ codec = "encoder" /\ at = "sync" /\ at' = "filter"
      /\ UNCHANGED <<codec, created, frame, job, done>>
      /\ counted' = Accumulated(ws)
  BY DEF SyncTiles
<1>2. ws \subseteq Workers
  BY <1>1, LoopFilterSizes DEF FrameInv, CodecTypeOK, Workers
<1>3. ASSUME NEW t \in Tile, t < Total'
      PROVE  counted'[t] = 1
  <2>1. t < Total /\ done[t] = 1
    BY <1>1, <1>3 DEF Total, DecodedInv
  <2>2. CountedOnce(t)
    BY <1>1, <2>1 DEF CountedInv
  <2>3. CASE counted[t] = 1 /\ \A w \in Workers : job[w].counts[t] = 0
    <3> HIDE DEF ws
    <3>1. Accumulated(ws)[t] = counted[t] + 0
      BY <1>2, <2>3, AccumulatedIs
    <3> QED
      BY <1>1, <2>3, <3>1
  <2>4. CASE ~(counted[t] = 1 /\ \A w \in Workers : job[w].counts[t] = 0)
    <3>1. PICK w \in Workers :
            /\ w < num_tile_workers - IF codec = "encoder" THEN 1 ELSE 0
            /\ job[w].counts[t] = 1
            /\ \A v \in Workers \ {w} : job[v].counts[t] = 0
      BY <2>1, <2>2, <2>4 DEF CountedOnce
    <3>2. w \in ws /\ counted[t] = 0
      <4>1. w \in Nat /\ num_tile_workers \in Nat
        BY <1>1, LoopFilterSizes DEF FrameInv, CodecTypeOK, Workers
      <4>2. w < num_tile_workers - 1
        BY <1>1, <3>1
      <4>3. counted[t] = 0
        BY <2>1, <2>2, <2>4 DEF CountedOnce
      <4> QED
        BY <4>1, <4>2, <4>3
    <3> HIDE DEF ws
    <3>3. Accumulated(ws)[t] = counted[t] + 1
      BY <1>2, <3>1, <3>2, AccumulatedIs
    <3> QED
      BY <1>1, <3>2, <3>3
  <2> QED
    BY <2>3, <2>4
<1>4. counted' = [t \in Tile |-> counted'[t]]
  BY <1>1 DEF Accumulated
<1> QED
  BY <1>1, <1>3, <1>4 DEF CountedInv

\* A launch leaves the counts alone.
LEMMA LaunchCounted ==
  ASSUME CodecInv, NEW w, NEW n, NEW t, NEW h,
         job' = [job EXCEPT ![w] = [@ EXCEPT !.at = n, !.tile = t, !.had_error = h]]
  PROVE  \A v \in Workers : job'[v].counts = job[v].counts
<1> DEFINE j1 == [job[w] EXCEPT !.at = n]
           j2 == [j1 EXCEPT !.tile = t]
           j3 == [j2 EXCEPT !.had_error = h]
<1>1. job' = [job EXCEPT ![w] = j3]
  OBVIOUS
<1>2. w \in Workers => j3.counts = job[w].counts
  BY DEF CodecInv, CodecTypeOK, JobState
<1> HIDE DEF j3
<1> QED
  BY <1>1, <1>2 DEF CodecInv, CodecTypeOK

\* Every step keeps it.
LEMMA CountedNext ==
  ASSUME SameTileCols, CodecInv, CodecInv', DecodedInv', CountedInv,
         [CodecNext]_codecVars
  PROVE  CountedInv'
<1>1. CASE DecodeTilesMt
  <2>1. PICK cols \in TileCols \cup UnfilteredCols :
          BeginFrame(cols, 1, IF cols \in UnfilteredCols THEN 0 ELSE 1, "sizes")
    BY <1>1 DEF DecodeTilesMt
  <2>2. cols \in Nat
    BY LoopFilterSizes, TileAssumptions
  <2> QED
    BY <2>1, <2>2, BeginCounted
<1>2. CASE EncodeTilesMt
  <2>1. PICK cols \in TileCols, rows \in TileRows, filter \in 0 .. Filterings :
          BeginFrame(cols, rows, filter, "launch")
    BY <1>2 DEF EncodeTilesMt
  <2>2. cols \in Nat /\ rows \in Nat
    BY LoopFilterSizes, TileAssumptions
  <2> QED
    BY <2>1, <2>2, BeginCounted
<1>3. CASE GetTileBuffers
  <2>1. frame'.cols = frame.cols /\ frame'.rows = frame.rows
    BY <1>3 DEF GetTileBuffers, CodecInv, CodecTypeOK, FrameState
  <2> QED
    BY <1>3, <2>1, SameCounts DEF GetTileBuffers
<1>4. CASE Truncated \/ Handler \/ EndFrame
  BY <1>4 DEF Truncated, Handler, EndFrame, CountedInv
<1>5. CASE LaunchTile
  <2> DEFINE w == frame.i
             col == frame.buffers[frame.n + 1]
             last == w = num_tile_workers - 1 \/ frame.n = frame.cols - 1
             place == IF Starts(w, last) THEN "tile" ELSE "ready"
             f1 == [frame EXCEPT !.i = w + 1]
             f2 == [f1 EXCEPT !.n = @ + 1]
             f3 == [f2 EXCEPT !.final_worker = FinalWorker(col)]
  <2>1. /\ job' = [job EXCEPT ![w] = [@ EXCEPT !.at = place, !.tile = col,
                                               !.had_error = FALSE]]
        /\ frame' = f3 /\ at = "round" /\ at' \in {"sync", "round"}
        /\ UNCHANGED <<codec, created, counted, done>>
    BY <1>5 DEF LaunchTile
  <2> HIDE DEF place, col, last, w
  <2>2. \A v \in Workers : job'[v].counts = job[v].counts
    BY <2>1, LaunchCounted
  <2>3. f3.cols = frame.cols /\ f3.rows = frame.rows
    BY DEF CodecInv, CodecTypeOK, FrameState
  <2> HIDE DEF f3
  <2> QED
    BY <2>1, <2>2, <2>3, SameCounts
<1>6. CASE LaunchTiles
  <2> DEFINE w == frame.i
             last == w = num_tile_workers - 1
             place == IF Starts(w, last) THEN "tile" ELSE "ready"
             n == [[job[w] EXCEPT !.at = place] EXCEPT !.tile = w]
  <2>1. /\ job' = [job EXCEPT ![w] = n]
        /\ frame' = [frame EXCEPT !.i = w + 1]
        /\ at = "launch" /\ at' \in {"sync", "launch"}
        /\ UNCHANGED <<codec, created, counted, done>>
    BY <1>6 DEF LaunchTiles
  <2>2. w \in Workers => n.counts = job[w].counts
    BY DEF CodecInv, CodecTypeOK, JobState
  <2>3. frame'.cols = frame.cols /\ frame'.rows = frame.rows
    BY <2>1 DEF CodecInv, CodecTypeOK, FrameState
  <2> HIDE DEF n, w
  <2>4. \A v \in Workers : job'[v].counts = job[v].counts
    BY <2>1, <2>2 DEF CodecInv, CodecTypeOK
  <2> QED
    BY <2>1, <2>3, <2>4, SameCounts
<1>7. CASE FilterFrame
  <2>1. frame'.cols = frame.cols /\ frame'.rows = frame.rows
    BY <1>7 DEF FilterFrame, CodecInv, CodecTypeOK, FrameState
  <2> QED
    BY <1>7, <2>1, SameCounts DEF FilterFrame
<1>8. CASE FrameIsFiltered
  <2>1. at = "filtering"
    BY <1>8 DEF FrameIsFiltered, SyncRows, CodecInv, PlaceInv
  <2> QED
    BY <1>8, <2>1, SameCounts DEF FrameIsFiltered
<1>9. CASE FilterStep \/ UNCHANGED codecVars
  <2>1. UNCHANGED tileVars
    BY <1>9 DEF FilterStep, codecVars
  <2> QED
    BY <2>1 DEF tileVars, CountedInv, CountedOnce, Total, num_tile_workers
<1>10. CASE \E w \in Workers : TileStep(w)
  BY <1>10, DecodeTileCounted, EncodeTileCounted DEF TileStep
<1>11. CASE SyncRound
  BY <1>11, SyncRoundCounted
<1>12. CASE SyncTiles
  BY <1>12, SyncTilesCounted
<1> QED
  BY <1>1, <1>2, <1>3, <1>4, <1>5, <1>6, <1>7, <1>8, <1>9, <1>10, <1>11, <1>12
  DEF CodecNext, InFrame

\* The symbols of every tile are counted exactly once when the probabilities
\* are adapted, or packed: whichever workers decoded the tiles in whichever
\* round, and although the encoder's last worker counts into the frame's own
\* counts (vp9_decodeframe.c 1231-1238, vp9_ethread.c 163-178).
THEOREM CountsAreComplete ==
  ASSUME SameTileCols
  PROVE  CodecSpec => []CountsComplete
<1>1. CodecInit => DecodedInv /\ CountedInv
  BY DEF CodecInit, DecodedInv, CountedInv, NoCounts
<1>2. CodecInv /\ CodecInv' /\ DecodedInv /\ CountedInv /\ [CodecNext]_codecVars
        => DecodedInv' /\ CountedInv'
  BY DecodedNext, CountedNext
<1>3. CodecInv /\ CountedInv => CountsComplete
  <2> SUFFICES ASSUME CodecInv, CountedInv, at = "filter", NEW t \in Tile
               PROVE  counted[t] = 1 \/ t >= Total
    BY DEF CountsComplete, Total
  <2>1. Total \in Nat /\ t \in Nat
    BY DEF Tile, Total, CodecInv, CodecTypeOK, FrameState
  <2> QED
    BY <2>1 DEF CountedInv
<1> QED
  BY <1>1, <1>2, <1>3, CodecInvariance, PTL DEF CodecSpec

=============================================================================
