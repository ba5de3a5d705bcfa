---------------------------- MODULE WorkersProofs ----------------------------
(***************************************************************************)
(* Safety of VP9's worker threads, for every interleaving and any number   *)
(* of workers: first of one VP9Worker and its client (WorkerThread), with  *)
(* and without spurious wake-ups, then of the frame workers that wait for  *)
(* each other's rows (FrameParallelWorkers), whatever frames fail.         *)
(***************************************************************************)
EXTENDS WorkerThread, FrameParallelWorkers, FiniteSetTheorems,
        NaturalsInduction, WellFoundedInduction, TLAPS

-----------------------------------------------------------------------------
(* One VP9Worker: the inductive invariant *)


\* Who holds the mutex is where its holder stands.
MutexInv ==
  /\ mutex_ = Main <=> mainPc \in {"decide", "create", "publish"}
  /\ mutex_ = Thread <=> threadPc \in {"test", "hook", "done"}

\* Who is blocked on the condition, and what it is waiting for.
WaitInv ==
  /\ Main \in waiters => mainPc = "waiting" /\ status_ = WORK
  /\ Thread \in waiters => threadPc = "waiting" /\ status_ = OK

\* The job between launch() and the end of the hook.
JobInv ==
  /\ threadPc \in {"hook", "done"} => status_ = WORK
  /\ pending = IF status_ = WORK /\ threadPc # "done" THEN 1 ELSE 0
  /\ ~unsynced => status_ # WORK
  /\ mainPc = "inline" => ~unsynced

\* There is a thread exactly while there is an impl_ (but inside reset()),
\* and status_ is NOT_OK only while it starts or stops.
LifeInv ==
  /\ mainPc = "create" => impl_ /\ threadPc = "none" /\ status_ = NOT_OK
  /\ mainPc = "publish" => impl_ /\ threadPc = "lock" /\ status_ = NOT_OK
  /\ mainPc # "create" => (impl_ <=> threadPc # "none")
  /\ ~impl_ => status_ = NOT_OK
  /\ impl_ /\ status_ = NOT_OK => \/ mainPc \in {"create", "publish"}
                                  \/ mainPc = "return" /\ op = "end"
  /\ threadPc = "exited" => status_ = NOT_OK

\* Which call the client is in, and what each call ensures.
CallInv ==
  /\ mainPc \in {"enter", "decide", "waiting", "return"}
       => op \in {"reset", "sync", "launch", "end"}
  /\ mainPc \in {"check", "alloc", "create", "publish"} => op = "reset"
  /\ mainPc = "inline" => op = "execute"
  /\ mainPc = "alloc" => ~impl_
  /\ mainPc \in {"enter", "decide", "waiting", "return"} /\ op = "reset"
       => status_ # NOT_OK
  /\ mainPc = "return" /\ op \in {"sync", "reset"} => status_ # WORK
  /\ mainPc = "return" /\ op = "end" => status_ = NOT_OK
  /\ mainPc = "client" /\ op = "reset" /\ reply => status_ = OK
  /\ mainPc = "client" /\ op = "end" => status_ = NOT_OK

\* The value the thread loaded before the hook is no older than a failure that
\* had_error shows: only so can the late store not lose it.
LoadInv == threadPc = "hook" /\ had_error => loaded

IInv ==
  /\ TypeOK
  /\ MutexInv
  /\ WaitInv
  /\ JobInv
  /\ LifeInv
  /\ CallInv
  /\ LoadInv
  /\ FailureIsKept

\* init() establishes the invariant.
LEMMA InitInv == Init => IInv
<1> SUFFICES ASSUME Init PROVE IInv
  OBVIOUS
<1> USE DEF Init, NOT_OK, OK, WORK, Nobody, Main, Thread
<1>1. TypeOK
  <2>1. /\ impl_ \in BOOLEAN /\ had_error \in BOOLEAN /\ loaded \in BOOLEAN
        /\ reply \in BOOLEAN /\ unsynced \in BOOLEAN /\ failures \in BOOLEAN
    BY Zenon
  <2> QED
    BY <2>1 DEF TypeOK, ThreadPcs, MainPcs, Ops
<1>2. MutexInv /\ WaitInv
  BY DEF MutexInv, WaitInv
<1>3. JobInv /\ LifeInv
  BY DEF JobInv, LifeInv
<1>4. CallInv
  BY DEF CallInv
<1>5. LoadInv /\ FailureIsKept
  BY Zenon DEF LoadInv, FailureIsKept
<1> QED
  BY <1>1, <1>2, <1>3, <1>4, <1>5 DEF IInv

\* No step of either thread, and no spurious wake-up, breaks the invariant.
LEMMA NextInv == IInv /\ [Next]_vars => IInv'
<1> SUFFICES ASSUME IInv, [Next]_vars
             PROVE  IInv'
  OBVIOUS
<1> USE DEF IInv, TypeOK, MutexInv, WaitInv, JobInv, LifeInv, CallInv,
            LoadInv, FailureIsKept, ThreadPcs, MainPcs, Ops, NOT_OK, OK, WORK, Nobody,
            Main, Thread
<1>1. CASE ThreadLock
  BY <1>1 DEF ThreadLock, Acquire
<1>2. CASE ThreadWait
  BY <1>2 DEF ThreadWait, Release
<1>3. CASE ThreadWake
  BY <1>3 DEF ThreadWake, Acquire
<1>4. CASE ThreadHook
  BY <1>4 DEF ThreadHook
<1>5. ASSUME NEW failed \in BOOLEAN, ThreadHookReturns(failed)
      PROVE  IInv'
  <2>1. TypeOK'
    BY <1>5 DEF ThreadHookReturns
  <2>2. MutexInv'
    BY <1>5 DEF ThreadHookReturns
  <2>3. WaitInv'
    BY <1>5 DEF ThreadHookReturns
  <2>4. JobInv'
    BY <1>5 DEF ThreadHookReturns
  <2>5. LifeInv'
    BY <1>5 DEF ThreadHookReturns
  <2>6. CallInv'
    BY <1>5 DEF ThreadHookReturns
  <2>7. LoadInv'
    BY <1>5 DEF ThreadHookReturns
  <2>8. FailureIsKept'
    BY <1>5 DEF ThreadHookReturns
  <2> QED
    BY <2>1, <2>2, <2>3, <2>4, <2>5, <2>6, <2>7, <2>8
<1>6. CASE ThreadBackToIdle
  <2>1. TypeOK'
    BY <1>6 DEF ThreadBackToIdle, Release, Signal
  <2>2. MutexInv'
    BY <1>6 DEF ThreadBackToIdle, Release, Signal
  <2>3. WaitInv'
    BY <1>6 DEF ThreadBackToIdle, Release, Signal
  <2>4. JobInv'
    BY <1>6 DEF ThreadBackToIdle, Release, Signal
  <2>5. LifeInv'
    BY <1>6 DEF ThreadBackToIdle, Release, Signal
  <2>6. CallInv'
    BY <1>6 DEF ThreadBackToIdle, Release, Signal
  <2>7. LoadInv'
    BY <1>6 DEF ThreadBackToIdle, Release, Signal
  <2>8. FailureIsKept'
    BY <1>6 DEF ThreadBackToIdle, Release, Signal
  <2> QED
    BY <2>1, <2>2, <2>3, <2>4, <2>5, <2>6, <2>7, <2>8
<1>7. CASE ThreadExit
  BY <1>7 DEF ThreadExit, Release, Signal
<1>8. CASE CallSync
  BY <1>8 DEF CallSync, Call
<1>9. CASE CallLaunch
  BY <1>9 DEF CallLaunch, Call
<1>10. CASE CallEnd
  BY <1>10 DEF CallEnd, Call
<1>11. CASE CallReset
  BY <1>11 DEF CallReset, Call
<1>12. CASE CallExecute
  BY <1>12 DEF CallExecute, Call
<1>13. CASE ChangeStateNoThread
  BY <1>13 DEF ChangeStateNoThread
<1>14. CASE ChangeStateLock
  BY <1>14 DEF ChangeStateLock, Acquire
<1>15. CASE ChangeStateWait
  BY <1>15 DEF ChangeStateWait, Release
<1>16. CASE ChangeStateWake
  BY <1>16 DEF ChangeStateWake, Acquire
<1>17. CASE ChangeStateAssign
  <2>1. TypeOK'
    <3>1. unsynced' \in BOOLEAN
      BY <1>17, Zenon DEF ChangeStateAssign
    <3>2. pending' \in Int /\ status_' \in {0, 1, 2}
      BY <1>17 DEF ChangeStateAssign, NewStatus
    <3>3. waiters' \subseteq {Main, Thread}
      BY <1>17 DEF ChangeStateAssign, Signal
    <3> QED
      BY <1>17, <3>1, <3>2, <3>3 DEF ChangeStateAssign, Release
  <2>2. MutexInv'
    BY <1>17 DEF ChangeStateAssign, Release, Signal, NewStatus
  <2>3. WaitInv'
    BY <1>17 DEF ChangeStateAssign, Release, Signal, NewStatus
  <2>4. JobInv'
    BY <1>17 DEF ChangeStateAssign, Release, Signal, NewStatus
  <2>5. LifeInv'
    BY <1>17 DEF ChangeStateAssign, Release, Signal, NewStatus
  <2>6. CallInv'
    BY <1>17 DEF ChangeStateAssign, Release, Signal, NewStatus
  <2>7. LoadInv'
    BY <1>17 DEF ChangeStateAssign, Release, Signal, NewStatus
  <2>8. FailureIsKept'
    BY <1>17 DEF ChangeStateAssign, Release, Signal, NewStatus
  <2> QED
    BY <2>1, <2>2, <2>3, <2>4, <2>5, <2>6, <2>7, <2>8
<1>18. ASSUME NEW failed \in BOOLEAN, ExecuteReturns(failed)
      PROVE  IInv'
  <2>1. TypeOK'
    BY <1>18 DEF ExecuteReturns
  <2>2. MutexInv'
    BY <1>18 DEF ExecuteReturns
  <2>3. WaitInv'
    BY <1>18 DEF ExecuteReturns
  <2>4. JobInv'
    BY <1>18 DEF ExecuteReturns
  <2>5. LifeInv'
    BY <1>18 DEF ExecuteReturns
  <2>6. CallInv'
    BY <1>18 DEF ExecuteReturns
  <2>7. LoadInv'
    BY <1>18 DEF ExecuteReturns
  <2>8. FailureIsKept'
    BY <1>18 DEF ExecuteReturns
  <2> QED
    BY <2>1, <2>2, <2>3, <2>4, <2>5, <2>6, <2>7, <2>8
<1>19. CASE LaunchReturns
  BY <1>19 DEF LaunchReturns
<1>20. CASE SyncReturns
  <2>1. TypeOK'
    BY <1>20 DEF SyncReturns
  <2>2. MutexInv'
    BY <1>20 DEF SyncReturns
  <2>3. WaitInv'
    BY <1>20 DEF SyncReturns
  <2>4. JobInv'
    BY <1>20 DEF SyncReturns
  <2>5. LifeInv'
    BY <1>20 DEF SyncReturns
  <2>6. CallInv'
    BY <1>20 DEF SyncReturns
  <2>7. LoadInv'
    BY <1>20 DEF SyncReturns
  <2>8. FailureIsKept'
    BY <1>20 DEF SyncReturns
  <2> QED
    BY <2>1, <2>2, <2>3, <2>4, <2>5, <2>6, <2>7, <2>8
<1>21. CASE EndReturns
  BY <1>21 DEF EndReturns
<1>22. CASE ResetCheck
  <2>1. TypeOK'
    BY <1>22 DEF ResetCheck
  <2>2. MutexInv'
    BY <1>22 DEF ResetCheck
  <2>3. WaitInv'
    BY <1>22 DEF ResetCheck
  <2>4. JobInv'
    BY <1>22 DEF ResetCheck
  <2>5. LifeInv'
    BY <1>22 DEF ResetCheck
  <2>6. CallInv'
    BY <1>22 DEF ResetCheck
  <2>7. LoadInv'
    BY <1>22 DEF ResetCheck
  <2>8. FailureIsKept'
    BY <1>22 DEF ResetCheck
  <2> QED
    BY <2>1, <2>2, <2>3, <2>4, <2>5, <2>6, <2>7, <2>8
<1>23. CASE ResetAllocFails
  BY <1>23 DEF ResetAllocFails
<1>24. CASE ResetAlloc
  BY <1>24 DEF ResetAlloc, Acquire
<1>25. CASE ResetCreateFails
  BY <1>25 DEF ResetCreateFails, Release
<1>26. CASE ResetCreate
  BY <1>26 DEF ResetCreate
<1>27. CASE ResetPublish
  BY <1>27 DEF ResetPublish, Release
<1>28. CASE SpuriousWakeup
  BY <1>28 DEF SpuriousWakeup
<1>29. CASE UNCHANGED vars
  BY <1>29 DEF vars
<1> QED
  BY <1>1, <1>2, <1>3, <1>4, <1>5, <1>6, <1>7, <1>8, <1>9, <1>10, <1>11, <1>12, <1>13, <1>14, <1>15, <1>16, <1>17, <1>18, <1>19, <1>20, <1>21, <1>22, <1>23, <1>24, <1>25, <1>26, <1>27, <1>28, <1>29
  DEF Next, ClientNext, CallNext, ThreadNext

\* The inductive invariant holds of every reachable state.
THEOREM Invariance == Spec => []IInv
BY InitInv, NextInv, PTL DEF Spec

\* Every variable keeps its type.
THEOREM TypeCorrect == Spec => []TypeOK
BY Invariance, PTL DEF IInv

\* One condition variable for both directions loses no signal: the two threads
\* never wait on it together, whatever order they take the mutex in.
THEOREM SignalsReachTheirWaiter == Spec => []NoStolenSignal
<1>1. IInv => NoStolenSignal
  BY DEF IInv, WaitInv, NoStolenSignal
<1> QED
  BY <1>1, Invariance, PTL

\* The hook never runs in the client and in the thread at the same time.
THEOREM HooksExclude == Spec => []OneHookAtATime
<1>1. IInv => OneHookAtATime
  BY DEF IInv, JobInv, OneHookAtATime
<1> QED
  BY <1>1, Invariance, PTL

\* A launched job runs exactly once and sync() waits for it.
THEOREM EveryJobOnce == Spec => []JobsRunOnce
<1>1. IInv => JobsRunOnce
  BY DEF IInv, JobInv, JobsRunOnce
<1> QED
  BY <1>1, Invariance, PTL

\* reset()'s unlocked clear and the thread's update of had_error never lose a
\* failure between them.
THEOREM FailuresAreKept == Spec => []FailureIsKept
BY Invariance, PTL DEF IInv

\* The assertions of sync(), reset() and end() hold.
THEOREM Assertions == Spec => []AssertionsHold
<1>1. IInv => AssertionsHold
  BY DEF IInv, TypeOK, LifeInv, CallInv, AssertionsHold, NOT_OK, OK, WORK
<1> QED
  BY <1>1, Invariance, PTL

-----------------------------------------------------------------------------
(* Refinement: the worker implements WorkerService. *)

\* The initial state of a worker is an initial state of the service.
LEMMA ServiceInit == Init => Service!Init
<1> SUFFICES ASSUME Init PROVE Service!Init
  OBVIOUS
<1>1. ~(status_ # NOT_OK) /\ ~(status_ = WORK)
  BY DEF Init, NOT_OK, WORK
<1>2. ~had_error /\ reply = TRUE
  BY Zenon DEF Init
<1> QED
  BY <1>1, <1>2, Zenon DEF Service!Init

\* The steps of the two threads that a caller cannot see.
HiddenStep ==
  \/ ThreadLock \/ ThreadWait \/ ThreadWake \/ ThreadHook \/ ThreadExit
  \/ CallSync \/ CallLaunch \/ CallEnd \/ CallExecute
  \/ ChangeStateNoThread \/ ChangeStateLock \/ ChangeStateWait
  \/ ChangeStateWake \/ LaunchReturns \/ EndReturns
  \/ ResetAlloc \/ ResetCreate \/ SpuriousWakeup \/ UNCHANGED vars

\* Every step of the worker is a step of the service or hidden from it.
LEMMA ServiceNext == IInv /\ [Next]_vars => [Service!Next]_(Service!vars)
<1> SUFFICES ASSUME IInv, [Next]_vars
             PROVE  Service!Next \/ UNCHANGED Service!vars
  BY Zenon
<1> USE DEF NOT_OK, OK, WORK
<1>1. HiddenStep => UNCHANGED <<status_, had_error, reply>>
  BY Zenon DEF HiddenStep, ThreadLock, ThreadWait, ThreadWake, ThreadHook,
     ThreadExit, CallSync, CallLaunch, CallEnd, CallExecute, Call,
     ChangeStateNoThread, ChangeStateLock, ChangeStateWait, ChangeStateWake,
     LaunchReturns, EndReturns, ResetAlloc, ResetCreate, SpuriousWakeup, vars
<1>2. UNCHANGED <<status_, had_error, reply>> => UNCHANGED Service!vars
  BY Zenon DEF Service!vars
<1>3. ASSUME NEW failed \in BOOLEAN, ThreadHookReturns(failed)
      PROVE  Service!JobFails \/ UNCHANGED <<status_, had_error, reply>>
  <2>1. status_ = WORK /\ UNCHANGED <<status_, reply>>
    BY <1>3 DEF ThreadHookReturns, IInv, JobInv
  <2>2. had_error' = TRUE \/ had_error' = had_error
    <3>1. PICK old \in {loaded, had_error} : had_error' = (old \/ failed)
      BY <1>3, Zenon DEF ThreadHookReturns
    <3>2. loaded \in BOOLEAN /\ had_error \in BOOLEAN /\ failed \in BOOLEAN
      BY <1>3, Zenon DEF IInv, TypeOK
    <3>3. had_error => loaded
      BY <1>3, Zenon DEF ThreadHookReturns, IInv, LoadInv
    <3> QED
      BY <3>1, <3>2, <3>3, Zenon
  <2> QED
    BY <2>1, <2>2 DEF Service!JobFails
<1>4. CASE ThreadBackToIdle
  <2>1. status_ = WORK /\ status_' = OK /\ UNCHANGED <<had_error, reply>>
    BY <1>4 DEF ThreadBackToIdle, IInv, JobInv
  <2> QED
    BY <2>1 DEF Service!Next, Service!Finish
<1>5. CASE ChangeStateAssign
  <2>1. UNCHANGED <<had_error, reply>>
    BY <1>5 DEF ChangeStateAssign
  <2>2. status_' = status_ \/ (status_ = OK /\ status_' \in {NOT_OK, WORK})
    BY <1>5 DEF ChangeStateAssign, NewStatus
  <2> QED
    BY <1>2, <2>1, <2>2 DEF Service!Next, Service!Submit, Service!Stop
<1>6. CASE CallReset
  BY <1>6 DEF CallReset, Call, Service!Next, Service!Clear
<1>7. ASSUME NEW failed \in BOOLEAN, ExecuteReturns(failed)
      PROVE  Service!RunInline
  <2>1. status_ # WORK /\ UNCHANGED <<status_, reply>>
    BY <1>7 DEF ExecuteReturns, IInv, JobInv
  <2>2. had_error' \in {had_error, TRUE}
    BY <1>7, Zenon DEF ExecuteReturns, IInv, TypeOK
  <2> QED
    BY <2>1, <2>2 DEF Service!RunInline
<1>8. CASE SyncReturns
  <2>1. status_ # WORK /\ UNCHANGED <<status_, had_error>>
    BY <1>8 DEF SyncReturns, IInv, CallInv
  <2>2. reply' = ~had_error
    BY <1>8, Zenon DEF SyncReturns
  <2> QED
    BY <2>1, <2>2 DEF Service!Next, Service!Answer
<1>9. CASE ResetCheck
  <2>1. UNCHANGED <<status_, had_error>>
    BY <1>9 DEF ResetCheck
  <2>2. reply' = reply \/ (status_ = OK /\ reply' = TRUE)
    BY <1>9, Zenon DEF ResetCheck
  <2> QED
    BY <1>2, <2>1, <2>2 DEF Service!Next, Service!AlreadyStarted
<1>10. CASE ResetAllocFails \/ ResetCreateFails
  <2>1. status_ = NOT_OK /\ UNCHANGED <<status_, had_error>>
    BY <1>10 DEF ResetAllocFails, ResetCreateFails, IInv, CallInv, LifeInv
  <2>2. reply' = FALSE
    BY <1>10, Zenon DEF ResetAllocFails, ResetCreateFails
  <2> QED
    BY <2>1, <2>2 DEF Service!Next, Service!StartFails
<1>11. CASE ResetPublish
  <2>1. status_ = NOT_OK /\ status_' = OK /\ UNCHANGED had_error
    BY <1>11 DEF ResetPublish, IInv, LifeInv
  <2>2. reply' = TRUE
    BY <1>11, Zenon DEF ResetPublish
  <2> QED
    BY <2>1, <2>2 DEF Service!Next, Service!Start
<1>12. ThreadHookReturns(TRUE) \/ ThreadHookReturns(FALSE)
         => Service!Next \/ UNCHANGED Service!vars
  BY <1>2, <1>3, Zenon DEF Service!Next
<1>13. ExecuteReturns(TRUE) \/ ExecuteReturns(FALSE) => Service!Next
  BY <1>7, Zenon DEF Service!Next
<1> QED
  BY <1>1, <1>2, <1>4, <1>5, <1>6, <1>8, <1>9, <1>10, <1>11, <1>12, <1>13,
     Zenon
  DEF Next, ClientNext, CallNext, ThreadNext, HiddenStep

\* The two threads, the mutex and the condition variable implement the
\* sequential service the header describes (its safety part).
THEOREM WorkerImplementsService == Spec => Service!Safe
BY ServiceInit, ServiceNext, Invariance, PTL DEF Spec, Service!Safe

-----------------------------------------------------------------------------

\* Only the thread completes a job, only a client that found the worker idle
\* gives it another one, and no job is thrown away by end().
THEOREM StatusProtocol == Spec => StatusChanges
<1>1. ASSUME IInv, [Next]_vars PROVE [StatusStep]_vars
  <2> USE <1>1 DEF StatusStep, IInv, MutexInv, JobInv, CallInv, LifeInv, TypeOK,
          NOT_OK, OK, WORK, Nobody, Main, Thread
  <2>1. HiddenStep => UNCHANGED status_
    BY DEF HiddenStep, ThreadLock, ThreadWait, ThreadWake, ThreadHook,
       ThreadExit, CallSync, CallLaunch, CallEnd, CallExecute, Call,
       ChangeStateNoThread, ChangeStateLock, ChangeStateWait, ChangeStateWake,
       LaunchReturns, EndReturns, ResetAlloc, ResetCreate, SpuriousWakeup, vars
  <2>2. CASE CallReset \/ SyncReturns \/ ResetCheck \/ ResetAllocFails
             \/ ResetCreateFails
    BY <2>2 DEF CallReset, Call, SyncReturns, ResetCheck, ResetAllocFails,
       ResetCreateFails
  <2>3. ASSUME NEW failed \in BOOLEAN,
               ThreadHookReturns(failed) \/ ExecuteReturns(failed)
        PROVE  UNCHANGED status_
    BY <2>3 DEF ThreadHookReturns, ExecuteReturns
  <2>4. CASE ThreadBackToIdle
    BY <2>4 DEF ThreadBackToIdle, Release
  <2>5. CASE ChangeStateAssign
    BY <2>5 DEF ChangeStateAssign, Release, NewStatus
  <2>6. CASE ResetPublish
    BY <2>6 DEF ResetPublish
  <2>7. UNCHANGED status_ => StatusStep
    OBVIOUS
  <2> QED
    BY <2>1, <2>2, <2>3, <2>4, <2>5, <2>6, <2>7
    DEF Next, ClientNext, CallNext, ThreadNext, HiddenStep
<1> QED
  BY <1>1, Invariance, PTL DEF Spec, StatusChanges

-----------------------------------------------------------------------------
(* Frame workers: the inductive invariant *)


Following == {"rows", "woken", "asleep", "predict"}
Decoding == Following \cup {"decoded"}

\* The worker launched last.
Newest == PrevId(next_submit)

\* A worker whose frame has a reference to its buffer: until the frame ends, or
\* is given to the application.
Occupies(worker) ==
  \/ worker.status \in Busy \ {"start", "failed"}
  \/ /\ worker.status = "idle" /\ worker.received_frame
     /\ worker.show_frame /\ ~worker.had_error

\* The holders of a buffer: slots of maps that frames in flight hold, those of
\* them that the frame is to replace, and the frames in the buffer.
Holding(ws, W, b) == {p \in W \X Slots : /\ ws[p[1]].hold_ref_buf
                                         /\ ws[p[1]].ref_frame_map[p[2]] = b}
Replacing(ws, W, b) ==
  {p \in Holding(ws, W, b) : p[2] \in ws[p[1]].refresh_frame_flags}
Occupying(ws, W, b) == {w \in W : Occupies(ws[w]) /\ ws[w].new_fb_idx = b}

OwedTo(ws, W, b) == Cardinality(Holding(ws, W, b)) + Cardinality(Replacing(ws, W, b))
                    + Cardinality(Occupying(ws, W, b))

\* What is owed of a buffer's count.  Frames that fail may leave more.
Owed(b) == References(current, b) + OwedTo(workers, Ids, b)
           + IF last_show_frame = b THEN 1 ELSE 0

\* A pool without memory.
PoolOf(count) == [ref_count |-> count, priv |-> [b \in Bufs |-> NoMemory],
                  in_use |-> {}, returnedTwice |-> FALSE]

CountInv ==
  /\ pool = PoolOf(pool.ref_count)
  /\ \A b \in Bufs : pool.ref_count[b] >= Owed(b)

\* A buffer that a frame may be predicted from.
Named(b) == \/ \E s \in Slots : current[s] = b
            \/ \E w \in Ids, s \in Slots : /\ workers[w].hold_ref_buf
                                           /\ workers[w].ref_frame_map[s] = b

Early(w) == workers[w].status \in {"start", "header"}

\* Only the newest worker is before its header, and the map it has from the
\* worker before is the newest map, unless it waits for an intra frame.
EarlyInv ==
  \A w \in Ids : Early(w) =>
    /\ w = Newest
    /\ ~workers[w].frame_context_ready
    /\ ~workers[w].need_resync => workers[w].ref_frame_map = current

\* What the next worker copies from the newest.
NewestAt(w) ==
  LET newest == workers[w]
  IN /\ /\ ~Early(w) /\ ~newest.need_resync
        /\ newest.status = "failed" => newest.frame_context_ready
        => newest.next_ref_frame_map = current
     /\ /\ NumWorkers = 1 /\ newest.status \in {"idle", "swapped"}
        /\ ~newest.need_resync
        => newest.ref_frame_map = current
     /\ newest.status = "idle" /\ newest.cur_buf = INVALID_IDX => newest.need_resync

\* A frame in its buffer, and what it is predicted from.
FrameInv(w) ==
  LET worker == workers[w]
  IN /\ worker.hold_ref_buf <=> worker.status \in Decoding
     /\ worker.status \in Decoding \cup {"header"} =>
          /\ worker.cur_buf \in Bufs
          /\ worker.new_fb_idx = worker.cur_buf
          /\ owner[worker.cur_buf] = w
     /\ worker.status = "swapped" =>
          worker.new_fb_idx \in Bufs /\ worker.cur_buf \in Bufs
     /\ worker.status = "failed" => worker.cur_buf \in Bufs
     /\ w \in Shown => worker.new_fb_idx \in Bufs
     /\ worker.status = "header" => ~Named(worker.cur_buf)
     /\ worker.ref # INVALID_IDX =>
          /\ worker.status \in Decoding
          /\ worker.ref # worker.cur_buf
          /\ \E s \in Slots : worker.ref_frame_map[s] = worker.ref
     /\ worker.status \in Following \ {"rows"} =>
          /\ worker.ref # INVALID_IDX
          /\ worker.sbRow < SbRows
          /\ worker.y1 \in PredRows

\* A frame that is not complete is still being decoded, or known to be damaged.
OwnerInv ==
  \A b \in Bufs : Named(b) /\ workers[owner[b]].cur_buf = b =>
    \/ workers[owner[b]].status \in Following \cup {"failed"}
    \/ row[b] = INT_MAX
    \/ corrupted[b]

\* SleepersAreServed, but that the worker is another one.
Sleeping(w) ==
  workers[w].status = "asleep" =>
    LET b == workers[w].ref
    IN /\ row[b] < ReadyRow(workers[w].y1)
       /\ workers[owner[b]].cur_buf = b
       /\ workers[owner[b]].status \in Following \cup {"failed"}

\* What a prediction knows of its reference stays true.
Predicting(w) ==
  workers[w].status = "predict" =>
    LET b == workers[w].ref
    IN workers[owner[b]].cur_buf = b => row[b] >= ReadyRow(workers[w].y1)

\* How far a frame was told of, against how far it is.
RowInv(w) ==
  LET worker == workers[w]
      told == row[worker.cur_buf]
  IN /\ worker.status \in {"idle", "start"} => worker.sbRow = 0
     /\ worker.status = "header" => told = NotReady /\ worker.sbRow = 0
     /\ worker.status \in Following =>
          \/ told = NotReady
          \/ /\ told <= (worker.sbRow - 1) * SbSize
             /\ worker.filter_level => told <= (SbRows - 2) * SbSize

FramesInv ==
  /\ FramesTypeOK /\ CountInv /\ EarlyInv /\ NewestAt(Newest)
  /\ \A w \in Ids : FrameInv(w) /\ RowInv(w)
  /\ OwnerInv
  /\ \A w \in Ids : Sleeping(w) /\ Predicting(w)

-----------------------------------------------------------------------------
(* Workers, slots and rows *)

\* Frame workers follow each other in a ring (vp9_dx_iface.c 415, 490).
LEMMA RingOfWorkers ==
  ASSUME NEW w \in Ids
  PROVE  NextId(w) \in Ids /\ PrevId(w) \in Ids /\ PrevId(NextId(w)) = w
<1>1. NumWorkers \in Nat \ {0} /\ w \in 0 .. NumWorkers - 1
  BY WorkersAssumption DEF Ids
<1>2. CASE w = NumWorkers - 1
  <2>1. (w + 1) % NumWorkers = 0 /\ (0 + NumWorkers - 1) % NumWorkers = NumWorkers - 1
    BY <1>1, <1>2, Z3
  <2>2. CASE w = 0
    BY <1>1, <1>2, <2>1, <2>2 DEF NextId, PrevId, Ids
  <2>3. CASE w # 0
    <3>1. (w + NumWorkers - 1) % NumWorkers = w - 1
      BY <1>1, <2>3, Z3
    <3> QED
      BY <1>1, <1>2, <2>1, <3>1 DEF NextId, PrevId, Ids
  <2> QED
    BY <2>2, <2>3
<1>3. CASE w # NumWorkers - 1
  <2>1. (w + 1) % NumWorkers = w + 1 /\ (w + 1 + NumWorkers - 1) % NumWorkers = w
    BY <1>1, <1>3, Z3
  <2>2. (w + NumWorkers - 1) % NumWorkers \in 0 .. NumWorkers - 1
    BY <1>1, Z3
  <2> QED
    BY <1>1, <1>3, <2>1, <2>2 DEF NextId, PrevId, Ids
<1> QED
  BY <1>2, <1>3

\* Every set of workers can be counted.
LEMMA IdsFinite ==
  /\ IsFiniteSet(Ids) /\ 0 \in Ids
  /\ \A S \in SUBSET Ids : IsFiniteSet(S) /\ Cardinality(S) \in Nat
<1>1. NumWorkers \in Nat \ {0}
  BY WorkersAssumption
<1>2. IsFiniteSet(Ids) /\ 0 \in Ids
  BY <1>1, FS_Interval DEF Ids
<1> QED
  BY <1>2, FS_Subset, FS_CardinalityType

\* INVALID_IDX is no slot of the pool.
LEMMA BufsAre ==
  INVALID_IDX \notin Bufs /\ Bufs \subseteq BufIdx /\ Bufs \subseteq Nat
BY PoolSizes DEF Bufs, BufIdx, INVALID_IDX

\* Products with a row are monotonic in the row.
LEMMA Times ==
  ASSUME NEW a \in Int, NEW b \in Int, NEW n \in Nat
  PROVE  /\ a * n \in Int
         /\ a <= b => a * n <= b * n
         /\ (a - 1) * n = a * n - n /\ (a + 1) * n = a * n + n
<1>1. a * n \in Int /\ b * n \in Int
  OBVIOUS
<1>2. (a - 1) * n = a * n - n /\ (a + 1) * n = a * n + n
  BY Z3
<1>3. ASSUME a <= b PROVE a * n <= b * n
  <2>1. (b - a) * n >= 0
    BY <1>3, Z3
  <2>2. (b - a) * n = b * n - a * n
    BY Z3
  <2> QED
    BY <1>1, <2>1, <2>2
<1> QED
  BY <1>1, <1>2, <1>3

\* The rows a frame may be told of, and the ones a prediction waits for,
\* are rows of pixels below INT_MAX.
LEMMA RowsAre ==
  /\ SbRows \in Nat \ {0} /\ SbSize \in Nat \ {0} /\ INT_MAX \in Nat
  /\ \A r \in 0 .. SbRows :
       r * SbSize \in PixelRows /\ r * SbSize \in Nat /\ r * SbSize < INT_MAX
  /\ NotReady \in PixelRows /\ INT_MAX \in PixelRows /\ NotReady < INT_MAX
  /\ PixelRows \subseteq Int
  /\ NotReady = -1
  /\ \A y \in PredRows : y \in Nat /\ ReadyRow(y) = y + 7 /\ y + 7 <= INT_MAX
<1>1. SbRows \in Nat \ {0} /\ SbSize \in Nat \ {0}
  BY WorkersAssumption
<1>2. /\ SbRows * SbSize \in Nat /\ SbRows * SbSize > 0
      /\ INT_MAX = SbRows * SbSize + SbRows * SbSize
  <2>1. SbRows * SbSize >= 1 * SbSize
    BY <1>1, Times
  <2>2. 2 * SbRows * SbSize = SbRows * SbSize + SbRows * SbSize
    BY <1>1, Z3
  <2>3. SbRows * SbSize \in Int /\ 1 * SbSize = SbSize
    BY <1>1
  <2> QED
    BY <1>1, <2>1, <2>2, <2>3 DEF INT_MAX
<1>3. ASSUME NEW r \in 0 .. SbRows
      PROVE  r * SbSize \in PixelRows /\ r * SbSize \in Nat /\ r * SbSize < INT_MAX
  <2>1. r * SbSize <= SbRows * SbSize /\ 0 * SbSize <= r * SbSize /\ r * SbSize \in Int
    BY <1>1, Times
  <2>2. 0 * SbSize = 0
    BY <1>1
  <2> QED
    BY <1>2, <2>1, <2>2 DEF PixelRows
<1>4. PixelRows \subseteq Int /\ NotReady \in PixelRows /\ INT_MAX \in PixelRows
  BY <1>2, <1>3 DEF PixelRows, NotReady
<1>5. \A y \in PredRows : y \in Nat /\ ReadyRow(y) = y + 7 /\ y + 7 <= INT_MAX
  BY <1>2, WorkersAssumption DEF ReadyRow, INT_MAX
<1> QED
  BY <1>1, <1>2, <1>3, <1>4, <1>5 DEF NotReady

-----------------------------------------------------------------------------
(* Counting slots and the holders of a buffer *)

\* Every set of reference slots can be counted.
LEMMA SlotsFinite ==
  /\ IsFiniteSet(Slots)
  /\ \A S \in SUBSET Slots : IsFiniteSet(S) /\ Cardinality(S) \in Nat
<1>1. REF_FRAMES \in Nat \ {0}
  BY PoolSizes
<1>2. IsFiniteSet(Slots)
  BY <1>1, FS_Interval DEF Slots
<1> QED
  BY <1>2, FS_Subset, FS_CardinalityType

\* The refreshed slots of a map that name a buffer.
Replaced(map, refresh, b) == Cardinality({s \in refresh : map[s] = b})

\* How often a map names a buffer; the slots replaced are some of those.
LEMMA ReferencesAre ==
  ASSUME NEW map, NEW refresh \in SUBSET Slots, NEW b
  PROVE  /\ References(map, b) \in Nat
         /\ References(map, b) = 0 <=> \A s \in Slots : map[s] # b
         /\ Replaced(map, refresh, b) \in Nat
         /\ Replaced(map, refresh, b) <= References(map, b)
<1> DEFINE S == {s \in Slots : map[s] = b}
           T == {s \in refresh : map[s] = b}
<1>1. S \in SUBSET Slots /\ IsFiniteSet(S) /\ Cardinality(S) \in Nat
  BY SlotsFinite
<1>2. Cardinality(S) = 0 <=> S = {}
  BY <1>1, FS_EmptySet
<1>3. T \in SUBSET S /\ Cardinality(T) \in Nat
  BY SlotsFinite
<1>4. Cardinality(T) <= Cardinality(S)
  BY <1>1, <1>3, FS_Subset
<1> QED
  BY <1>1, <1>2, <1>3, <1>4 DEF References, Replaced

\* The references of the next map: those that are not refreshed, and the new
\* buffer's.
LEMMA NextReferences ==
  ASSUME NEW map, NEW refresh \in SUBSET Slots, NEW new, NEW b
  PROVE  References(NextRefFrameMap(map, refresh, new), b) =
           References(map, b) - Replaced(map, refresh, b)
           + (IF b = new THEN Cardinality(refresh) ELSE 0)
<1> DEFINE S == {s \in Slots : map[s] = b}
           T == {s \in refresh : map[s] = b}
           next == NextRefFrameMap(map, refresh, new)
           N == {s \in Slots : next[s] = b}
           R == IF b = new THEN refresh ELSE {}
<1>1. /\ \A X \in SUBSET Slots : IsFiniteSet(X) /\ Cardinality(X) \in Nat
      /\ S \in SUBSET Slots /\ T \in SUBSET S /\ R \in SUBSET Slots
  BY SlotsFinite
<1>2. N = (S \ T) \cup R
  BY DEF NextRefFrameMap
<1>3. (S \ T) \cap R = {} /\ S \cap T = T
  OBVIOUS
<1>4. Cardinality(S \ T) = Cardinality(S) - Cardinality(T)
  BY <1>1, <1>3, FS_Difference
<1>5. Cardinality(N) = Cardinality(S \ T) + Cardinality(R)
  <2>1. IsFiniteSet(S \ T) /\ IsFiniteSet(R) /\ S \ T \in SUBSET Slots
    BY <1>1
  <2>2. Cardinality(N) = Cardinality(S \ T) + Cardinality(R) - Cardinality({})
    BY <1>2, <1>3, <2>1, FS_Union
  <2>3. Cardinality({}) = 0 /\ Cardinality(S \ T) \in Nat /\ Cardinality(R) \in Nat
    BY <1>1, <2>1, FS_EmptySet
  <2> QED
    BY <2>2, <2>3
<1>6. Cardinality(R) = IF b = new THEN Cardinality(refresh) ELSE 0
  BY FS_EmptySet
<1> QED
  BY <1>4, <1>5, <1>6 DEF References, Replaced

\* The pairs of workers and slots, when those of one worker come or go.
LEMMA PairsFinite ==
  \A H \in SUBSET (Ids \X Slots) : IsFiniteSet(H) /\ Cardinality(H) \in Nat
BY IdsFinite, SlotsFinite, FS_Product, FS_Subset, FS_CardinalityType

\* Counting the slots of one worker and those of the others.
LEMMA PairsAdded ==
  ASSUME NEW H \in SUBSET (Ids \X Slots), NEW w \in Ids, NEW S \in SUBSET Slots,
         \A s \in S : <<w, s>> \notin H
  PROVE  Cardinality(H \cup ({w} \X S)) = Cardinality(H) + Cardinality(S)
<1>1. IsFiniteSet({w}) /\ Cardinality({w}) = 1
  BY FS_Singleton
<1>2. IsFiniteSet(S) /\ Cardinality(S) \in Nat
  BY SlotsFinite
<1>3. /\ IsFiniteSet({w} \X S)
      /\ Cardinality({w} \X S) = Cardinality({w}) * Cardinality(S)
  BY <1>1, <1>2, FS_Product
<1>4. Cardinality({w} \X S) = Cardinality(S)
  BY <1>1, <1>2, <1>3
<1>5. H \cap ({w} \X S) = {}
  OBVIOUS
<1>6. IsFiniteSet(H) /\ Cardinality(H) \in Nat
  BY PairsFinite
<1>7. Cardinality(H \cup ({w} \X S))
        = Cardinality(H) + Cardinality({w} \X S) - Cardinality({})
  BY <1>3, <1>5, <1>6, FS_Union
<1> QED
  BY <1>2, <1>4, <1>6, <1>7, FS_EmptySet

\* What one worker holds of a buffer.
OwedBy(worker, b) ==
  (IF worker.hold_ref_buf
     THEN References(worker.ref_frame_map, b)
          + Replaced(worker.ref_frame_map, worker.refresh_frame_flags, b)
     ELSE 0)
  + (IF Occupies(worker) /\ worker.new_fb_idx = b THEN 1 ELSE 0)

\* What workers are owed is what one of them is owed and what the others are.
LEMMA OwedToIs ==
  ASSUME NEW ws \in [Ids -> Worker], NEW w \in Ids, NEW b
  PROVE  /\ OwedTo(ws, Ids \ {w}, b) \in Nat /\ OwedBy(ws[w], b) \in Nat
         /\ OwedTo(ws, Ids, b) = OwedTo(ws, Ids \ {w}, b) + OwedBy(ws[w], b)
<1> DEFINE map == ws[w].ref_frame_map
           refresh == ws[w].refresh_frame_flags
           S == {s \in Slots : map[s] = b}
           T == {s \in refresh : map[s] = b}
           H == Holding(ws, Ids \ {w}, b)
           R == Replacing(ws, Ids \ {w}, b)
           F == Occupying(ws, Ids \ {w}, b)
<1>1. refresh \in SUBSET Slots /\ ws[w].hold_ref_buf \in BOOLEAN
  BY DEF Worker
<1>2. /\ References(map, b) = Cardinality(S) /\ References(map, b) \in Nat
      /\ Replaced(map, refresh, b) = Cardinality(T)
      /\ Replaced(map, refresh, b) \in Nat
  <2>1. References(map, b) = Cardinality(S) /\ Replaced(map, refresh, b) = Cardinality(T)
    BY DEF References, Replaced
  <2>2. References(map, b) \in Nat /\ Replaced(map, refresh, b) \in Nat
    BY <1>1, ReferencesAre
  <2> QED
    BY <2>1, <2>2
<1>3. /\ H \in SUBSET (Ids \X Slots) /\ \A s : <<w, s>> \notin H
      /\ R \in SUBSET (Ids \X Slots) /\ \A s : <<w, s>> \notin R
      /\ F \in SUBSET Ids /\ w \notin F
      /\ S \in SUBSET Slots /\ T \in SUBSET Slots
  BY <1>1 DEF Holding, Replacing, Occupying
<1>4. /\ Cardinality(H) \in Nat /\ Cardinality(R) \in Nat
      /\ IsFiniteSet(F) /\ Cardinality(F) \in Nat
  BY <1>3, PairsFinite, IdsFinite
<1>5. Cardinality(Occupying(ws, Ids, b)) =
        Cardinality(F) + (IF Occupies(ws[w]) /\ ws[w].new_fb_idx = b THEN 1 ELSE 0)
  <2>1. CASE Occupies(ws[w]) /\ ws[w].new_fb_idx = b
    <3>1. Occupying(ws, Ids, b) = F \cup {w}
      BY <2>1 DEF Occupying
    <3> QED
      BY <1>3, <1>4, <2>1, <3>1, FS_AddElement
  <2>2. CASE ~(Occupies(ws[w]) /\ ws[w].new_fb_idx = b)
    <3>1. Occupying(ws, Ids, b) = F
      BY <2>2 DEF Occupying
    <3> QED
      BY <1>4, <2>2, <3>1
  <2> QED
    BY <2>1, <2>2
<1>6. CASE ws[w].hold_ref_buf
  <2>1. Holding(ws, Ids, b) = H \cup ({w} \X S)
    BY <1>6 DEF Holding
  <2>2. Replacing(ws, Ids, b) = R \cup ({w} \X T)
    BY <1>1, <1>6 DEF Holding, Replacing
  <2>3. /\ Cardinality(Holding(ws, Ids, b)) = Cardinality(H) + Cardinality(S)
        /\ Cardinality(Replacing(ws, Ids, b)) = Cardinality(R) + Cardinality(T)
    <3> HIDE DEF H, R, F, S, T, map, refresh
    <3>1. Cardinality(H \cup ({w} \X S)) = Cardinality(H) + Cardinality(S)
      BY <1>3, PairsAdded
    <3>2. Cardinality(R \cup ({w} \X T)) = Cardinality(R) + Cardinality(T)
      BY <1>3, PairsAdded
    <3> QED
      BY <2>1, <2>2, <3>1, <3>2
  <2> HIDE DEF H, R, F, S, T, map, refresh
  <2>4. OwedTo(ws, Ids \ {w}, b) = Cardinality(H) + Cardinality(R) + Cardinality(F)
    BY DEF OwedTo, H, R, F
  <2>5. OwedBy(ws[w], b) =
          Cardinality(S) + Cardinality(T)
          + (IF Occupies(ws[w]) /\ ws[w].new_fb_idx = b THEN 1 ELSE 0)
    BY <1>2, <1>6 DEF OwedBy, map, refresh
  <2> QED
    BY <1>2, <1>4, <1>5, <2>3, <2>4, <2>5 DEF OwedTo
<1>7. CASE ~ws[w].hold_ref_buf
  <2>1. Holding(ws, Ids, b) = H /\ Replacing(ws, Ids, b) = R
    BY <1>7 DEF Holding, Replacing
  <2> HIDE DEF H, R, F, S, T, map, refresh
  <2>4. OwedTo(ws, Ids \ {w}, b) = Cardinality(H) + Cardinality(R) + Cardinality(F)
    BY DEF OwedTo, H, R, F
  <2>5. OwedBy(ws[w], b) =
          (IF Occupies(ws[w]) /\ ws[w].new_fb_idx = b THEN 1 ELSE 0)
    BY <1>7 DEF OwedBy
  <2> QED
    BY <1>4, <1>5, <2>1, <2>4, <2>5 DEF OwedTo
<1> QED
  BY <1>1, <1>6, <1>7

-----------------------------------------------------------------------------
(* The operations of the pool, without memory *)

Counts == [Bufs -> Nat]

\* A pool is its counts.
LEMMA PoolOfIs ==
  ASSUME NEW c \in Counts
  PROVE  PoolOf(c) \in Pools /\ PoolOf(c).ref_count = c
BY DEF PoolOf, Pools, Counts

\* Writing the counts of a pool.
LEMMA PoolWithCounts ==
  ASSUME NEW c \in Counts, NEW d
  PROVE  [PoolOf(c) EXCEPT !.ref_count = d] = PoolOf(d)
<1>1. ASSUME NEW p \in Pools
      PROVE  [p EXCEPT !.ref_count = d] =
               [ref_count |-> d, priv |-> p.priv, in_use |-> p.in_use,
                returnedTwice |-> p.returnedTwice]
  BY DEF Pools
<1>2. /\ PoolOf(c) \in Pools
      /\ PoolOf(c).priv = [b \in Bufs |-> NoMemory]
      /\ PoolOf(c).in_use = {} /\ PoolOf(c).returnedTwice = FALSE
  BY PoolOfIs DEF PoolOf
<1>3. [PoolOf(c) EXCEPT !.ref_count = d] =
        [ref_count |-> d, priv |-> PoolOf(c).priv, in_use |-> PoolOf(c).in_use,
         returnedTwice |-> PoolOf(c).returnedTwice]
  BY <1>1, <1>2, Zenon
<1> QED
  BY <1>2, <1>3 DEF PoolOf

\* Writing one count of a pool.
LEMMA PoolWithCount ==
  ASSUME NEW c \in Counts, NEW i \in Bufs, NEW n
  PROVE  [PoolOf(c) EXCEPT !.ref_count[i] = n] = PoolOf([c EXCEPT ![i] = n])
<1>1. ASSUME NEW p \in Pools
      PROVE  [p EXCEPT !.ref_count[i] = n] =
               [p EXCEPT !.ref_count = [p.ref_count EXCEPT ![i] = n]]
  BY DEF Pools
<1>2. [PoolOf(c) EXCEPT !.ref_count[i] = n] =
        [PoolOf(c) EXCEPT !.ref_count = [PoolOf(c).ref_count EXCEPT ![i] = n]]
  BY <1>1, PoolOfIs, Zenon
<1> QED
  BY <1>2, PoolOfIs, PoolWithCounts, Zenon

\* A set of numbers has a least one.
LEMMA LeastExists ==
  ASSUME NEW S \in SUBSET Nat, S # {}
  PROVE  \E b \in S : \A c \in S : b <= c
<1> DEFINE R == {p \in Nat \X Nat : p[1] < p[2]}
<1>1. IsWellFoundedOn(R, Nat)
  BY NatLessThanWellFounded DEF OpToRel
<1> HIDE DEF R
<1>2. PICK b \in S : \A c \in S : <<c, b>> \notin R
  BY <1>1, WFMin
<1>3. ASSUME NEW c \in S
      PROVE  b <= c
  <2>1. ~(c < b)
    BY <1>2 DEF R
  <2> QED
    BY <2>1
<1> QED
  BY <1>3

\* get_free_fb() takes a slot of count 0 and counts it once
\* (vp9_onyxc_int.h 288-305).
LEMMA GetFreeFbIs ==
  ASSUME NEW c \in Counts, FreeBufs(PoolOf(c)) # {},
         NEW b, b = FreeFb(PoolOf(c))
  PROVE  /\ b \in Bufs /\ c[b] = 0
         /\ GetFreeFb(PoolOf(c)) = PoolOf([c EXCEPT ![b] = 1])
<1>1. \E x \in FreeBufs(PoolOf(c)) : \A y \in FreeBufs(PoolOf(c)) : x <= y
  BY BufsAre, LeastExists DEF FreeBufs
<1>2. b \in FreeBufs(PoolOf(c))
  BY <1>1 DEF FreeFb
<1>3. b \in Bufs /\ c[b] = 0
  BY <1>2, PoolOfIs DEF FreeBufs
<1> QED
  BY <1>3, PoolWithCount DEF GetFreeFb

\* decrease_ref_count() takes one from a count.
LEMMA DecreaseIs ==
  ASSUME NEW c \in Counts, NEW i \in Bufs, c[i] > 0
  PROVE  DecreaseRefCount(PoolOf(c), i, 1) = PoolOf([c EXCEPT ![i] = @ - 1])
<1>1. i # INVALID_IDX
  BY BufsAre
<1> DEFINE lower == PoolOf([c EXCEPT ![i] = @ - 1])
<1>2. [PoolOf(c) EXCEPT !.ref_count[i] = PoolOf(c).ref_count[i] - 1] = lower
  BY PoolWithCount, PoolOfIs
<1>3. lower.priv[i] = NoMemory
  BY DEF PoolOf
<1>4. ReleaseFbCb(lower, i) = lower
  BY <1>3 DEF ReleaseFbCb
<1> QED
  BY <1>1, <1>2, <1>4 DEF DecreaseRefCount

\* ref_cnt_fb() moves a count from the slot left to the slot taken.
LEMMA RefCntFbIs ==
  ASSUME NEW c \in Counts, NEW old \in Bufs, NEW new \in Bufs, c[old] > 0
  PROVE  RefCntFb(PoolOf(c), old, new) =
           PoolOf([b \in Bufs |-> c[b] - (IF b = old THEN 1 ELSE 0)
                                       + (IF b = new THEN 1 ELSE 0)])
<1> DEFINE less == [c EXCEPT ![old] = @ - 1]
           more == [less EXCEPT ![new] = @ + 1]
<1>1. old # INVALID_IDX
  BY BufsAre
<1>2. [PoolOf(c) EXCEPT !.ref_count[old] = PoolOf(c).ref_count[old] - 1] = PoolOf(less)
  BY PoolWithCount, PoolOfIs
<1>3. less \in Counts
  BY DEF Counts
<1> HIDE DEF less
<1>4. [PoolOf(less) EXCEPT !.ref_count[new] = PoolOf(less).ref_count[new] + 1]
        = PoolOf(more)
  BY <1>3, PoolWithCount, PoolOfIs
<1>5. RefCntFb(PoolOf(c), old, new) = PoolOf(more)
  BY <1>1, <1>2, <1>4, PoolOfIs DEF RefCntFb
<1>6. more = [b \in Bufs |-> c[b] - (IF b = old THEN 1 ELSE 0)
                                 + (IF b = new THEN 1 ELSE 0)]
  <2>1. \A b \in Bufs : less[b] = c[b] - (IF b = old THEN 1 ELSE 0)
    BY DEF less, Counts
  <2>2. DOMAIN less = Bufs /\ \A b \in Bufs : less[b] \in Nat
    BY <1>3 DEF Counts
  <2>3. more = [b \in Bufs |-> IF b = new THEN less[b] + 1 ELSE less[b]]
    BY <2>2, <1>3 DEF Counts
  <2>4. ASSUME NEW b \in Bufs
        PROVE  (IF b = new THEN less[b] + 1 ELSE less[b])
                 = c[b] - (IF b = old THEN 1 ELSE 0) + (IF b = new THEN 1 ELSE 0)
    BY <2>1, <2>2
  <2> QED
    BY <2>3, <2>4
<1> QED
  BY <1>5, <1>6

\* A header that is read counts what its frame holds.
LEMMA TakeHoldsIs ==
  ASSUME NEW c \in Counts, NEW map, NEW refresh \in SUBSET Slots, NEW new \in Bufs
  PROVE  TakeHolds(PoolOf(c), map, refresh, new) =
           PoolOf([b \in Bufs |-> c[b] + References(map, b)
                                  + IF b = new THEN Cardinality(refresh) ELSE 0])
BY PoolWithCounts, PoolOfIs DEF TakeHolds

\* A frame that ends gives its holds back.
LEMMA DropHoldsIs ==
  ASSUME NEW c \in Counts, NEW map, NEW refresh \in SUBSET Slots
  PROVE  DropHolds(PoolOf(c), map, refresh) =
           PoolOf([b \in Bufs |-> c[b] - (References(map, b)
                                          + Replaced(map, refresh, b))])
<1> DEFINE drops(b) == References(map, b) + Cardinality({s \in refresh : map[s] = b})
           released == {b \in Bufs : /\ c[b] \in 1 .. drops(b)
                                     /\ PoolOf(c).priv[b] # NoMemory}
           memory == {PoolOf(c).priv[b] : b \in released}
           count == [b \in Bufs |-> c[b] - drops(b)]
<1>1. released = {}
  BY DEF PoolOf
<1>2. memory = {}
  BY <1>1
<1>3. DropHolds(PoolOf(c), map, refresh) =
        [PoolOf(c) EXCEPT
           !.ref_count = count,
           !.in_use = @ \ memory,
           !.returnedTwice = \/ @
                             \/ ~(memory \subseteq PoolOf(c).in_use)
                             \/ Cardinality(memory) # Cardinality(released)]
  BY PoolOfIs DEF DropHolds
<1>4. (\/ PoolOf(c).returnedTwice
       \/ ~(memory \subseteq PoolOf(c).in_use)
       \/ Cardinality(memory) # Cardinality(released)) = FALSE
  BY <1>1, <1>2 DEF PoolOf
<1> QED
  BY <1>2, <1>3, <1>4 DEF PoolOf, Replaced

-----------------------------------------------------------------------------
(* What the steps do *)

SameMaps(w) ==
  /\ workers'[w].ref_frame_map = workers[w].ref_frame_map
  /\ workers'[w].next_ref_frame_map = workers[w].next_ref_frame_map
  /\ workers'[w].refresh_frame_flags = workers[w].refresh_frame_flags
  /\ workers'[w].hold_ref_buf = workers[w].hold_ref_buf

SameFrame(w) ==
  /\ workers'[w].new_fb_idx = workers[w].new_fb_idx
  /\ workers'[w].cur_buf = workers[w].cur_buf
  /\ workers'[w].show_frame = workers[w].show_frame
  /\ workers'[w].filter_level = workers[w].filter_level
  /\ workers'[w].received_frame = workers[w].received_frame
  /\ workers'[w].had_error = workers[w].had_error

SameContext(w) ==
  /\ workers'[w].frame_context_ready = workers[w].frame_context_ready
  /\ workers'[w].need_resync = workers[w].need_resync

SameRows(w) ==
  /\ workers'[w].sbRow = workers[w].sbRow
  /\ workers'[w].y1 = workers[w].y1

\* What a step of another worker leaves of a worker: it may wake it.
Same(w) ==
  /\ SameMaps(w) /\ SameFrame(w) /\ SameContext(w) /\ SameRows(w)
  /\ workers'[w].ref = workers[w].ref
  /\ \/ workers'[w].status = workers[w].status
     \/ workers[w].status = "asleep" /\ workers'[w].status = "woken"

\* A step changes worker w only, but that it may wake others.
Touches(w) == workers' \in [Ids -> Worker] /\ \A v \in Ids \ {w} : Same(v)

\* Those that sleep for worker w's frame are woken.
WakesFor(w) ==
  \A v \in Ids \ {w} :
    workers[v].status = "asleep" /\ owner[workers[v].ref] = w
      => workers'[v].status = "woken"

\* A step that writes one worker touches no other.
LEMMA UpdateTouches ==
  ASSUME FramesTypeOK, NEW w \in Ids, NEW n \in Worker,
         workers' = [workers EXCEPT ![w] = n]
  PROVE  Touches(w) /\ workers'[w] = n
<1>1. workers \in [Ids -> Worker]
  BY DEF FramesTypeOK
<1>2. workers' \in [Ids -> Worker] /\ workers'[w] = n
  BY <1>1
<1>3. \A v \in Ids \ {w} : workers'[v] = workers[v]
  BY <1>1
<1> QED
  BY <1>2, <1>3 DEF Touches, Same, SameMaps, SameFrame, SameContext, SameRows

\* A broadcast touches only workers that sleep on the one that sends it.
LEMMA WokenTouches ==
  ASSUME FramesTypeOK, NEW w \in Ids, NEW n \in Worker, n.status # "asleep",
         workers' = Woken([workers EXCEPT ![w] = n], w)
  PROVE  Touches(w) /\ WakesFor(w) /\ workers'[w] = n
<1>1. workers \in [Ids -> Worker]
  BY DEF FramesTypeOK
<1> DEFINE ws == [workers EXCEPT ![w] = n]
<1>2. ws \in [Ids -> Worker] /\ ws[w] = n /\ \A v \in Ids \ {w} : ws[v] = workers[v]
  BY <1>1
<1>3. workers' = [v \in Ids |->
                    IF ws[v].status = "asleep" /\ owner[ws[v].ref] = w
                      THEN [ws[v] EXCEPT !.status = "woken"] ELSE ws[v]]
  BY DEF Woken
<1> HIDE DEF ws
<1>4. workers'[w] = n
  BY <1>2, <1>3
<1>5. ASSUME NEW v \in Ids
      PROVE  [ws[v] EXCEPT !.status = "woken"] \in Worker
  BY <1>2 DEF Worker, Busy
<1>6. workers' \in [Ids -> Worker]
  BY <1>2, <1>3, <1>5
<1>7. ASSUME NEW v \in Ids \ {w}
      PROVE  /\ Same(v)
             /\ workers[v].status = "asleep" /\ owner[workers[v].ref] = w
                  => workers'[v].status = "woken"
  <2>1. ws[v] = workers[v] /\ workers[v] \in Worker
    BY <1>1, <1>2
  <2>2. CASE workers[v].status = "asleep" /\ owner[workers[v].ref] = w
    <3>1. workers'[v] = [workers[v] EXCEPT !.status = "woken"]
      BY <1>3, <2>1, <2>2
    <3> QED
      BY <2>1, <2>2, <3>1
      DEF Worker, Same, SameMaps, SameFrame, SameContext, SameRows
  <2>3. CASE ~(workers[v].status = "asleep" /\ owner[workers[v].ref] = w)
    <3>1. workers'[v] = workers[v]
      BY <1>3, <2>1, <2>3
    <3> QED
      BY <2>3, <3>1 DEF Same, SameMaps, SameFrame, SameContext, SameRows
  <2> QED
    BY <2>2, <2>3
<1> QED
  BY <1>4, <1>6, <1>7 DEF Touches, WakesFor

\* The pool of the invariant is its counts.
Count == pool.ref_count

\* The pool is its counts.
LEMMA CountIs ==
  ASSUME FramesTypeOK, CountInv
  PROVE  Count \in Counts /\ pool = PoolOf(Count)
BY DEF FramesTypeOK, CountInv, Count, Counts, Pools

\* Buffers that keep a holder are left alone by PoolBecomes.
Holds(b) == /\ row'[b] = row[b] /\ corrupted'[b] = corrupted[b]
            /\ owner'[b] = owner[b]

\* Buffers that keep a count keep what is known of them.
LEMMA PoolBecomesIs ==
  ASSUME FramesTypeOK, NEW d \in Counts, PoolBecomes(PoolOf(d))
  PROVE  /\ pool' = PoolOf(d) /\ Count' = d /\ pool' \in Pools
         /\ row' \in [Bufs -> PixelRows] /\ corrupted' \in [Bufs -> BOOLEAN]
         /\ owner' \in [Bufs -> Ids]
         /\ \A b \in Bufs : d[b] # 0 => Holds(b)
<1>1. /\ pool' = PoolOf(d)
      /\ row' = [b \in Bufs |-> IF d[b] = 0 THEN NotReady ELSE row[b]]
      /\ corrupted' = [b \in Bufs |-> d[b] # 0 /\ corrupted[b]]
      /\ owner' = [b \in Bufs |-> IF d[b] = 0 THEN 0 ELSE owner[b]]
  BY PoolOfIs DEF PoolBecomes
<1>2. pool' \in Pools /\ Count' = d
  BY <1>1, PoolOfIs DEF Count
<1>3. /\ row \in [Bufs -> PixelRows] /\ owner \in [Bufs -> Ids]
      /\ corrupted \in [Bufs -> BOOLEAN] /\ NotReady \in PixelRows /\ 0 \in Ids
  BY RowsAre, IdsFinite DEF FramesTypeOK
<1>4. row' \in [Bufs -> PixelRows] /\ owner' \in [Bufs -> Ids]
  BY <1>1, <1>3
<1>5. corrupted' \in [Bufs -> BOOLEAN]
  BY <1>1, Zenon
<1>6. ASSUME NEW b \in Bufs, d[b] # 0
      PROVE  Holds(b)
  <2>1. row'[b] = row[b] /\ owner'[b] = owner[b]
    BY <1>1, <1>6
  <2>2. corrupted'[b] = (d[b] # 0 /\ corrupted[b])
    BY <1>1
  <2>3. corrupted[b] \in BOOLEAN
    BY <1>3
  <2>4. corrupted'[b] = corrupted[b]
    BY <1>6, <2>2, <2>3
  <2> QED
    BY <2>1, <2>4 DEF Holds
<1> QED
  BY <1>1, <1>2, <1>4, <1>5, <1>6

\* A step of one worker changes what that worker is owed, and nothing that
\* another one is.
LEMMA OwedStep ==
  ASSUME FramesTypeOK, NEW w \in Ids, Touches(w), NEW b
  PROVE  \E n \in Nat :
           /\ Owed(b) = References(current, b) + n + OwedBy(workers[w], b)
                        + IF last_show_frame = b THEN 1 ELSE 0
           /\ Owed(b)' = References(current', b) + n + OwedBy(workers'[w], b)
                         + IF last_show_frame' = b THEN 1 ELSE 0
           /\ References(current, b) \in Nat /\ References(current', b) \in Nat
           /\ OwedBy(workers[w], b) \in Nat /\ OwedBy(workers'[w], b) \in Nat
<1>1. workers \in [Ids -> Worker] /\ workers' \in [Ids -> Worker]
  BY DEF FramesTypeOK, Touches
<1>2. ASSUME NEW v \in Ids \ {w}
      PROVE  /\ workers'[v].hold_ref_buf = workers[v].hold_ref_buf
             /\ workers'[v].ref_frame_map = workers[v].ref_frame_map
             /\ workers'[v].refresh_frame_flags = workers[v].refresh_frame_flags
             /\ workers'[v].new_fb_idx = workers[v].new_fb_idx
             /\ Occupies(workers'[v]) <=> Occupies(workers[v])
  BY DEF Touches, Same, SameMaps, SameFrame, Occupies, Busy
<1> DEFINE others == Ids \ {w}
<1>3. /\ Holding(workers', others, b) = Holding(workers, others, b)
      /\ Replacing(workers', others, b) = Replacing(workers, others, b)
      /\ Occupying(workers', others, b) = Occupying(workers, others, b)
  <2>1. Holding(workers', others, b) = Holding(workers, others, b)
    BY <1>2 DEF Holding
  <2>2. Replacing(workers', others, b) = Replacing(workers, others, b)
    BY <1>2, <2>1 DEF Replacing, Holding
  <2>3. Occupying(workers', others, b) = Occupying(workers, others, b)
    BY <1>2 DEF Occupying
  <2> QED
    BY <2>1, <2>2, <2>3
<1>4. OwedTo(workers', others, b) = OwedTo(workers, others, b)
  BY <1>3 DEF OwedTo
<1>5. /\ OwedTo(workers, others, b) \in Nat
      /\ OwedBy(workers[w], b) \in Nat /\ OwedBy(workers'[w], b) \in Nat
      /\ OwedTo(workers, Ids, b) = OwedTo(workers, others, b) + OwedBy(workers[w], b)
      /\ OwedTo(workers', Ids, b) = OwedTo(workers', others, b) + OwedBy(workers'[w], b)
  BY <1>1, OwedToIs
<1>6. References(current, b) \in Nat /\ References(current', b) \in Nat
  BY ReferencesAre
<1>7. /\ Owed(b) = References(current, b) + OwedTo(workers, Ids, b)
                   + IF last_show_frame = b THEN 1 ELSE 0
      /\ Owed(b)' = References(current', b) + OwedTo(workers', Ids, b)
                    + IF last_show_frame' = b THEN 1 ELSE 0
  BY DEF Owed
<1> DEFINE n == OwedTo(workers, others, b)
<1>8. /\ n \in Nat
      /\ OwedTo(workers, Ids, b) = n + OwedBy(workers[w], b)
      /\ OwedTo(workers', Ids, b) = n + OwedBy(workers'[w], b)
  BY <1>4, <1>5
<1> HIDE DEF n
<1>9. /\ Owed(b) = References(current, b) + n + OwedBy(workers[w], b)
                   + IF last_show_frame = b THEN 1 ELSE 0
      /\ Owed(b)' = References(current', b) + n + OwedBy(workers'[w], b)
                    + IF last_show_frame' = b THEN 1 ELSE 0
  BY <1>5, <1>6, <1>7, <1>8
<1> QED
  BY <1>5, <1>6, <1>8, <1>9

\* What changes when decoder_decode() hands a frame to the next worker
\* (vp9_dx_iface.c 386-433).
LEMMA LaunchIs ==
  ASSUME FramesTypeOK, NEW w, w = next_submit, Launch
  PROVE  /\ w \in Ids /\ Touches(w)
         /\ workers[w].status = "idle" /\ workers'[w].status = "start"
         /\ ~workers[w].received_frame
         /\ ~workers'[w].frame_context_ready
         /\ \/ \A v \in Ids : workers[v].status = "idle" /\ workers[v].cur_buf = INVALID_IDX
            \/ workers[Newest].frame_context_ready
         /\ IF NumWorkers = 1
              THEN /\ workers'[w].ref_frame_map = workers[w].ref_frame_map
                   /\ workers'[w].need_resync = workers[w].need_resync
              ELSE /\ workers'[w].ref_frame_map = workers[Newest].next_ref_frame_map
                   /\ workers'[w].need_resync = workers[Newest].need_resync
         /\ SameRows(w)
         /\ workers'[w].next_ref_frame_map = workers[w].next_ref_frame_map
         /\ workers'[w].refresh_frame_flags = workers[w].refresh_frame_flags
         /\ workers'[w].hold_ref_buf = workers[w].hold_ref_buf
         /\ workers'[w].ref = workers[w].ref
         /\ workers'[w].cur_buf = workers[w].cur_buf
         /\ workers'[w].filter_level = workers[w].filter_level
         /\ next_submit' = NextId(w) /\ next_submit' \in Ids /\ Newest' = w
         /\ UNCHANGED <<bufVars, next_output, last_show_frame, current>>
<1> DEFINE prev == workers[PrevId(w)]
           o == workers[w]
           map == IF NumWorkers = 1 THEN o.ref_frame_map ELSE prev.next_ref_frame_map
           resync == IF NumWorkers = 1 THEN o.need_resync ELSE prev.need_resync
           n == [o EXCEPT !.status = "start", !.frame_context_ready = FALSE,
                          !.received_frame = TRUE, !.had_error = FALSE,
                          !.ref_frame_map = map, !.need_resync = resync]
<1>1. /\ w \in Ids /\ PrevId(w) \in Ids /\ NextId(w) \in Ids
      /\ PrevId(NextId(w)) = w
      /\ o \in Worker /\ prev \in Worker
  BY RingOfWorkers DEF FramesTypeOK
<1>2. /\ o.status = "idle" /\ ~o.received_frame
      /\ \/ \A v \in Ids : workers[v].status = "idle" /\ workers[v].cur_buf = INVALID_IDX
         \/ prev.frame_context_ready
      /\ next_submit' = NextId(w)
      /\ UNCHANGED <<bufVars, next_output, last_show_frame, current>>
  BY DEF Launch
<1>3. workers' = [workers EXCEPT ![w] = n]
  BY DEF Launch
<1>4. map \in [Slots -> BufIdx] /\ resync \in BOOLEAN
  BY <1>1 DEF Worker
<1>5. /\ NumWorkers = 1 => map = o.ref_frame_map /\ resync = o.need_resync
      /\ NumWorkers # 1 => map = prev.next_ref_frame_map /\ resync = prev.need_resync
  OBVIOUS
<1> HIDE DEF map, resync, o
<1>a. n \in Worker
  BY <1>1, <1>4 DEF Worker, Busy
<1>6. /\ n \in Worker /\ n.status = "start" /\ ~n.frame_context_ready
      /\ n.ref_frame_map = map /\ n.need_resync = resync
      /\ n.sbRow = o.sbRow /\ n.y1 = o.y1
      /\ n.next_ref_frame_map = o.next_ref_frame_map
      /\ n.refresh_frame_flags = o.refresh_frame_flags
      /\ n.hold_ref_buf = o.hold_ref_buf
      /\ n.ref = o.ref /\ n.cur_buf = o.cur_buf
      /\ n.filter_level = o.filter_level
  BY <1>1, <1>a DEF Worker
<1> HIDE DEF n
<1>7. Touches(w) /\ workers'[w] = n
  BY <1>1, <1>3, <1>6, UpdateTouches
<1> HIDE DEF prev
<1>8. Newest = PrevId(w) /\ Newest' = w
  BY <1>1, <1>2 DEF Newest
<1> QED
  BY <1>1, <1>2, <1>5, <1>6, <1>7, <1>8 DEF SameRows, prev, o

\* What changes when decoder_get_frame() gives a frame to the application
\* (vp9_dx_iface.c 470-520).
LEMMA OutputIs ==
  ASSUME FramesTypeOK, NEW w, w = next_output, Output
  PROVE  /\ w \in Ids /\ Touches(w)
         /\ workers[w].status = "idle" /\ workers'[w].status = "idle"
         /\ workers[w].received_frame /\ ~workers'[w].received_frame
         /\ SameMaps(w) /\ SameContext(w) /\ SameRows(w)
         /\ workers'[w].ref = workers[w].ref
         /\ workers'[w].cur_buf = workers[w].cur_buf
         /\ IF workers[w].show_frame /\ ~workers[w].had_error
              THEN /\ PoolBecomes(IF last_show_frame = INVALID_IDX THEN pool
                                  ELSE DecreaseRefCount(pool, last_show_frame, 1))
                   /\ last_show_frame' = workers[w].new_fb_idx
              ELSE UNCHANGED <<bufVars, last_show_frame>>
         /\ next_output' \in Ids
         /\ UNCHANGED <<next_submit, current>>
<1> DEFINE o == workers[w]
           n == [o EXCEPT !.received_frame = FALSE, !.show_frame = FALSE,
                          !.new_fb_idx = INVALID_IDX]
<1>1. w \in Ids /\ NextId(w) \in Ids /\ o \in Worker /\ workers \in [Ids -> Worker]
  BY RingOfWorkers DEF FramesTypeOK
<1>2. /\ o.status = "idle" /\ o.received_frame
      /\ next_output' = NextId(w)
      /\ IF o.show_frame /\ ~o.had_error
           THEN /\ PoolBecomes(IF last_show_frame = INVALID_IDX THEN pool
                               ELSE DecreaseRefCount(pool, last_show_frame, 1))
                /\ last_show_frame' = o.new_fb_idx
           ELSE UNCHANGED <<bufVars, last_show_frame>>
      /\ UNCHANGED <<next_submit, current>>
  BY DEF Output
<1>3. workers' = [workers EXCEPT ![w] = n]
  BY <1>1 DEF Output, Worker
<1> HIDE DEF o
<1>4. n \in Worker
  BY <1>1 DEF Worker, BufIdx
<1>5. /\ n.status = o.status /\ ~n.received_frame
      /\ n.ref_frame_map = o.ref_frame_map
      /\ n.next_ref_frame_map = o.next_ref_frame_map
      /\ n.refresh_frame_flags = o.refresh_frame_flags
      /\ n.hold_ref_buf = o.hold_ref_buf
      /\ n.frame_context_ready = o.frame_context_ready
      /\ n.need_resync = o.need_resync
      /\ n.sbRow = o.sbRow /\ n.y1 = o.y1 /\ n.ref = o.ref /\ n.cur_buf = o.cur_buf
  BY <1>1, <1>4 DEF Worker
<1> HIDE DEF n
<1>6. Touches(w) /\ workers'[w] = n
  BY <1>1, <1>3, <1>4, UpdateTouches
<1> QED
  BY <1>1, <1>2, <1>5, <1>6 DEF SameMaps, SameContext, SameRows, o

\* What changes when a worker takes a buffer for its frame.
LEMMA StartIs ==
  ASSUME FramesTypeOK, NEW w \in Ids, Start(w), NEW b, b = FreeFb(pool)
  PROVE  /\ b \in Bufs => Touches(w)
         /\ workers[w].status = "start"
         /\ b \in Bufs =>
              /\ workers'[w].status = "header"
              /\ workers'[w].new_fb_idx = b /\ workers'[w].cur_buf = b
              /\ ~workers'[w].hold_ref_buf
              /\ workers'[w].ref_frame_map = workers[w].ref_frame_map
              /\ workers'[w].next_ref_frame_map = workers[w].next_ref_frame_map
              /\ workers'[w].refresh_frame_flags = workers[w].refresh_frame_flags
              /\ workers'[w].ref = workers[w].ref
              /\ SameContext(w) /\ SameRows(w)
         /\ FreeBufs(pool) # {} /\ pool' = GetFreeFb(pool)
         /\ owner' = [owner EXCEPT ![b] = w]
         /\ row' = [row EXCEPT ![b] = NotReady]
         /\ UNCHANGED <<corrupted, ctlVars, current>>
<1> DEFINE o == workers[w]
           n == [o EXCEPT !.status = "header", !.new_fb_idx = b, !.cur_buf = b,
                          !.hold_ref_buf = FALSE]
<1>1. o \in Worker /\ workers \in [Ids -> Worker]
  BY DEF FramesTypeOK
<1>2. /\ o.status = "start"
      /\ FreeBufs(pool) # {} /\ pool' = GetFreeFb(pool)
      /\ owner' = [owner EXCEPT ![b] = w]
      /\ row' = [row EXCEPT ![b] = NotReady]
      /\ UNCHANGED <<corrupted, ctlVars, current>>
  BY DEF Start
<1>3. workers' = [workers EXCEPT ![w] = n]
  BY <1>1 DEF Start, Worker
<1> HIDE DEF o
<1>4. ASSUME b \in Bufs
      PROVE  /\ Touches(w) /\ workers'[w].status = "header"
             /\ workers'[w].new_fb_idx = b /\ workers'[w].cur_buf = b
             /\ ~workers'[w].hold_ref_buf
             /\ workers'[w].ref_frame_map = o.ref_frame_map
             /\ workers'[w].next_ref_frame_map = o.next_ref_frame_map
             /\ workers'[w].refresh_frame_flags = o.refresh_frame_flags
             /\ workers'[w].frame_context_ready = o.frame_context_ready
             /\ workers'[w].need_resync = o.need_resync
             /\ workers'[w].sbRow = o.sbRow /\ workers'[w].y1 = o.y1
             /\ workers'[w].ref = o.ref
  <2>1. n \in Worker
    BY <1>1, <1>4 DEF Worker, BufIdx, Busy
  <2>2. /\ n.status = "header" /\ n.new_fb_idx = b /\ n.cur_buf = b
        /\ ~n.hold_ref_buf
        /\ n.ref_frame_map = o.ref_frame_map
        /\ n.next_ref_frame_map = o.next_ref_frame_map
        /\ n.refresh_frame_flags = o.refresh_frame_flags
        /\ n.frame_context_ready = o.frame_context_ready
        /\ n.need_resync = o.need_resync
        /\ n.sbRow = o.sbRow /\ n.y1 = o.y1 /\ n.ref = o.ref
    BY <1>1, <2>1 DEF Worker
  <2> HIDE DEF n
  <2>3. Touches(w) /\ workers'[w] = n
    BY <1>3, <2>1, UpdateTouches
  <2> QED
    BY <2>2, <2>3
<1> QED
  BY <1>2, <1>4 DEF SameContext, SameRows, o

\* The map with which a header is read: an intra frame that a worker waited
\* for names nothing.
MapRead(w, ref) ==
  IF ref = INVALID_IDX /\ workers[w].need_resync THEN NoReferences
  ELSE workers[w].ref_frame_map

Reads(w, ref, refresh) ==
  /\ MapRead(w, ref) \in [Slots -> BufIdx]
  /\ Touches(w) /\ WakesFor(w)
  /\ workers[w].status = "header" /\ workers'[w].status = "rows"
  /\ workers'[w].ref_frame_map = MapRead(w, ref)
  /\ workers'[w].refresh_frame_flags = refresh
  /\ workers'[w].hold_ref_buf
  /\ workers'[w].ref = ref
  /\ current' = 
       NextRefFrameMap(MapRead(w, ref), refresh, workers[w].new_fb_idx)
  /\ workers'[w].next_ref_frame_map = current'
  /\ current' \in [Slots -> BufIdx]
  /\ SameRows(w)
  /\ workers'[w].new_fb_idx = workers[w].new_fb_idx
  /\ workers'[w].cur_buf = workers[w].cur_buf
  /\ pool' = TakeHolds(pool, MapRead(w, ref), refresh, workers[w].new_fb_idx)
  /\ corrupted' = [corrupted EXCEPT ![workers[w].new_fb_idx] = FALSE]
  /\ UNCHANGED <<row, owner, ctlVars>>

\* What changes when a header is read and the next worker may go on.
LEMMA HeaderReadIs ==
  ASSUME FramesTypeOK, NEW w \in Ids, workers[w].new_fb_idx \in Bufs,
         NEW ref \in BufIdx, NEW refresh \in SUBSET Slots, NEW show \in BOOLEAN,
         NEW filter \in BOOLEAN, NEW early \in BOOLEAN,
         HeaderRead(w, ref, refresh, show, filter, early)
  PROVE  Reads(w, ref, refresh)
<1> DEFINE o == workers[w]
           b == o.new_fb_idx
           map == MapRead(w, ref)
           next == NextRefFrameMap(map, refresh, b)
           resync == (o.need_resync /\ ~(ref = INVALID_IDX))
           n == [o EXCEPT !.status = "rows", !.ref_frame_map = map,
                          !.next_ref_frame_map = next, !.ref = ref,
                          !.refresh_frame_flags = refresh, !.show_frame = show,
                          !.filter_level = filter, !.frame_context_ready = early,
                          !.need_resync = resync, !.hold_ref_buf = TRUE]
<1>1. o \in Worker /\ workers \in [Ids -> Worker]
  BY DEF FramesTypeOK
<1>2. /\ o.status = "header"
      /\ pool' = TakeHolds(pool, map, refresh, b)
      /\ corrupted' = [corrupted EXCEPT ![b] = FALSE]
      /\ current' = next
      /\ UNCHANGED <<row, owner, ctlVars>>
  BY DEF HeaderRead, MapRead
<1>3. workers' = Woken([workers EXCEPT ![w] = n], w)
  BY DEF HeaderRead, MapRead
<1>4. map \in [Slots -> BufIdx]
  BY <1>1 DEF Worker, NoReferences, BufIdx, MapRead
<1>5. resync \in BOOLEAN
  OBVIOUS
<1> HIDE DEF o, resync, map
<1>6. next \in [Slots -> BufIdx]
  BY <1>4, BufsAre DEF NextRefFrameMap, o
<1> HIDE DEF next
<1>7. n \in Worker
  BY <1>1, <1>4, <1>5, <1>6 DEF Worker, Busy
<1>8. /\ n.status = "rows" /\ n.ref_frame_map = map /\ n.next_ref_frame_map = next
      /\ n.refresh_frame_flags = refresh /\ n.hold_ref_buf /\ n.ref = ref
      /\ n.sbRow = o.sbRow /\ n.y1 = o.y1
      /\ n.new_fb_idx = b /\ n.cur_buf = o.cur_buf
  BY <1>1, <1>7 DEF Worker
<1> HIDE DEF n
<1>9. Touches(w) /\ WakesFor(w) /\ workers'[w] = n
  <2>1. n.status # "asleep"
    BY <1>8
  <2> QED
    BY <1>3, <1>7, <2>1, WokenTouches
<1>10. next = NextRefFrameMap(map, refresh, b)
  BY DEF next
<1> QED
  BY <1>2, <1>4, <1>6, <1>8, <1>9, <1>10 DEF Reads, SameRows, o, map

\* What changes when a header shows a buffer that is decoded already.
LEMMA ShowExistingIs ==
  ASSUME FramesTypeOK, NEW w \in Ids, NEW s \in Slots, ShowExisting(w, s),
         NEW b, b = workers[w].ref_frame_map[s]
  PROVE  /\ b \in Bufs /\ Count[b] > 0 /\ Touches(w)
         /\ workers[w].status = "header" /\ workers'[w].status = "swapped"
         /\ workers'[w].new_fb_idx = b
         /\ workers'[w].ref = INVALID_IDX
         /\ workers'[w].ref_frame_map = workers[w].ref_frame_map
         /\ workers'[w].next_ref_frame_map = workers[w].ref_frame_map
         /\ workers'[w].cur_buf = workers[w].cur_buf
         /\ workers'[w].hold_ref_buf = workers[w].hold_ref_buf
         /\ SameContext(w) /\ SameRows(w)
         /\ PoolBecomes(RefCntFb(pool, workers[w].new_fb_idx, b))
         /\ UNCHANGED <<ctlVars, current>>
<1> DEFINE o == workers[w]
           n == [o EXCEPT !.status = "swapped", !.new_fb_idx = b,
                          !.ref = INVALID_IDX, !.refresh_frame_flags = {},
                          !.show_frame = TRUE,
                          !.next_ref_frame_map = o.ref_frame_map]
<1>1. o \in Worker /\ workers \in [Ids -> Worker]
  BY DEF FramesTypeOK
<1>2. /\ o.status = "header" /\ b # INVALID_IDX /\ Count[b] > 0
      /\ PoolBecomes(RefCntFb(pool, o.new_fb_idx, b))
      /\ UNCHANGED <<ctlVars, current>>
  BY DEF ShowExisting, Count
<1>3. workers' = [workers EXCEPT ![w] = n]
  BY DEF ShowExisting
<1>4. b \in Bufs
  BY <1>1, <1>2 DEF Worker, BufIdx
<1> HIDE DEF o
<1>5. n \in Worker
  BY <1>1, <1>4 DEF Worker, BufIdx, Busy
<1>6. /\ n.status = "swapped" /\ n.new_fb_idx = b /\ n.ref = INVALID_IDX
      /\ n.ref_frame_map = o.ref_frame_map
      /\ n.next_ref_frame_map = o.ref_frame_map
      /\ n.cur_buf = o.cur_buf /\ n.hold_ref_buf = o.hold_ref_buf
      /\ n.frame_context_ready = o.frame_context_ready
      /\ n.need_resync = o.need_resync
      /\ n.sbRow = o.sbRow /\ n.y1 = o.y1
  BY <1>1, <1>5 DEF Worker
<1> HIDE DEF n
<1>7. Touches(w) /\ workers'[w] = n
  BY <1>3, <1>5, UpdateTouches
<1> QED
  BY <1>2, <1>4, <1>6, <1>7 DEF SameContext, SameRows, o

\* What changes when a worker looks at the row of its reference.
LEMMA FrameworkerWaitIs ==
  ASSUME FramesTypeOK, NEW w \in Ids, NEW y1 \in PredRows \cup {0},
         FrameworkerWait(w, y1), NEW b, b = workers[w].ref
  PROVE  /\ Touches(w)
         /\ ~corrupted[b]
         /\ workers'[w].status =
              IF row[b] >= ReadyRow(y1) \/ workers[owner[b]].cur_buf # b
                THEN "predict" ELSE "asleep"
         /\ workers'[w].y1 = y1
         /\ SameMaps(w) /\ SameFrame(w) /\ SameContext(w)
         /\ workers'[w].ref = b
         /\ workers'[w].sbRow = workers[w].sbRow
         /\ UNCHANGED <<bufVars, ctlVars, current>>
<1> DEFINE o == workers[w]
           status == IF row[b] >= ReadyRow(y1) \/ workers[owner[b]].cur_buf # b
                       THEN "predict" ELSE "asleep"
           n == [o EXCEPT !.status = status, !.y1 = y1]
<1>1. o \in Worker /\ workers \in [Ids -> Worker] /\ b = o.ref
  BY DEF FramesTypeOK
<1>2. ~corrupted[b] /\ UNCHANGED <<bufVars, ctlVars, current>>
  BY DEF FrameworkerWait
<1>3. workers' = [workers EXCEPT ![w] = n]
  BY <1>1 DEF FrameworkerWait, Worker
<1>4. status \in Busy
  BY DEF Busy
<1>5. status = IF row[b] >= ReadyRow(y1) \/ workers[owner[b]].cur_buf # b
                 THEN "predict" ELSE "asleep"
  OBVIOUS
<1> HIDE DEF o, status
<1>6. n \in Worker
  BY <1>1, <1>4 DEF Worker
<1>7. /\ n.status = status /\ n.y1 = y1
      /\ n.ref_frame_map = o.ref_frame_map
      /\ n.next_ref_frame_map = o.next_ref_frame_map
      /\ n.refresh_frame_flags = o.refresh_frame_flags
      /\ n.hold_ref_buf = o.hold_ref_buf
      /\ n.new_fb_idx = o.new_fb_idx /\ n.cur_buf = o.cur_buf
      /\ n.show_frame = o.show_frame /\ n.filter_level = o.filter_level
      /\ n.received_frame = o.received_frame /\ n.had_error = o.had_error
      /\ n.frame_context_ready = o.frame_context_ready
      /\ n.need_resync = o.need_resync
      /\ n.sbRow = o.sbRow /\ n.ref = o.ref
  BY <1>1, <1>6 DEF Worker
<1> HIDE DEF n
<1>8. Touches(w) /\ workers'[w] = n
  BY <1>3, <1>6, UpdateTouches
<1> QED
  BY <1>1, <1>2, <1>5, <1>7, <1>8 DEF SameMaps, SameFrame, SameContext, o

RowTold(w) == Tells(workers[w].filter_level, workers[w].sbRow)

Decodes(w) ==
  /\ Touches(w) /\ (RowTold(w) => WakesFor(w))
  /\ workers[w].status \in {"predict", "rows"}
  /\ workers'[w].status = "rows"
  /\ workers[w].sbRow < SbRows /\ workers'[w].sbRow = workers[w].sbRow + 1
  /\ SameMaps(w) /\ SameFrame(w) /\ SameContext(w)
  /\ workers'[w].ref = workers[w].ref
  /\ row' = IF RowTold(w)
              THEN [row EXCEPT ![workers[w].cur_buf] = workers[w].sbRow * SbSize]
              ELSE row
  /\ UNCHANGED <<pool, corrupted, owner, ctlVars, current>>

\* What changes when a row of superblocks is decoded, and told of.
LEMMA DecodeRowIs ==
  ASSUME FramesTypeOK, NEW w \in Ids, DecodeRow(w),
         workers[w].status = "predict" => workers[w].sbRow < SbRows
  PROVE  Decodes(w)
<1> DEFINE r == workers[w].sbRow
           tell == RowTold(w)
<1> DEFINE o == workers[w]
           n == [o EXCEPT !.status = "rows", !.sbRow = r + 1, !.y1 = 0]
<1>1. o \in Worker /\ workers \in [Ids -> Worker] /\ r = o.sbRow
  BY DEF FramesTypeOK
<1>2. /\ o.status \in {"predict", "rows"} /\ r < SbRows
      /\ row' = IF tell THEN [row EXCEPT ![o.cur_buf] = r * SbSize] ELSE row
      /\ UNCHANGED <<pool, corrupted, owner, ctlVars, current>>
  BY DEF DecodeRow, RowTold
<1>3. [workers EXCEPT ![w].status = "rows", ![w].sbRow = r + 1, ![w].y1 = 0]
        = [workers EXCEPT ![w] = n]
  BY <1>1 DEF Worker
<1>4. workers' = IF tell THEN Woken([workers EXCEPT ![w] = n], w)
                 ELSE [workers EXCEPT ![w] = n]
  BY <1>3 DEF DecodeRow, RowTold
<1>a. r = o.sbRow
  OBVIOUS
<1>b. tell = RowTold(w)
  OBVIOUS
<1>5. r + 1 \in 0 .. SbRows
  BY <1>1, <1>2, RowsAre DEF Worker
<1> HIDE DEF o, r, tell
<1>6. n \in Worker
  BY <1>1, <1>5 DEF Worker, Busy
<1>7. /\ n.status = "rows" /\ n.sbRow = r + 1
      /\ n.ref_frame_map = o.ref_frame_map
      /\ n.next_ref_frame_map = o.next_ref_frame_map
      /\ n.refresh_frame_flags = o.refresh_frame_flags
      /\ n.hold_ref_buf = o.hold_ref_buf
      /\ n.new_fb_idx = o.new_fb_idx /\ n.cur_buf = o.cur_buf
      /\ n.show_frame = o.show_frame /\ n.filter_level = o.filter_level
      /\ n.received_frame = o.received_frame /\ n.had_error = o.had_error
      /\ n.frame_context_ready = o.frame_context_ready
      /\ n.need_resync = o.need_resync
      /\ n.ref = o.ref
  BY <1>1, <1>6 DEF Worker
<1> HIDE DEF n
<1>8. Touches(w) /\ workers'[w] = n /\ (tell => WakesFor(w))
  <2>1. CASE tell
    <3>1. workers' = Woken([workers EXCEPT ![w] = n], w)
      BY <1>4, <2>1
    <3>2. n.status # "asleep"
      BY <1>7
    <3> QED
      BY <1>6, <3>1, <3>2, WokenTouches
  <2>2. CASE ~tell
    <3>1. workers' = [workers EXCEPT ![w] = n]
      BY <1>4, <2>2
    <3> QED
      BY <1>6, <2>2, <3>1, UpdateTouches
  <2> QED
    BY <2>1, <2>2
<1>9. SameMaps(w) /\ SameFrame(w) /\ SameContext(w)
  BY <1>7, <1>8 DEF SameMaps, SameFrame, SameContext, o
<1> QED
  BY <1>2, <1>7, <1>8, <1>9 DEF Decodes, o, r, tell

\* What changes when the last rows are told of.
LEMMA LastRowsIs ==
  ASSUME FramesTypeOK, NEW w \in Ids, LastRows(w)
  PROVE  /\ Touches(w) /\ WakesFor(w)
         /\ workers[w].status = "rows" /\ workers'[w].status = "decoded"
         /\ SameMaps(w) /\ SameFrame(w) /\ SameContext(w) /\ SameRows(w)
         /\ workers'[w].ref = workers[w].ref
         /\ row' = [row EXCEPT ![workers[w].cur_buf] = INT_MAX]
         /\ UNCHANGED <<pool, corrupted, owner, ctlVars, current>>
<1> DEFINE o == workers[w]
           n == [o EXCEPT !.status = "decoded"]
<1>1. o \in Worker /\ workers \in [Ids -> Worker]
  BY DEF FramesTypeOK
<1>2. /\ o.status = "rows"
      /\ row' = [row EXCEPT ![o.cur_buf] = INT_MAX]
      /\ UNCHANGED <<pool, corrupted, owner, ctlVars, current>>
  BY DEF LastRows
<1>3. [workers EXCEPT ![w].status = "decoded"] = [workers EXCEPT ![w] = n]
  BY <1>1 DEF Worker
<1>4. workers' = Woken([workers EXCEPT ![w] = n], w)
  BY <1>3 DEF LastRows
<1> HIDE DEF o
<1>5. n \in Worker
  BY <1>1 DEF Worker, Busy
<1>6. /\ n.status = "decoded" /\ n.sbRow = o.sbRow /\ n.y1 = o.y1
      /\ n.ref_frame_map = o.ref_frame_map
      /\ n.next_ref_frame_map = o.next_ref_frame_map
      /\ n.refresh_frame_flags = o.refresh_frame_flags
      /\ n.hold_ref_buf = o.hold_ref_buf
      /\ n.new_fb_idx = o.new_fb_idx /\ n.cur_buf = o.cur_buf
      /\ n.show_frame = o.show_frame /\ n.filter_level = o.filter_level
      /\ n.received_frame = o.received_frame /\ n.had_error = o.had_error
      /\ n.frame_context_ready = o.frame_context_ready
      /\ n.need_resync = o.need_resync
      /\ n.ref = o.ref
  BY <1>1, <1>5 DEF Worker
<1> HIDE DEF n
<1>7. Touches(w) /\ WakesFor(w) /\ workers'[w] = n
  <2>1. n.status # "asleep"
    BY <1>6
  <2> QED
    BY <1>4, <1>5, <2>1, WokenTouches
<1>8. SameMaps(w) /\ SameFrame(w) /\ SameContext(w) /\ SameRows(w)
  BY <1>6, <1>7 DEF SameMaps, SameFrame, SameContext, SameRows, o
<1> QED
  BY <1>2, <1>6, <1>7, <1>8 DEF o

\* What changes when swap_frame_buffers() replaces what the frame refreshes.
LEMMA SwapIs ==
  ASSUME FramesTypeOK, NEW w \in Ids, SwapFrameBuffers(w)
  PROVE  /\ Touches(w)
         /\ workers[w].status = "decoded" /\ workers'[w].status = "swapped"
         /\ workers'[w].ref_frame_map = workers[w].next_ref_frame_map
         /\ workers'[w].next_ref_frame_map = workers[w].next_ref_frame_map
         /\ ~workers'[w].hold_ref_buf
         /\ workers'[w].ref = INVALID_IDX
         /\ SameFrame(w) /\ SameContext(w) /\ SameRows(w)
         /\ PoolBecomes(DropHolds(pool, workers[w].ref_frame_map,
                                  workers[w].refresh_frame_flags))
         /\ UNCHANGED <<ctlVars, current>>
<1> DEFINE o == workers[w]
           n == [o EXCEPT !.status = "swapped",
                          !.ref_frame_map = o.next_ref_frame_map,
                          !.ref = INVALID_IDX, !.hold_ref_buf = FALSE]
<1>1. o \in Worker /\ workers \in [Ids -> Worker]
  BY DEF FramesTypeOK
<1>2. /\ o.status = "decoded"
      /\ PoolBecomes(DropHolds(pool, o.ref_frame_map, o.refresh_frame_flags))
      /\ UNCHANGED <<ctlVars, current>>
  BY DEF SwapFrameBuffers
<1>3. workers' = [workers EXCEPT ![w] = n]
  BY <1>1 DEF SwapFrameBuffers, Worker
<1> HIDE DEF o
<1>4. n \in Worker
  BY <1>1 DEF Worker, Busy, BufIdx
<1>5. /\ n.status = "swapped" /\ n.sbRow = o.sbRow /\ n.y1 = o.y1
      /\ n.ref_frame_map = o.next_ref_frame_map
      /\ n.next_ref_frame_map = o.next_ref_frame_map
      /\ ~n.hold_ref_buf
      /\ n.new_fb_idx = o.new_fb_idx /\ n.cur_buf = o.cur_buf
      /\ n.show_frame = o.show_frame /\ n.filter_level = o.filter_level
      /\ n.received_frame = o.received_frame /\ n.had_error = o.had_error
      /\ n.frame_context_ready = o.frame_context_ready
      /\ n.need_resync = o.need_resync
      /\ n.ref = INVALID_IDX
  BY <1>1, <1>4 DEF Worker
<1> HIDE DEF n
<1>6. Touches(w) /\ workers'[w] = n
  BY <1>3, <1>4, UpdateTouches
<1>7. SameFrame(w) /\ SameContext(w) /\ SameRows(w)
  BY <1>5, <1>6 DEF SameFrame, SameContext, SameRows, o
<1> QED
  BY <1>2, <1>5, <1>6, <1>7 DEF o

\* A frame that ends keeps its place and its maps.
LEMMA EndedIs ==
  ASSUME NEW o \in Worker, NEW n, n = Ended(o)
  PROVE  /\ n \in Worker /\ n.status = "idle"
         /\ n.ref_frame_map = IF NumWorkers = 1 THEN o.ref_frame_map
                              ELSE NoReferences
         /\ n.next_ref_frame_map = o.next_ref_frame_map
         /\ n.new_fb_idx = IF o.show_frame THEN o.new_fb_idx ELSE INVALID_IDX
         /\ n.cur_buf = o.cur_buf /\ n.ref = INVALID_IDX
         /\ n.refresh_frame_flags = {}
         /\ n.show_frame = o.show_frame /\ ~n.hold_ref_buf
         /\ n.sbRow = 0
         /\ n.received_frame = o.received_frame /\ n.had_error = o.had_error
         /\ n.need_resync = o.need_resync
<1> DEFINE map == IF NumWorkers = 1 THEN o.ref_frame_map ELSE NoReferences
           idx == IF o.show_frame THEN o.new_fb_idx ELSE INVALID_IDX
           m == [o EXCEPT !.status = "idle", !.ref_frame_map = map,
                          !.new_fb_idx = idx, !.ref = INVALID_IDX,
                          !.refresh_frame_flags = {}, !.filter_level = FALSE,
                          !.sbRow = 0, !.y1 = 0, !.hold_ref_buf = FALSE,
                          !.frame_context_ready = TRUE]
<1>1. n = m
  BY DEF Ended
<1>2. map \in [Slots -> BufIdx] /\ idx \in BufIdx
  BY DEF Worker, NoReferences, BufIdx
<1>3. /\ map = IF NumWorkers = 1 THEN o.ref_frame_map ELSE NoReferences
      /\ idx = IF o.show_frame THEN o.new_fb_idx ELSE INVALID_IDX
  OBVIOUS
<1>4. 0 \in 0 .. SbRows
  BY RowsAre
<1> HIDE DEF map, idx
<1>5. m \in Worker
  BY <1>2, <1>4 DEF Worker, BufIdx
<1>6. /\ m.status = "idle" /\ m.ref_frame_map = map /\ m.new_fb_idx = idx
      /\ m.next_ref_frame_map = o.next_ref_frame_map
      /\ m.cur_buf = o.cur_buf /\ m.ref = INVALID_IDX
      /\ m.refresh_frame_flags = {}
      /\ m.show_frame = o.show_frame /\ ~m.hold_ref_buf /\ m.sbRow = 0
      /\ m.received_frame = o.received_frame /\ m.had_error = o.had_error
      /\ m.need_resync = o.need_resync
  BY <1>5 DEF Worker
<1> HIDE DEF m
<1> QED
  BY <1>1, <1>3, <1>5, <1>6

\* A frame that fails keeps its buffer.
LEMMA FailedIs ==
  ASSUME NEW o \in Worker, NEW n, n = FailedWorker(o)
  PROVE  /\ n \in Worker /\ n.status = "idle"
         /\ n.cur_buf = o.cur_buf /\ n.ref = INVALID_IDX
         /\ ~n.show_frame /\ ~n.hold_ref_buf /\ n.sbRow = 0
         /\ n.had_error /\ n.need_resync
<1> DEFINE m == [o EXCEPT !.show_frame = FALSE]
           e == Ended(m)
           f == [e EXCEPT !.need_resync = TRUE, !.had_error = TRUE]
<1>1. n = f
  BY DEF FailedWorker
<1>2. m \in Worker
  BY DEF Worker
<1>3. m.cur_buf = o.cur_buf /\ ~m.show_frame
  BY <1>2 DEF Worker
<1> HIDE DEF m
<1>4. /\ e \in Worker /\ e.status = "idle" /\ e.cur_buf = o.cur_buf
      /\ e.ref = INVALID_IDX /\ ~e.show_frame /\ ~e.hold_ref_buf /\ e.sbRow = 0
  BY <1>2, <1>3, EndedIs
<1> HIDE DEF e
<1>5. f \in Worker
  BY <1>4 DEF Worker
<1>6. /\ f.status = "idle" /\ f.cur_buf = o.cur_buf /\ f.ref = INVALID_IDX
      /\ ~f.show_frame /\ ~f.hold_ref_buf /\ f.sbRow = 0
      /\ f.had_error /\ f.need_resync
  BY <1>4, <1>5 DEF Worker
<1> QED
  BY <1>1, <1>5, <1>6

\* What changes when the frame is complete.
LEMMA FinishIs ==
  ASSUME FramesTypeOK, NEW w \in Ids, Finish(w)
  PROVE  /\ Touches(w) /\ WakesFor(w)
         /\ workers[w].status = "swapped" /\ workers'[w].status = "idle"
         /\ workers'[w].ref_frame_map = IF NumWorkers = 1
              THEN workers[w].ref_frame_map ELSE NoReferences
         /\ workers'[w].next_ref_frame_map = workers[w].next_ref_frame_map
         /\ workers'[w].new_fb_idx = IF workers[w].show_frame
              THEN workers[w].new_fb_idx ELSE INVALID_IDX
         /\ workers'[w].cur_buf = workers[w].cur_buf
         /\ workers'[w].ref = INVALID_IDX
         /\ workers'[w].show_frame = workers[w].show_frame
         /\ ~workers'[w].hold_ref_buf
         /\ workers'[w].sbRow = 0
         /\ workers'[w].need_resync = workers[w].need_resync
         /\ PoolBecomes(IF workers[w].show_frame THEN pool
                        ELSE [pool EXCEPT !.ref_count[workers[w].new_fb_idx] = @ - 1])
         /\ UNCHANGED <<ctlVars, current>>
<1> DEFINE o == workers[w]
           n == Ended(o)
<1>1. o \in Worker /\ workers \in [Ids -> Worker]
  BY DEF FramesTypeOK
<1>2. /\ o.status = "swapped"
      /\ PoolBecomes(IF o.show_frame THEN pool
                     ELSE [pool EXCEPT !.ref_count[o.new_fb_idx] = @ - 1])
      /\ workers' = Woken([workers EXCEPT ![w] = n], w)
      /\ UNCHANGED <<ctlVars, current>>
  BY DEF Finish
<1> HIDE DEF o
<1>3. /\ n \in Worker /\ n.status = "idle"
      /\ n.ref_frame_map = IF NumWorkers = 1 THEN o.ref_frame_map
                           ELSE NoReferences
      /\ n.next_ref_frame_map = o.next_ref_frame_map
      /\ n.new_fb_idx = IF o.show_frame THEN o.new_fb_idx ELSE INVALID_IDX
      /\ n.cur_buf = o.cur_buf /\ n.ref = INVALID_IDX
      /\ n.show_frame = o.show_frame /\ ~n.hold_ref_buf /\ n.sbRow = 0
      /\ n.need_resync = o.need_resync
  BY <1>1, EndedIs
<1> HIDE DEF n
<1>4. Touches(w) /\ WakesFor(w) /\ workers'[w] = n
  <2>1. n.status # "asleep" /\ n \in Worker
    BY <1>3
  <2> QED
    BY <1>2, <2>1, WokenTouches
<1> QED
  BY <1>2, <1>3, <1>4 DEF o

\* What changes when vpx_internal_error() leaves the decoder.
LEMMA FailIs ==
  ASSUME FramesTypeOK, NEW w \in Ids, Fail(w)
  PROVE  /\ Touches(w)
         /\ workers[w].status \in {"header", "rows", "woken"}
         /\ workers'[w].status = "failed"
         /\ SameFrame(w) /\ SameContext(w) /\ SameRows(w)
         /\ workers'[w].ref_frame_map = workers[w].ref_frame_map
         /\ workers'[w].next_ref_frame_map = workers[w].next_ref_frame_map
         /\ ~workers'[w].hold_ref_buf
         /\ workers'[w].ref = INVALID_IDX
         /\ PoolBecomes(DecreaseRefCount(
              IF workers[w].hold_ref_buf
                THEN DropHolds(pool, workers[w].ref_frame_map,
                               workers[w].refresh_frame_flags) ELSE pool,
              workers[w].new_fb_idx, 1))
         /\ UNCHANGED <<ctlVars, current>>
<1> DEFINE o == workers[w]
           n == [o EXCEPT !.status = "failed", !.ref = INVALID_IDX,
                          !.hold_ref_buf = FALSE]
<1>1. o \in Worker /\ workers \in [Ids -> Worker]
  BY DEF FramesTypeOK
<1>2. /\ o.status \in {"header", "rows", "woken"}
      /\ PoolBecomes(DecreaseRefCount(
           IF o.hold_ref_buf
             THEN DropHolds(pool, o.ref_frame_map, o.refresh_frame_flags) ELSE pool,
           o.new_fb_idx, 1))
      /\ UNCHANGED <<ctlVars, current>>
  BY DEF Fail
<1>3. workers' = [workers EXCEPT ![w] = n]
  BY <1>1 DEF Fail, Worker
<1> HIDE DEF o
<1>4. n \in Worker
  BY <1>1 DEF Worker, Busy, BufIdx
<1>5. /\ n.status = "failed" /\ n.sbRow = o.sbRow /\ n.y1 = o.y1
      /\ n.ref_frame_map = o.ref_frame_map
      /\ n.next_ref_frame_map = o.next_ref_frame_map
      /\ ~n.hold_ref_buf
      /\ n.new_fb_idx = o.new_fb_idx /\ n.cur_buf = o.cur_buf
      /\ n.show_frame = o.show_frame /\ n.filter_level = o.filter_level
      /\ n.received_frame = o.received_frame /\ n.had_error = o.had_error
      /\ n.frame_context_ready = o.frame_context_ready
      /\ n.need_resync = o.need_resync
      /\ n.ref = INVALID_IDX
  BY <1>1, <1>4 DEF Worker
<1> HIDE DEF n
<1>6. Touches(w) /\ workers'[w] = n
  BY <1>3, <1>4, UpdateTouches
<1>7. SameFrame(w) /\ SameContext(w) /\ SameRows(w)
  BY <1>5, <1>6 DEF SameFrame, SameContext, SameRows, o
<1> QED
  BY <1>2, <1>5, <1>6, <1>7 DEF o

\* What changes when the hook marks the buffer of the frame that failed.
LEMMA HookFailsIs ==
  ASSUME FramesTypeOK, NEW w \in Ids, HookFails(w)
  PROVE  /\ Touches(w) /\ WakesFor(w)
         /\ workers[w].status = "failed" /\ workers'[w].status = "idle"
         /\ workers'[w].cur_buf = workers[w].cur_buf
         /\ workers'[w].ref = INVALID_IDX
         /\ ~workers'[w].hold_ref_buf /\ ~workers'[w].show_frame
         /\ workers'[w].sbRow = 0
         /\ workers'[w].need_resync
         /\ corrupted' = [corrupted EXCEPT ![workers[w].cur_buf] = TRUE]
         /\ UNCHANGED <<pool, row, owner, ctlVars, current>>
<1> DEFINE o == workers[w]
           n == FailedWorker(o)
<1>1. o \in Worker /\ workers \in [Ids -> Worker]
  BY DEF FramesTypeOK
<1>2. /\ o.status = "failed"
      /\ corrupted' = [corrupted EXCEPT ![o.cur_buf] = TRUE]
      /\ workers' = Woken([workers EXCEPT ![w] = n], w)
      /\ UNCHANGED <<pool, row, owner, ctlVars, current>>
  BY DEF HookFails
<1> HIDE DEF o
<1>3. /\ n \in Worker /\ n.status = "idle"
      /\ n.cur_buf = o.cur_buf /\ n.ref = INVALID_IDX
      /\ ~n.show_frame /\ ~n.hold_ref_buf /\ n.sbRow = 0 /\ n.need_resync
  BY <1>1, FailedIs
<1> HIDE DEF n
<1>4. Touches(w) /\ WakesFor(w) /\ workers'[w] = n
  <2>1. n.status # "asleep" /\ n \in Worker
    BY <1>3
  <2> QED
    BY <1>2, <2>1, WokenTouches
<1> QED
  BY <1>2, <1>3, <1>4 DEF o

-----------------------------------------------------------------------------
(* Types and counts *)

Last(last, b) == IF last = b THEN 1 ELSE 0

\* A count covers what one worker, the newest map and the application hold.
LEMMA CountsCover ==
  ASSUME FramesTypeOK, CountInv, NEW w \in Ids, NEW b \in Bufs
  PROVE  /\ Count[b] \in Nat /\ OwedBy(workers[w], b) \in Nat
         /\ References(current, b) \in Nat /\ Last(last_show_frame, b) \in {0, 1}
         /\ Count[b] >= References(current, b) + OwedBy(workers[w], b)
                        + Last(last_show_frame, b)
<1>1. workers \in [Ids -> Worker]
  BY DEF FramesTypeOK
<1>2. /\ OwedTo(workers, Ids \ {w}, b) \in Nat /\ OwedBy(workers[w], b) \in Nat
      /\ OwedTo(workers, Ids, b)
           = OwedTo(workers, Ids \ {w}, b) + OwedBy(workers[w], b)
  BY <1>1, OwedToIs
<1>3. References(current, b) \in Nat /\ Last(last_show_frame, b) \in {0, 1}
  BY ReferencesAre DEF Last
<1>4. Count[b] \in Nat
  BY CountIs DEF Counts
<1>5. Count[b] >= Owed(b)
  BY DEF CountInv, Count
<1>6. Owed(b) = References(current, b) + OwedTo(workers, Ids, b)
                + Last(last_show_frame, b)
  BY DEF Owed, Last
<1> QED
  BY <1>2, <1>3, <1>4, <1>5, <1>6

\* A step that changes a count by at least what it changes of the debt.
LEMMA CountsKept ==
  ASSUME FramesTypeOK, CountInv, NEW w \in Ids, Touches(w),
         NEW d \in Counts, pool' = PoolOf(d),
         \A b \in Bufs :
           d[b] - Count[b] >=
             (References(current', b) + OwedBy(workers'[w], b) + Last(last_show_frame', b))
             - (References(current, b) + OwedBy(workers[w], b) + Last(last_show_frame, b))
  PROVE  CountInv'
<1>1. pool'.ref_count = d
  BY PoolOfIs
<1>2. ASSUME NEW b \in Bufs
      PROVE  d[b] >= Owed(b)'
  <2>1. PICK n \in Nat :
          /\ Owed(b) = References(current, b) + n + OwedBy(workers[w], b)
                       + IF last_show_frame = b THEN 1 ELSE 0
          /\ Owed(b)' = References(current', b) + n + OwedBy(workers'[w], b)
                        + IF last_show_frame' = b THEN 1 ELSE 0
          /\ References(current, b) \in Nat /\ References(current', b) \in Nat
          /\ OwedBy(workers[w], b) \in Nat /\ OwedBy(workers'[w], b) \in Nat
    BY OwedStep
  <2>2. Count[b] >= Owed(b) /\ Count[b] \in Nat /\ d[b] \in Nat
    BY CountIs DEF CountInv, Count, Counts
  <2>3. d[b] - Count[b] >=
          (References(current', b) + OwedBy(workers'[w], b) + Last(last_show_frame', b))
          - (References(current, b) + OwedBy(workers[w], b) + Last(last_show_frame, b))
    OBVIOUS
  <2> QED
    BY <2>1, <2>2, <2>3 DEF Last
<1> QED
  BY <1>1, <1>2 DEF CountInv

\* A step that leaves the pool alone.
LEMMA CountsSame ==
  ASSUME FramesTypeOK, CountInv, NEW w \in Ids, Touches(w),
         UNCHANGED <<pool, current, last_show_frame>>,
         \A b \in Bufs : OwedBy(workers'[w], b) <= OwedBy(workers[w], b)
  PROVE  CountInv'
<1>1. Count \in Counts /\ pool' = PoolOf(Count)
  BY CountIs
<1>2. ASSUME NEW b \in Bufs
      PROVE  Count[b] - Count[b] >=
               (References(current', b) + OwedBy(workers'[w], b) + Last(last_show_frame', b))
               - (References(current, b) + OwedBy(workers[w], b) + Last(last_show_frame, b))
  <2>1. OwedBy(workers'[w], b) \in Nat
    BY OwedStep
  <2>2. /\ Count[b] \in Nat /\ OwedBy(workers[w], b) \in Nat
        /\ References(current, b) \in Nat /\ Last(last_show_frame, b) \in {0, 1}
    BY CountsCover
  <2>3. OwedBy(workers'[w], b) <= OwedBy(workers[w], b)
    OBVIOUS
  <2> QED
    BY <2>1, <2>2, <2>3
<1> QED
  BY <1>1, <1>2, CountsKept

\* A worker that keeps its maps and its frame is owed what it was.
LEMMA SameDebt ==
  ASSUME NEW w \in Ids, SameMaps(w), SameFrame(w),
         Occupies(workers'[w]) <=> Occupies(workers[w]),
         NEW b
  PROVE  OwedBy(workers'[w], b) = OwedBy(workers[w], b)
BY DEF SameMaps, SameFrame, OwedBy

\* A worker without holds owes for its frame only.
LEMMA FrameDebt ==
  ASSUME NEW worker, ~worker.hold_ref_buf, NEW b
  PROVE  OwedBy(worker, b) = IF Occupies(worker) /\ worker.new_fb_idx = b THEN 1 ELSE 0
BY DEF OwedBy

\* Handing a frame to a worker changes no count.
LEMMA LaunchCounts ==
  ASSUME FramesInv, Launch
  PROVE  FramesTypeOK' /\ CountInv'
<1> DEFINE w == next_submit
<1>1. FramesTypeOK /\ CountInv
  BY DEF FramesInv
<1>2. /\ w \in Ids /\ Touches(w)
      /\ workers[w].status = "idle" /\ workers'[w].status = "start"
      /\ ~workers[w].received_frame
      /\ workers'[w].hold_ref_buf = workers[w].hold_ref_buf
      /\ next_submit' \in Ids
      /\ UNCHANGED <<bufVars, next_output, last_show_frame, current>>
  BY <1>1, LaunchIs
<1> HIDE DEF w
<1>3. FramesTypeOK'
  BY <1>1, <1>2 DEF FramesTypeOK, Touches, bufVars
<1>4. ~workers[w].hold_ref_buf /\ ~workers'[w].hold_ref_buf
  BY <1>2 DEF FramesInv, FrameInv, Decoding, Following
<1>5. ASSUME NEW b
      PROVE  OwedBy(workers'[w], b) = 0 /\ OwedBy(workers[w], b) = 0
  <2>1. ~Occupies(workers'[w]) /\ ~Occupies(workers[w])
    BY <1>2 DEF Occupies, Busy
  <2> QED
    BY <1>4, <2>1, FrameDebt
<1>6. CountInv'
  <2>1. UNCHANGED <<pool, current, last_show_frame>>
    BY <1>2 DEF bufVars
  <2>2. \A b \in Bufs : OwedBy(workers'[w], b) <= OwedBy(workers[w], b)
    BY <1>5
  <2> QED
    BY <1>1, <1>2, <2>1, <2>2, CountsSame
<1> QED
  BY <1>3, <1>6

\* The types and the counts are kept when decoder_get_frame() gives a frame to
\* the application (vp9_dx_iface.c 470-520).
LEMMA OutputCounts ==
  ASSUME FramesInv, Output
  PROVE  /\ FramesTypeOK' /\ CountInv'
         /\ \A b \in Bufs : Count'[b] # 0 => Holds(b)
<1> DEFINE w == next_output
           shown == workers[w].show_frame /\ ~workers[w].had_error
           d == IF last_show_frame = INVALID_IDX THEN Count
                ELSE [Count EXCEPT ![last_show_frame] = @ - 1]
<1>1. FramesTypeOK /\ CountInv
  BY DEF FramesInv
<1>2. /\ w \in Ids /\ Touches(w)
      /\ workers[w].status = "idle" /\ workers'[w].status = "idle"
      /\ workers[w].received_frame /\ ~workers'[w].received_frame
      /\ workers'[w].hold_ref_buf = workers[w].hold_ref_buf
      /\ IF shown
           THEN /\ PoolBecomes(IF last_show_frame = INVALID_IDX THEN pool
                               ELSE DecreaseRefCount(pool, last_show_frame, 1))
                /\ last_show_frame' = workers[w].new_fb_idx
           ELSE UNCHANGED <<bufVars, last_show_frame>>
      /\ next_output' \in Ids
      /\ UNCHANGED <<next_submit, current>>
  BY <1>1, OutputIs DEF SameMaps
<1>3. FrameInv(w) /\ (shown => w \in Shown)
  BY <1>2 DEF FramesInv, Shown
<1> HIDE DEF w
<1>4. ~workers[w].hold_ref_buf /\ ~workers'[w].hold_ref_buf
  BY <1>2, <1>3 DEF FrameInv, Decoding, Following
<1>5. ASSUME NEW b
      PROVE  /\ OwedBy(workers'[w], b) = 0
             /\ OwedBy(workers[w], b) =
                  IF shown /\ workers[w].new_fb_idx = b THEN 1 ELSE 0
  <2>1. ~Occupies(workers'[w]) /\ (Occupies(workers[w]) <=> shown)
    BY <1>2 DEF Occupies, Busy
  <2> QED
    BY <1>4, <2>1, FrameDebt
<1>6. CASE shown
  <2>1. /\ workers[w].new_fb_idx \in Bufs
        /\ last_show_frame' = workers[w].new_fb_idx
        /\ PoolBecomes(IF last_show_frame = INVALID_IDX THEN pool
                       ELSE DecreaseRefCount(pool, last_show_frame, 1))
    BY <1>2, <1>3, <1>6 DEF FrameInv
  <2>2. last_show_frame \in BufIdx /\ Count \in Counts /\ pool = PoolOf(Count)
    BY <1>1, CountIs DEF FramesTypeOK
  <2>3. PoolBecomes(PoolOf(d)) /\ d \in Counts
        /\ \A b \in Bufs : d[b] = Count[b] - Last(last_show_frame, b)
    <3>1. CASE last_show_frame = INVALID_IDX
      <4>1. \A b \in Bufs : Last(last_show_frame, b) = 0
        BY <3>1, BufsAre DEF Last
      <4> QED
        BY <2>1, <2>2, <3>1, <4>1 DEF Counts
    <3>2. CASE last_show_frame # INVALID_IDX
      <4>1. last_show_frame \in Bufs
        BY <2>2, <3>2 DEF BufIdx
      <4>2. Count[last_show_frame] > 0
        BY <1>1, <1>2, <4>1, CountsCover DEF Last
      <4>3. DecreaseRefCount(pool, last_show_frame, 1) = PoolOf(d)
        BY <2>2, <3>2, <4>1, <4>2, DecreaseIs
      <4>4. d \in Counts /\ \A b \in Bufs : d[b] = Count[b] - Last(last_show_frame, b)
        BY <2>2, <3>2, <4>1, <4>2 DEF Counts, Last
      <4> QED
        BY <2>1, <3>2, <4>3, <4>4
    <3> QED
      BY <3>1, <3>2
  <2> HIDE DEF d
  <2>4. /\ pool' = PoolOf(d) /\ Count' = d /\ pool' \in Pools
        /\ row' \in [Bufs -> PixelRows] /\ corrupted' \in [Bufs -> BOOLEAN]
        /\ owner' \in [Bufs -> Ids]
        /\ \A b \in Bufs : d[b] # 0 => Holds(b)
    BY <1>1, <2>3, PoolBecomesIs
  <2>5. last_show_frame' \in BufIdx
    BY <2>1, BufsAre
  <2>6. FramesTypeOK'
    BY <1>1, <1>2, <2>4, <2>5 DEF FramesTypeOK, Touches
  <2>7. ASSUME NEW b \in Bufs
        PROVE  d[b] - Count[b] >=
             (References(current', b) + OwedBy(workers'[w], b) + Last(last_show_frame', b))
             - (References(current, b) + OwedBy(workers[w], b) + Last(last_show_frame, b))
    <3>1. Count[b] \in Nat /\ References(current, b) \in Nat /\ current' = current
      BY <1>1, <1>2, CountsCover
    <3>2. Last(last_show_frame', b) = IF workers[w].new_fb_idx = b THEN 1 ELSE 0
      BY <2>1 DEF Last
    <3>3. /\ OwedBy(workers'[w], b) = 0
          /\ OwedBy(workers[w], b) = IF workers[w].new_fb_idx = b THEN 1 ELSE 0
      BY <1>5, <1>6
    <3>4. d[b] = Count[b] - Last(last_show_frame, b) /\ Last(last_show_frame, b) \in {0, 1}
      BY <2>3 DEF Last
    <3> QED
      BY <3>1, <3>2, <3>3, <3>4
  <2>8. CountInv'
    BY <1>1, <1>2, <2>3, <2>4, <2>7, CountsKept
  <2> QED
    BY <2>4, <2>6, <2>8
<1>7. CASE ~shown
  <2>1. UNCHANGED <<bufVars, last_show_frame>>
    BY <1>2, <1>7
  <2>2. FramesTypeOK'
    BY <1>1, <1>2, <2>1 DEF FramesTypeOK, Touches, bufVars
  <2>3. \A b \in Bufs : OwedBy(workers'[w], b) <= OwedBy(workers[w], b)
    BY <1>5, <1>7
  <2>4. CountInv'
    BY <1>1, <1>2, <2>1, <2>3, CountsSame DEF bufVars
  <2> QED
    BY <2>1, <2>2, <2>4 DEF bufVars, Holds
<1> QED
  BY <1>6, <1>7

\* The types and the counts are kept when a worker takes a buffer for its
\* frame.
LEMMA StartCounts ==
  ASSUME FramesInv, NEW w \in Ids, Start(w), NEW b, b = FreeFb(pool)
  PROVE  /\ b \in Bufs /\ Count[b] = 0
         /\ FramesTypeOK' /\ CountInv'
<1>1. FramesTypeOK /\ CountInv /\ FrameInv(w)
  BY DEF FramesInv
<1>2. Count \in Counts /\ pool = PoolOf(Count)
  BY <1>1, CountIs
<1>3. /\ FreeBufs(pool) # {} /\ pool' = GetFreeFb(pool)
      /\ workers[w].status = "start"
      /\ b \in Bufs => /\ Touches(w)
                       /\ workers'[w].status = "header"
                       /\ workers'[w].new_fb_idx = b
                       /\ ~workers'[w].hold_ref_buf
      /\ owner' = [owner EXCEPT ![b] = w]
      /\ row' = [row EXCEPT ![b] = NotReady]
      /\ UNCHANGED <<corrupted, ctlVars, current>>
  BY <1>1, StartIs
<1> DEFINE d == [Count EXCEPT ![b] = 1]
<1>4. b \in Bufs /\ Count[b] = 0 /\ pool' = PoolOf(d)
  <2>1. FreeBufs(PoolOf(Count)) # {} /\ b = FreeFb(PoolOf(Count))
    BY <1>2, <1>3
  <2>2. b \in Bufs /\ Count[b] = 0 /\ GetFreeFb(PoolOf(Count)) = PoolOf(d)
    BY <1>2, <2>1, GetFreeFbIs
  <2> QED
    BY <1>2, <1>3, <2>2
<1>5. /\ d \in Counts
      /\ \A x \in Bufs : d[x] = Count[x] + IF x = b THEN 1 ELSE 0
  BY <1>2, <1>4 DEF Counts
<1> HIDE DEF d
<1>6. FramesTypeOK'
  <2>1. pool' \in Pools
    BY <1>4, <1>5, PoolOfIs
  <2>2. row' \in [Bufs -> PixelRows] /\ owner' \in [Bufs -> Ids]
    BY <1>1, <1>3, RowsAre DEF FramesTypeOK
  <2> QED
    BY <1>1, <1>3, <1>4, <2>1, <2>2 DEF FramesTypeOK, Touches, ctlVars
<1>7. ASSUME NEW x \in Bufs
      PROVE  d[x] - Count[x] >=
             (References(current', x) + OwedBy(workers'[w], x) + Last(last_show_frame', x))
             - (References(current, x) + OwedBy(workers[w], x) + Last(last_show_frame, x))
  <2>1. /\ Count[x] \in Nat /\ References(current, x) \in Nat
        /\ Last(last_show_frame, x) \in {0, 1}
        /\ current' = current /\ last_show_frame' = last_show_frame
    BY <1>1, <1>3, CountsCover DEF ctlVars
  <2>2. ~workers[w].hold_ref_buf /\ ~Occupies(workers[w])
    BY <1>1, <1>3 DEF FrameInv, Decoding, Following, Occupies
  <2>3. OwedBy(workers[w], x) = 0
    BY <2>2, FrameDebt
  <2>4. OwedBy(workers'[w], x) = 0 \/ (OwedBy(workers'[w], x) = 1 /\ x = b)
    BY <1>3, <1>4, FrameDebt
  <2>5. d[x] = Count[x] + IF x = b THEN 1 ELSE 0
    BY <1>5
  <2> QED
    BY <2>1, <2>3, <2>4, <2>5
<1>8. CountInv'
  BY <1>1, <1>3, <1>4, <1>5, <1>7, CountsKept
<1> QED
  BY <1>4, <1>6, <1>8

\* The types and the counts are kept when a header is read and the next worker
\* may go on.
LEMMA HeaderReadCounts ==
  ASSUME FramesInv, NEW w \in Ids, NEW ref \in BufIdx, NEW refresh \in SUBSET Slots,
         NEW show \in BOOLEAN, NEW filter \in BOOLEAN, NEW early \in BOOLEAN,
         ref # INVALID_IDX => ~workers[w].need_resync,
         HeaderRead(w, ref, refresh, show, filter, early)
  PROVE  FramesTypeOK' /\ CountInv'
<1> DEFINE new == workers[w].new_fb_idx
<1>1. FramesTypeOK /\ CountInv /\ FrameInv(w) /\ EarlyInv
  BY DEF FramesInv
<1>2. workers[w].status = "header"
  BY DEF HeaderRead
<1>3. new \in Bufs
  BY <1>1, <1>2 DEF FrameInv
<1>b. ref # INVALID_IDX => ~workers[w].need_resync
  OBVIOUS
<1> DEFINE map == MapRead(w, ref)
<1>c. Reads(w, ref, refresh)
  BY <1>1, <1>3, HeaderReadIs
<1>4. /\ map \in [Slots -> BufIdx]
      /\ Touches(w)
      /\ workers'[w].status = "rows"
      /\ workers'[w].ref_frame_map = map
      /\ workers'[w].refresh_frame_flags = refresh
      /\ workers'[w].hold_ref_buf
      /\ current' = NextRefFrameMap(map, refresh, new)
      /\ current' \in [Slots -> BufIdx]
      /\ workers'[w].new_fb_idx = new
      /\ pool' = TakeHolds(pool, map, refresh, new)
      /\ corrupted' = [corrupted EXCEPT ![new] = FALSE]
      /\ UNCHANGED <<row, owner, ctlVars>>
  BY <1>c DEF Reads
<1>a. map = IF ref = INVALID_IDX /\ workers[w].need_resync
              THEN NoReferences ELSE workers[w].ref_frame_map
  BY DEF MapRead
<1> HIDE DEF map
<1> HIDE DEF new
<1>5. Count \in Counts /\ pool = PoolOf(Count)
  BY <1>1, CountIs
<1> DEFINE d == [b \in Bufs |-> Count[b] + References(map, b)
                                + IF b = new THEN Cardinality(refresh) ELSE 0]
<1>6. pool' = PoolOf(d)
  BY <1>3, <1>4, <1>5, TakeHoldsIs
<1>7. d \in Counts
  <2>1. \A b \in Bufs : References(map, b) \in Nat /\ Count[b] \in Nat
    BY <1>5, ReferencesAre DEF Counts
  <2>2. Cardinality(refresh) \in Nat
    BY SlotsFinite
  <2> QED
    BY <2>1, <2>2 DEF Counts
<1>8. FramesTypeOK'
  <2>1. pool' \in Pools
    BY <1>6, <1>7, PoolOfIs
  <2>2. corrupted' \in [Bufs -> BOOLEAN]
    BY <1>1, <1>4 DEF FramesTypeOK
  <2> QED
    BY <1>1, <1>4, <2>1, <2>2 DEF FramesTypeOK, Touches, ctlVars
<1>9. ASSUME NEW b \in Bufs
      PROVE  d[b] - Count[b] >=
             (References(current', b) + OwedBy(workers'[w], b) + Last(last_show_frame', b))
             - (References(current, b) + OwedBy(workers[w], b) + Last(last_show_frame, b))
  <2>1. /\ Count[b] \in Nat /\ References(current, b) \in Nat
        /\ Last(last_show_frame, b) \in {0, 1}
        /\ last_show_frame' = last_show_frame
    BY <1>1, <1>4, CountsCover DEF ctlVars
  <2>2. /\ References(map, b) \in Nat /\ Replaced(map, refresh, b) \in Nat
        /\ Cardinality(refresh) \in Nat
    BY ReferencesAre, SlotsFinite
  <2>3. References(current', b) =
          References(map, b) - Replaced(map, refresh, b)
          + (IF b = new THEN Cardinality(refresh) ELSE 0)
    BY <1>4, NextReferences
  <2>4. References(map, b) <= References(current, b)
    <3>1. CASE ref = INVALID_IDX /\ workers[w].need_resync
      <4>1. \A s \in Slots : map[s] # b
        BY <1>a, <3>1, BufsAre DEF NoReferences
      <4>2. References(map, b) = 0
        BY <4>1, ReferencesAre
      <4> QED
        BY <2>1, <4>2
    <3>2. CASE ~(ref = INVALID_IDX /\ workers[w].need_resync)
      <4>1. map = workers[w].ref_frame_map /\ ~workers[w].need_resync
        BY <1>a, <1>b, <3>2
      <4>2. map = current
        BY <1>1, <1>2, <4>1 DEF EarlyInv, Early
      <4> QED
        BY <2>1, <4>2
    <3> QED
      BY <3>1, <3>2
  <2>5. OwedBy(workers[w], b) = IF new = b THEN 1 ELSE 0
    <3>1. ~workers[w].hold_ref_buf /\ Occupies(workers[w])
      BY <1>1, <1>2 DEF FrameInv, Decoding, Following, Occupies, Busy
    <3> QED
      BY <3>1, FrameDebt DEF new
  <2>6. OwedBy(workers'[w], b) = References(map, b) + Replaced(map, refresh, b)
                                 + IF new = b THEN 1 ELSE 0
    <3>1. Occupies(workers'[w])
      BY <1>4 DEF Occupies, Busy
    <3> QED
      BY <1>4, <3>1 DEF OwedBy
  <2>7. d[b] = Count[b] + References(map, b)
               + IF b = new THEN Cardinality(refresh) ELSE 0
    OBVIOUS
  <2> HIDE DEF d
  <2> QED
    BY <2>1, <2>2, <2>3, <2>4, <2>5, <2>6, <2>7
<1> HIDE DEF d
<1>10. CountInv'
  BY <1>1, <1>4, <1>6, <1>7, <1>9, CountsKept
<1> QED
  BY <1>8, <1>10

\* The steps that drop references.
PoolKept == \A b \in Bufs : Count'[b] # 0 => Holds(b)

\* A step that changes the counts by what it changes of the debts keeps them
\* covered.
LEMMA PoolStep ==
  ASSUME FramesTypeOK, CountInv, NEW w \in Ids, Touches(w),
         NEW d \in Counts, PoolBecomes(PoolOf(d)), UNCHANGED <<ctlVars, current>>,
         \A b \in Bufs :
           d[b] - Count[b] >= OwedBy(workers'[w], b) - OwedBy(workers[w], b)
  PROVE  FramesTypeOK' /\ CountInv' /\ PoolKept
<1>1. /\ pool' = PoolOf(d) /\ Count' = d /\ pool' \in Pools
      /\ row' \in [Bufs -> PixelRows] /\ corrupted' \in [Bufs -> BOOLEAN]
      /\ owner' \in [Bufs -> Ids]
      /\ \A b \in Bufs : d[b] # 0 => Holds(b)
  BY PoolBecomesIs
<1>2. FramesTypeOK'
  BY <1>1 DEF FramesTypeOK, Touches, ctlVars
<1>3. ASSUME NEW b \in Bufs
      PROVE  d[b] - Count[b] >=
             (References(current', b) + OwedBy(workers'[w], b) + Last(last_show_frame', b))
             - (References(current, b) + OwedBy(workers[w], b) + Last(last_show_frame, b))
  <2>1. /\ Count[b] \in Nat /\ References(current, b) \in Nat
        /\ Last(last_show_frame, b) \in {0, 1} /\ OwedBy(workers[w], b) \in Nat
        /\ current' = current /\ last_show_frame' = last_show_frame
    BY CountsCover DEF ctlVars
  <2>2. OwedBy(workers'[w], b) \in Nat
    BY OwedStep
  <2>3. d[b] - Count[b] >= OwedBy(workers'[w], b) - OwedBy(workers[w], b)
        /\ d[b] \in Nat
    BY DEF Counts
  <2> QED
    BY <2>1, <2>2, <2>3
<1>4. CountInv'
  BY <1>1, <1>3, CountsKept
<1> QED
  BY <1>1, <1>2, <1>4 DEF PoolKept

\* The types and the counts are kept when a header shows a buffer that is
\* decoded already.
LEMMA ShowExistingCounts ==
  ASSUME FramesInv, NEW w \in Ids, NEW s \in Slots, ShowExisting(w, s)
  PROVE  FramesTypeOK' /\ CountInv' /\ PoolKept
<1> DEFINE old == workers[w].new_fb_idx
           new == workers[w].ref_frame_map[s]
           d == [b \in Bufs |-> Count[b] - (IF b = old THEN 1 ELSE 0)
                                + (IF b = new THEN 1 ELSE 0)]
<1>1. FramesTypeOK /\ CountInv /\ FrameInv(w)
  BY DEF FramesInv
<1>2. /\ new \in Bufs /\ Count[new] > 0 /\ Touches(w)
      /\ workers[w].status = "header" /\ workers'[w].status = "swapped"
      /\ workers'[w].new_fb_idx = new
      /\ workers'[w].hold_ref_buf = workers[w].hold_ref_buf
      /\ PoolBecomes(RefCntFb(pool, old, new))
      /\ UNCHANGED <<ctlVars, current>>
  BY <1>1, ShowExistingIs
<1>3. old \in Bufs /\ ~workers[w].hold_ref_buf
  BY <1>1, <1>2 DEF FrameInv, Decoding, Following
<1> HIDE DEF new
<1>4. Count \in Counts /\ pool = PoolOf(Count)
  BY <1>1, CountIs
<1>5. ASSUME NEW b
      PROVE  /\ OwedBy(workers[w], b) = IF old = b THEN 1 ELSE 0
             /\ OwedBy(workers'[w], b) = IF new = b THEN 1 ELSE 0
  <2>1. Occupies(workers[w]) /\ Occupies(workers'[w])
    BY <1>2 DEF Occupies, Busy
  <2> QED
    BY <1>2, <1>3, <2>1, FrameDebt
<1>6. Count[old] > 0
  BY <1>1, <1>3, <1>5, CountsCover
<1> HIDE DEF old
<1>7. d \in Counts
  <2>1. \A b \in Bufs : Count[b] \in Nat /\ (b = old => Count[b] > 0)
    BY <1>4, <1>6 DEF Counts
  <2> QED
    BY <2>1 DEF Counts
<1>8. PoolBecomes(PoolOf(d))
  <2>1. RefCntFb(PoolOf(Count), old, new) = PoolOf(d)
    BY <1>2, <1>3, <1>4, <1>6, RefCntFbIs
  <2> QED
    BY <1>2, <1>4, <2>1
<1>9. ASSUME NEW b \in Bufs
      PROVE  d[b] - Count[b] >= OwedBy(workers'[w], b) - OwedBy(workers[w], b)
  BY <1>4, <1>5 DEF Counts
<1> HIDE DEF d
<1> QED
  BY <1>1, <1>2, <1>7, <1>8, <1>9, PoolStep

\* The types and the counts are kept when a worker looks at the row of its
\* reference.
LEMMA WaitCounts ==
  ASSUME FramesInv, NEW w \in Ids, NEW y1 \in PredRows \cup {0},
         workers[w].status \in {"rows", "woken"}, FrameworkerWait(w, y1)
  PROVE  FramesTypeOK' /\ CountInv'
<1>1. FramesTypeOK /\ CountInv
  BY DEF FramesInv
<1>2. /\ Touches(w) /\ workers'[w].status \in {"predict", "asleep"}
      /\ SameMaps(w) /\ SameFrame(w)
      /\ UNCHANGED <<bufVars, ctlVars, current>>
  BY <1>1, FrameworkerWaitIs
<1>3. FramesTypeOK'
  BY <1>1, <1>2 DEF FramesTypeOK, Touches, bufVars, ctlVars
<1>4. Occupies(workers'[w]) <=> Occupies(workers[w])
  BY <1>2 DEF Occupies, Busy
<1>5. ASSUME NEW b \in Bufs
      PROVE  OwedBy(workers'[w], b) <= OwedBy(workers[w], b)
  <2>1. OwedBy(workers'[w], b) = OwedBy(workers[w], b)
    BY <1>2, <1>4, SameDebt
  <2> QED
    BY <1>1, <2>1, CountsCover
<1>6. CountInv'
  BY <1>1, <1>2, <1>5, CountsSame DEF bufVars, ctlVars
<1> QED
  BY <1>3, <1>6

\* The types and the counts are kept when a row of superblocks is decoded, and
\* told of.
LEMMA DecodeRowCounts ==
  ASSUME FramesInv, NEW w \in Ids, DecodeRow(w)
  PROVE  FramesTypeOK' /\ CountInv'
<1>1. FramesTypeOK /\ CountInv /\ FrameInv(w)
  BY DEF FramesInv
<1>2. workers[w].status = "predict" => workers[w].sbRow < SbRows
  BY <1>1 DEF FrameInv, Following
<1>3. Decodes(w)
  BY <1>1, <1>2, DecodeRowIs
<1>4. workers[w].sbRow * SbSize \in PixelRows
  BY <1>1, RowsAre DEF FramesTypeOK, Worker
<1>5. row' \in [Bufs -> PixelRows]
  BY <1>1, <1>3, <1>4 DEF FramesTypeOK, Decodes
<1>b. Touches(w) /\ UNCHANGED <<pool, corrupted, owner, ctlVars, current>>
  BY <1>3 DEF Decodes
<1>6. FramesTypeOK'
  BY <1>1, <1>b, <1>5 DEF FramesTypeOK, Touches, ctlVars
<1>7. Occupies(workers'[w]) <=> Occupies(workers[w])
  BY <1>3 DEF Decodes, Occupies, Busy
<1>8. ASSUME NEW b \in Bufs
      PROVE  OwedBy(workers'[w], b) <= OwedBy(workers[w], b)
  <2>1. OwedBy(workers'[w], b) = OwedBy(workers[w], b)
    BY <1>3, <1>7, SameDebt DEF Decodes
  <2> QED
    BY <1>1, <2>1, CountsCover
<1>9. CountInv'
  BY <1>1, <1>b, <1>8, CountsSame DEF ctlVars
<1> QED
  BY <1>6, <1>9

\* The types and the counts are kept when the last rows are told of.
LEMMA LastRowsCounts ==
  ASSUME FramesInv, NEW w \in Ids, LastRows(w)
  PROVE  FramesTypeOK' /\ CountInv'
<1>1. FramesTypeOK /\ CountInv
  BY DEF FramesInv
<1>2. /\ Touches(w)
      /\ workers[w].status = "rows" /\ workers'[w].status = "decoded"
      /\ SameMaps(w) /\ SameFrame(w)
      /\ row' = [row EXCEPT ![workers[w].cur_buf] = INT_MAX]
      /\ UNCHANGED <<pool, corrupted, owner, ctlVars, current>>
  BY <1>1, LastRowsIs
<1>3. row' \in [Bufs -> PixelRows]
  BY <1>1, <1>2, RowsAre DEF FramesTypeOK
<1>4. FramesTypeOK'
  BY <1>1, <1>2, <1>3 DEF FramesTypeOK, Touches, ctlVars
<1>5. Occupies(workers'[w]) <=> Occupies(workers[w])
  BY <1>2 DEF Occupies, Busy
<1>6. ASSUME NEW b \in Bufs
      PROVE  OwedBy(workers'[w], b) <= OwedBy(workers[w], b)
  <2>1. OwedBy(workers'[w], b) = OwedBy(workers[w], b)
    BY <1>2, <1>5, SameDebt
  <2> QED
    BY <1>1, <2>1, CountsCover
<1>7. CountInv'
  BY <1>1, <1>2, <1>6, CountsSame DEF ctlVars
<1> QED
  BY <1>4, <1>7

\* The types and the counts are kept when swap_frame_buffers() replaces what
\* the frame refreshes.
LEMMA SwapCounts ==
  ASSUME FramesInv, NEW w \in Ids, SwapFrameBuffers(w)
  PROVE  FramesTypeOK' /\ CountInv' /\ PoolKept
<1> DEFINE map == workers[w].ref_frame_map
           refresh == workers[w].refresh_frame_flags
           d == [b \in Bufs |-> Count[b] - (References(map, b)
                                            + Replaced(map, refresh, b))]
<1>1. FramesTypeOK /\ CountInv /\ FrameInv(w)
  BY DEF FramesInv
<1>2. /\ Touches(w)
      /\ workers[w].status = "decoded" /\ workers'[w].status = "swapped"
      /\ ~workers'[w].hold_ref_buf
      /\ workers'[w].new_fb_idx = workers[w].new_fb_idx
      /\ PoolBecomes(DropHolds(pool, map, refresh))
      /\ UNCHANGED <<ctlVars, current>>
  BY <1>1, SwapIs DEF SameFrame
<1>3. workers[w].hold_ref_buf /\ refresh \in SUBSET Slots
  BY <1>1, <1>2 DEF FrameInv, Decoding, FramesTypeOK, Worker
<1>4. Count \in Counts /\ pool = PoolOf(Count)
  BY <1>1, CountIs
<1>5. ASSUME NEW b
      PROVE  /\ OwedBy(workers[w], b) = References(map, b) + Replaced(map, refresh, b)
                  + IF workers[w].new_fb_idx = b THEN 1 ELSE 0
             /\ OwedBy(workers'[w], b) = IF workers[w].new_fb_idx = b THEN 1 ELSE 0
             /\ References(map, b) \in Nat /\ Replaced(map, refresh, b) \in Nat
  <2>1. Occupies(workers[w]) /\ Occupies(workers'[w])
    BY <1>2 DEF Occupies, Busy
  <2>2. References(map, b) \in Nat /\ Replaced(map, refresh, b) \in Nat
    BY <1>3, ReferencesAre
  <2>3. OwedBy(workers[w], b) = References(map, b) + Replaced(map, refresh, b)
                                + IF workers[w].new_fb_idx = b THEN 1 ELSE 0
    BY <1>3, <2>1 DEF OwedBy
  <2>4. OwedBy(workers'[w], b) = IF workers[w].new_fb_idx = b THEN 1 ELSE 0
    BY <1>2, <2>1, FrameDebt
  <2> QED
    BY <2>2, <2>3, <2>4
<1> HIDE DEF map, refresh
<1>6. ASSUME NEW b \in Bufs
      PROVE  /\ d[b] \in Nat
             /\ d[b] - Count[b] >= OwedBy(workers'[w], b) - OwedBy(workers[w], b)
  <2>1. /\ Count[b] \in Nat /\ References(current, b) \in Nat
        /\ Last(last_show_frame, b) \in {0, 1}
        /\ Count[b] >= References(current, b) + OwedBy(workers[w], b)
                       + Last(last_show_frame, b)
    BY <1>1, CountsCover
  <2>2. d[b] = Count[b] - (References(map, b) + Replaced(map, refresh, b))
    OBVIOUS
  <2> HIDE DEF d
  <2> QED
    BY <1>5, <2>1, <2>2
<1>7. d \in Counts
  BY <1>6 DEF Counts
<1>8. DropHolds(PoolOf(Count), map, refresh) = PoolOf(d)
  BY <1>3, <1>4, DropHoldsIs
<1> HIDE DEF d
<1>9. PoolBecomes(PoolOf(d))
  BY <1>2, <1>4, <1>8
<1> QED
  BY <1>1, <1>2, <1>6, <1>7, <1>9, PoolStep

\* The types and the counts are kept when the frame is complete.
LEMMA FinishCounts ==
  ASSUME FramesInv, NEW w \in Ids, Finish(w)
  PROVE  FramesTypeOK' /\ CountInv' /\ PoolKept
<1> DEFINE new == workers[w].new_fb_idx
           shown == workers[w].show_frame
           d == IF shown THEN Count ELSE [Count EXCEPT ![new] = @ - 1]
<1>1. FramesTypeOK /\ CountInv /\ FrameInv(w)
  BY DEF FramesInv
<1>2. /\ Touches(w)
      /\ workers[w].status = "swapped" /\ workers'[w].status = "idle"
      /\ workers'[w].new_fb_idx = IF shown THEN new ELSE INVALID_IDX
      /\ workers'[w].show_frame = shown
      /\ ~workers'[w].hold_ref_buf
      /\ PoolBecomes(IF shown THEN pool
                     ELSE [pool EXCEPT !.ref_count[new] = @ - 1])
      /\ UNCHANGED <<ctlVars, current>>
  BY <1>1, FinishIs
<1>3. ~workers[w].hold_ref_buf /\ new \in Bufs
  BY <1>1, <1>2 DEF FrameInv, Decoding, Following
<1>4. Count \in Counts /\ pool = PoolOf(Count) /\ pool.ref_count = Count
  BY <1>1, CountIs DEF Count
<1>5. ASSUME NEW b
      PROVE  /\ OwedBy(workers[w], b) = IF new = b THEN 1 ELSE 0
             /\ OwedBy(workers'[w], b) \in Nat
             /\ OwedBy(workers'[w], b) <= IF shown /\ new = b THEN 1 ELSE 0
  <2>1. Occupies(workers[w])
    BY <1>2 DEF Occupies, Busy
  <2>2. Occupies(workers'[w]) => shown
    BY <1>2 DEF Occupies, Busy
  <2>3. OwedBy(workers[w], b) = IF new = b THEN 1 ELSE 0
    BY <1>3, <2>1, FrameDebt
  <2>4. OwedBy(workers'[w], b) =
          IF Occupies(workers'[w]) /\ workers'[w].new_fb_idx = b THEN 1 ELSE 0
    BY <1>2, FrameDebt
  <2> QED
    BY <1>2, <2>2, <2>3, <2>4
<1>6. Count[new] > 0
  BY <1>1, <1>3, <1>5, CountsCover
<1> HIDE DEF new, shown
<1>7. PoolBecomes(PoolOf(d)) /\ d \in Counts
      /\ \A b \in Bufs : d[b] = Count[b] - IF ~shown /\ new = b THEN 1 ELSE 0
  <2>1. CASE shown
    BY <1>2, <1>4, <2>1 DEF Counts
  <2>2. CASE ~shown
    <3>1. [PoolOf(Count) EXCEPT !.ref_count[new] = PoolOf(Count).ref_count[new] - 1]
            = PoolOf(d)
      BY <1>3, <1>4, <2>2, PoolWithCount, PoolOfIs
    <3>2. PoolBecomes([PoolOf(Count) EXCEPT !.ref_count[new] = PoolOf(Count).ref_count[new] - 1])
      BY <1>2, <1>4, <2>2
    <3> QED
      BY <1>3, <1>4, <1>6, <2>2, <3>1, <3>2 DEF Counts
  <2> QED
    BY <2>1, <2>2
<1> HIDE DEF d
<1>8. ASSUME NEW b \in Bufs
      PROVE  d[b] - Count[b] >= OwedBy(workers'[w], b) - OwedBy(workers[w], b)
  <2>1. Count[b] \in Nat
    BY <1>4 DEF Counts
  <2> QED
    BY <1>5, <1>7, <2>1
<1> QED
  BY <1>1, <1>2, <1>7, <1>8, PoolStep

\* The types and the counts are kept when vpx_internal_error() leaves the
\* decoder.
LEMMA FailCounts ==
  ASSUME FramesInv, NEW w \in Ids, Fail(w)
  PROVE  FramesTypeOK' /\ CountInv' /\ PoolKept
<1> DEFINE map == workers[w].ref_frame_map
           refresh == workers[w].refresh_frame_flags
           held == workers[w].hold_ref_buf
           new == workers[w].new_fb_idx
           holds(b) == IF held THEN References(map, b) + Replaced(map, refresh, b)
                       ELSE 0
           freed == [b \in Bufs |-> Count[b] - holds(b)]
           d == [freed EXCEPT ![new] = @ - 1]
<1>1. FramesTypeOK /\ CountInv /\ FrameInv(w)
  BY DEF FramesInv
<1>2. /\ Touches(w)
      /\ workers[w].status \in {"header", "rows", "woken"}
      /\ workers'[w].status = "failed"
      /\ ~workers'[w].hold_ref_buf
      /\ PoolBecomes(DecreaseRefCount(
           IF held THEN DropHolds(pool, map, refresh) ELSE pool, new, 1))
      /\ UNCHANGED <<ctlVars, current>>
  BY <1>1, FailIs
<1>3. new \in Bufs /\ refresh \in SUBSET Slots
  BY <1>1, <1>2 DEF FrameInv, Decoding, Following, FramesTypeOK, Worker
<1>4. Count \in Counts /\ pool = PoolOf(Count)
  BY <1>1, CountIs
<1>5. ASSUME NEW b
      PROVE  /\ OwedBy(workers[w], b) = holds(b) + IF new = b THEN 1 ELSE 0
             /\ OwedBy(workers'[w], b) = 0
             /\ holds(b) \in Nat
  <2>1. Occupies(workers[w]) /\ ~Occupies(workers'[w])
    BY <1>2 DEF Occupies, Busy
  <2>2. References(map, b) \in Nat /\ Replaced(map, refresh, b) \in Nat
    BY <1>3, ReferencesAre
  <2>3. OwedBy(workers[w], b) = holds(b) + IF new = b THEN 1 ELSE 0
    BY <2>1 DEF OwedBy
  <2>4. OwedBy(workers'[w], b) = 0
    BY <1>2, <2>1, FrameDebt
  <2> QED
    BY <2>2, <2>3, <2>4
<1>6. ASSUME NEW b \in Bufs
      PROVE  /\ Count[b] \in Nat
             /\ freed[b] = Count[b] - holds(b)
             /\ freed[b] \in Nat /\ (b = new => freed[b] > 0)
  <2>1. /\ Count[b] \in Nat /\ References(current, b) \in Nat
        /\ Last(last_show_frame, b) \in {0, 1}
        /\ Count[b] >= References(current, b) + OwedBy(workers[w], b)
                       + Last(last_show_frame, b)
    BY <1>1, CountsCover
  <2>2. freed[b] = Count[b] - holds(b)
    OBVIOUS
  <2>3. holds(b) \in Nat /\ OwedBy(workers[w], b) = holds(b) + IF new = b THEN 1 ELSE 0
    BY <1>5
  <2> HIDE DEF freed, holds
  <2> QED
    BY <2>1, <2>2, <2>3
<1>7. freed \in Counts
  BY <1>6 DEF Counts
<1>8. (IF held THEN DropHolds(pool, map, refresh) ELSE pool) = PoolOf(freed)
  <2>1. CASE held
    <3>1. freed = [b \in Bufs |-> Count[b] - (References(map, b)
                                              + Replaced(map, refresh, b))]
      BY <2>1
    <3>2. DropHolds(PoolOf(Count), map, refresh) = PoolOf(freed)
      BY <1>3, <1>4, <3>1, DropHoldsIs
    <3> QED
      BY <1>4, <2>1, <3>2
  <2>2. CASE ~held
    <3>1. freed = Count
      BY <1>4, <2>2 DEF Counts
    <3> QED
      BY <1>4, <2>2, <3>1
  <2> QED
    BY <2>1, <2>2
<1> HIDE DEF freed, holds, map, refresh, held, new
<1>9. /\ DecreaseRefCount(PoolOf(freed), new, 1) = PoolOf(d)
      /\ d \in Counts
      /\ \A b \in Bufs : d[b] = freed[b] - IF new = b THEN 1 ELSE 0
  <2>1. freed[new] > 0
    BY <1>3, <1>6
  <2>2. DecreaseRefCount(PoolOf(freed), new, 1) = PoolOf(d)
    BY <1>3, <1>7, <2>1, DecreaseIs
  <2>3. d \in Counts /\ \A b \in Bufs : d[b] = freed[b] - IF new = b THEN 1 ELSE 0
    BY <1>3, <1>7, <2>1 DEF Counts
  <2> QED
    BY <2>2, <2>3
<1> HIDE DEF d
<1>10. PoolBecomes(PoolOf(d))
  BY <1>2, <1>8, <1>9
<1>11. ASSUME NEW b \in Bufs
       PROVE  d[b] - Count[b] >= OwedBy(workers'[w], b) - OwedBy(workers[w], b)
  <2>1. d[b] = freed[b] - (IF new = b THEN 1 ELSE 0)
    BY <1>9
  <2>2. Count[b] \in Nat /\ freed[b] = Count[b] - holds(b)
    BY <1>6
  <2>3. /\ OwedBy(workers[w], b) = holds(b) + (IF new = b THEN 1 ELSE 0)
        /\ OwedBy(workers'[w], b) = 0 /\ holds(b) \in Nat
    BY <1>5
  <2> QED
    BY <2>1, <2>2, <2>3
<1> QED
  BY <1>1, <1>2, <1>9, <1>10, <1>11, PoolStep

\* The types and the counts are kept when the hook marks the buffer of the
\* frame that failed.
LEMMA HookFailsCounts ==
  ASSUME FramesInv, NEW w \in Ids, HookFails(w)
  PROVE  FramesTypeOK' /\ CountInv'
<1>1. FramesTypeOK /\ CountInv /\ FrameInv(w)
  BY DEF FramesInv
<1>2. /\ Touches(w)
      /\ workers[w].status = "failed" /\ workers'[w].status = "idle"
      /\ ~workers'[w].hold_ref_buf /\ ~workers'[w].show_frame
      /\ corrupted' = [corrupted EXCEPT ![workers[w].cur_buf] = TRUE]
      /\ UNCHANGED <<pool, row, owner, ctlVars, current>>
  BY <1>1, HookFailsIs
<1>3. corrupted' \in [Bufs -> BOOLEAN]
  BY <1>1, <1>2 DEF FramesTypeOK
<1>4. FramesTypeOK'
  BY <1>1, <1>2, <1>3 DEF FramesTypeOK, Touches, ctlVars
<1>5. ASSUME NEW b \in Bufs
      PROVE  OwedBy(workers'[w], b) <= OwedBy(workers[w], b)
  <2>1. ~Occupies(workers'[w])
    BY <1>2 DEF Occupies, Busy
  <2>2. OwedBy(workers'[w], b) = 0
    BY <1>2, <2>1, FrameDebt
  <2> QED
    BY <1>1, <2>2, CountsCover
<1>6. CountInv'
  BY <1>1, <1>2, <1>5, CountsSame DEF ctlVars
<1> QED
  BY <1>4, <1>6

-----------------------------------------------------------------------------
(* Steps that leave every buffer alone that somebody may still read *)

\* A buffer that anything names is owed.
LEMMA HeldBufs ==
  ASSUME NEW ws \in [Ids -> Worker], NEW cur, NEW b,
         \/ \E s \in Slots : cur[s] = b
         \/ \E w \in Ids, s \in Slots : /\ ws[w].hold_ref_buf
                                        /\ ws[w].ref_frame_map[s] = b
         \/ \E w \in Ids : Occupies(ws[w]) /\ ws[w].new_fb_idx = b
  PROVE  /\ References(cur, b) \in Nat /\ OwedTo(ws, Ids, b) \in Nat
         /\ References(cur, b) + OwedTo(ws, Ids, b) > 0
<1>1. References(cur, b) \in Nat /\ \A w \in Ids : References(ws[w].ref_frame_map, b) \in Nat
  BY ReferencesAre
<1>2. ASSUME NEW w \in Ids
      PROVE  /\ OwedBy(ws[w], b) \in Nat /\ OwedTo(ws, Ids, b) \in Nat
             /\ OwedTo(ws, Ids, b) >= OwedBy(ws[w], b)
  <2> DEFINE n == OwedTo(ws, Ids \ {w}, b)
  <2>1. /\ n \in Nat /\ OwedBy(ws[w], b) \in Nat
        /\ OwedTo(ws, Ids, b) = n + OwedBy(ws[w], b)
    BY OwedToIs
  <2> HIDE DEF n
  <2> QED
    BY <2>1
<1>3. OwedTo(ws, Ids, b) \in Nat
  BY <1>2, IdsFinite
<1>4. CASE \E s \in Slots : cur[s] = b
  <2>1. References(cur, b) # 0
    BY <1>4, ReferencesAre
  <2> QED
    BY <1>1, <1>3, <2>1
<1>5. CASE \E w \in Ids, s \in Slots : ws[w].hold_ref_buf /\ ws[w].ref_frame_map[s] = b
  <2>1. PICK w \in Ids, s \in Slots : ws[w].hold_ref_buf /\ ws[w].ref_frame_map[s] = b
    BY <1>5
  <2>2. References(ws[w].ref_frame_map, b) # 0
    BY <2>1, ReferencesAre
  <2>3. /\ Replaced(ws[w].ref_frame_map, ws[w].refresh_frame_flags, b) \in Nat
        /\ References(ws[w].ref_frame_map, b) \in Nat
    <3>1. ws[w].refresh_frame_flags \in SUBSET Slots
      BY DEF Worker
    <3> QED
      BY <3>1, ReferencesAre
  <2>4. OwedBy(ws[w], b) > 0
    BY <2>1, <2>2, <2>3 DEF OwedBy
  <2> QED
    BY <1>1, <1>2, <2>4
<1>6. CASE \E w \in Ids : Occupies(ws[w]) /\ ws[w].new_fb_idx = b
  <2>1. PICK w \in Ids : Occupies(ws[w]) /\ ws[w].new_fb_idx = b
    BY <1>6
  <2>2. /\ Replaced(ws[w].ref_frame_map, ws[w].refresh_frame_flags, b) \in Nat
        /\ References(ws[w].ref_frame_map, b) \in Nat
    <3>1. ws[w].refresh_frame_flags \in SUBSET Slots
      BY DEF Worker
    <3> QED
      BY <3>1, ReferencesAre
  <2>3. OwedBy(ws[w], b) > 0
    BY <2>1, <2>2 DEF OwedBy
  <2> QED
    BY <1>1, <1>2, <2>3
<1> QED
  BY <1>4, <1>5, <1>6

Occupied(b) == \E w \in Ids : Occupies(workers[w]) /\ workers[w].new_fb_idx = b

\* A buffer that is named, or that a frame is in, is counted ...
LEMMA CountedNow ==
  ASSUME FramesTypeOK, CountInv, NEW b \in Bufs, Named(b) \/ Occupied(b)
  PROVE  Count[b] # 0
<1>1. workers \in [Ids -> Worker]
  BY DEF FramesTypeOK
<1>2. /\ References(current, b) \in Nat /\ OwedTo(workers, Ids, b) \in Nat
      /\ References(current, b) + OwedTo(workers, Ids, b) > 0
  <2>1. \/ \E s \in Slots : current[s] = b
        \/ \E w \in Ids, s \in Slots : /\ workers[w].hold_ref_buf
                                       /\ workers[w].ref_frame_map[s] = b
        \/ \E w \in Ids : Occupies(workers[w]) /\ workers[w].new_fb_idx = b
    BY DEF Named, Occupied
  <2> QED
    BY <1>1, <2>1, HeldBufs
<1>3. pool.ref_count[b] >= Owed(b)
  BY DEF CountInv
<1>4. Owed(b) = References(current, b) + OwedTo(workers, Ids, b)
                + Last(last_show_frame, b)
  BY DEF Owed, Last
<1>5. Last(last_show_frame, b) \in {0, 1}
  BY DEF Last
<1> QED
  BY <1>2, <1>3, <1>4, <1>5 DEF Count

\* ... and still is after a step.
LEMMA CountedThen ==
  ASSUME FramesTypeOK', CountInv', NEW b \in Bufs, Named(b)' \/ Occupied(b)'
  PROVE  Count'[b] # 0
<1>1. workers' \in [Ids -> Worker]
  BY DEF FramesTypeOK
<1>2. /\ References(current', b) \in Nat /\ OwedTo(workers', Ids, b) \in Nat
      /\ References(current', b) + OwedTo(workers', Ids, b) > 0
  <2>1. \/ \E s \in Slots : current'[s] = b
        \/ \E w \in Ids, s \in Slots : /\ workers'[w].hold_ref_buf
                                       /\ workers'[w].ref_frame_map[s] = b
        \/ \E w \in Ids : Occupies(workers'[w]) /\ workers'[w].new_fb_idx = b
    BY DEF Named, Occupied
  <2> QED
    BY <1>1, <2>1, HeldBufs
<1>3. pool'.ref_count[b] >= Owed(b)'
  BY DEF CountInv
<1>4. Owed(b)' = References(current', b) + OwedTo(workers', Ids, b)
                 + Last(last_show_frame', b)
  BY DEF Owed, Last
<1>5. Last(last_show_frame', b) \in {0, 1}
  BY DEF Last
<1> QED
  BY <1>2, <1>3, <1>4, <1>5 DEF Count

\* Buffers a frame may read, and those of other workers' frames.
Kept(w) ==
  \A b \in Bufs :
    Named(b)' \/ (\E v \in Ids \ {w} : Occupies(workers[v]) /\ workers[v].new_fb_idx = b)
    => Holds(b)

NamedLess == \A b \in Bufs : Named(b)' => Named(b)

\* A step of one worker leaves the frames of the others in their buffers.
LEMMA OthersOccupy ==
  ASSUME NEW w \in Ids, Touches(w), NEW v \in Ids \ {w}, Occupies(workers[v])
  PROVE  Occupies(workers'[v]) /\ workers'[v].new_fb_idx = workers[v].new_fb_idx
BY DEF Touches, Same, SameFrame, Occupies, Busy

\* A step whose counts are covered keeps what is known of the buffers in use.
LEMMA PoolKeptIsKept ==
  ASSUME FramesTypeOK', CountInv', PoolKept, NEW w \in Ids, Touches(w)
  PROVE  Kept(w)
<1> SUFFICES ASSUME NEW b \in Bufs,
                    Named(b)' \/ (\E v \in Ids \ {w} :
                      Occupies(workers[v]) /\ workers[v].new_fb_idx = b)
             PROVE  Count'[b] # 0
  BY DEF Kept, PoolKept
<1>1. Named(b)' \/ Occupied(b)'
  BY OthersOccupy DEF Occupied
<1> QED
  BY <1>1, CountedThen

\* Only a header names buffers that were not named.
LEMMA NamesNoMore ==
  ASSUME NEW w \in Ids, Touches(w), current' = current,
         workers'[w].hold_ref_buf =>
           /\ workers[w].hold_ref_buf
           /\ workers'[w].ref_frame_map = workers[w].ref_frame_map
  PROVE  NamedLess
<1> SUFFICES ASSUME NEW b \in Bufs, Named(b)'
             PROVE  Named(b)
  BY DEF NamedLess
<1>1. CASE \E s \in Slots : current'[s] = b
  BY <1>1 DEF Named
<1>2. ASSUME NEW v \in Ids, NEW s \in Slots,
             workers'[v].hold_ref_buf, workers'[v].ref_frame_map[s] = b
      PROVE  workers[v].hold_ref_buf /\ workers[v].ref_frame_map[s] = b
  <2>1. CASE v = w
    BY <1>2, <2>1
  <2>2. CASE v # w
    BY <1>2, <2>2 DEF Touches, Same, SameMaps
  <2> QED
    BY <2>1, <2>2
<1> QED
  BY <1>1, <1>2 DEF Named

\* A step of one worker keeps what is invariant of the frame of another, when
\* it leaves the progress of that frame alone.
LEMMA OtherFrame ==
  ASSUME FramesInv, NEW w \in Ids, Touches(w), NEW v \in Ids \ {w},
         workers[v].status \in Decoding \cup {"header"} =>
           /\ owner'[workers[v].cur_buf] = owner[workers[v].cur_buf]
           /\ row'[workers[v].cur_buf] = row[workers[v].cur_buf],
         NamedLess \/ workers[v].status # "header"
  PROVE  FrameInv(v)' /\ RowInv(v)'
<1>1. FrameInv(v) /\ RowInv(v)
  BY DEF FramesInv
<1>2. Same(v)
  BY DEF Touches
<1>3. /\ workers'[v].ref_frame_map = workers[v].ref_frame_map
      /\ workers'[v].hold_ref_buf = workers[v].hold_ref_buf
      /\ workers'[v].new_fb_idx = workers[v].new_fb_idx
      /\ workers'[v].cur_buf = workers[v].cur_buf
      /\ workers'[v].show_frame = workers[v].show_frame
      /\ workers'[v].filter_level = workers[v].filter_level
      /\ workers'[v].received_frame = workers[v].received_frame
      /\ workers'[v].had_error = workers[v].had_error
      /\ workers'[v].sbRow = workers[v].sbRow
      /\ workers'[v].y1 = workers[v].y1
      /\ workers'[v].ref = workers[v].ref
      /\ \/ workers'[v].status = workers[v].status
         \/ workers[v].status = "asleep" /\ workers'[v].status = "woken"
  BY <1>2 DEF Same, SameMaps, SameFrame, SameRows
<1>4. workers[v].status \in Decoding \cup {"header"} =>
        /\ owner'[workers'[v].cur_buf] = owner[workers[v].cur_buf]
        /\ row'[workers'[v].cur_buf] = row[workers[v].cur_buf]
  BY <1>3
<1>5. workers'[v].status \in Decoding \cup {"header"} <=>
        workers[v].status \in Decoding \cup {"header"}
  BY <1>3 DEF Decoding, Following
<1>6. FrameInv(v)'
  <2>1. workers'[v].hold_ref_buf <=> workers'[v].status \in Decoding
    BY <1>1, <1>3 DEF FrameInv, Decoding, Following
  <2>2. workers'[v].status \in Decoding \cup {"header"} =>
          /\ workers'[v].cur_buf \in Bufs
          /\ workers'[v].new_fb_idx = workers'[v].cur_buf
          /\ owner'[workers'[v].cur_buf] = v
    BY <1>1, <1>3, <1>4, <1>5 DEF FrameInv
  <2>3. /\ workers'[v].status = "swapped" =>
             workers'[v].new_fb_idx \in Bufs /\ workers'[v].cur_buf \in Bufs
        /\ workers'[v].status = "failed" => workers'[v].cur_buf \in Bufs
    BY <1>1, <1>3 DEF FrameInv
  <2>4. v \in Shown' => workers'[v].new_fb_idx \in Bufs
    BY <1>1, <1>3 DEF FrameInv, Shown
  <2>5. workers'[v].status = "header" => ~Named(workers[v].cur_buf)'
    <3>1. workers[v].status = "header" =>
            workers[v].cur_buf \in Bufs /\ ~Named(workers[v].cur_buf)
      BY <1>1 DEF FrameInv
    <3>2. ASSUME workers'[v].status = "header", NEW b, b = workers[v].cur_buf
          PROVE  ~Named(b)'
      BY <1>3, <3>1, <3>2 DEF NamedLess
    <3> QED
      BY <1>3, <3>2
  <2>6. workers'[v].ref # INVALID_IDX =>
          /\ workers'[v].status \in Decoding
          /\ workers'[v].ref # workers'[v].cur_buf
          /\ \E s \in Slots : workers'[v].ref_frame_map[s] = workers'[v].ref
    BY <1>1, <1>3 DEF FrameInv, Decoding, Following
  <2>7. workers'[v].status \in Following \ {"rows"} =>
          /\ workers'[v].ref # INVALID_IDX
          /\ workers'[v].sbRow < SbRows
          /\ workers'[v].y1 \in PredRows
    BY <1>1, <1>3 DEF FrameInv, Following
  <2> QED
    BY <2>1, <2>2, <2>3, <2>4, <2>5, <2>6, <2>7 DEF FrameInv
<1>7. RowInv(v)'
  BY <1>1, <1>3, <1>4 DEF RowInv, Following, Decoding
<1> QED
  BY <1>6, <1>7

\* What a frame reads is named.
LEMMA ReadsNamed ==
  ASSUME FramesInv, NEW v \in Ids, workers[v].ref # INVALID_IDX
  PROVE  workers[v].ref \in Bufs /\ Named(workers[v].ref)
<1>1. /\ workers[v].status \in Decoding
      /\ \E s \in Slots : workers[v].ref_frame_map[s] = workers[v].ref
      /\ workers[v].hold_ref_buf
  BY DEF FramesInv, FrameInv
<1>2. workers[v].ref \in Bufs
  BY DEF FramesInv, FramesTypeOK, Worker, BufIdx
<1> QED
  BY <1>1, <1>2 DEF Named

\* What another worker is predicted from stays named.
LEMMA OthersRead ==
  ASSUME FramesInv, NEW w \in Ids, Touches(w), NEW v \in Ids \ {w},
         workers[v].ref # INVALID_IDX
  PROVE  /\ workers[v].ref \in Bufs /\ Named(workers[v].ref)
         /\ \A b : b = workers[v].ref => Named(b)'
<1>1. workers[v].ref \in Bufs /\ Named(workers[v].ref)
  BY ReadsNamed
<1>2. /\ \E s \in Slots : workers[v].ref_frame_map[s] = workers[v].ref
      /\ workers[v].hold_ref_buf
  BY DEF FramesInv, FrameInv
<1>3. /\ workers'[v].ref_frame_map = workers[v].ref_frame_map
      /\ workers'[v].hold_ref_buf = workers[v].hold_ref_buf
  BY DEF Touches, Same, SameMaps
<1> QED
  BY <1>1, <1>2, <1>3 DEF Named

\* The worker that decodes a reference is left alone, or goes on with it.
GoesOn(w) ==
  /\ \A b \in Bufs : Named(b) /\ workers'[w].cur_buf = b => workers[w].cur_buf = b
  /\ workers[w].status \in Following \cup {"failed"} =>
       /\ workers'[w].status \in Following \cup {"failed"}
       /\ workers'[w].cur_buf = workers[w].cur_buf

\* A step of a worker that goes on ends no frame that another waits for.
LEMMA WorkersGoOn ==
  ASSUME NEW w \in Ids, Touches(w), GoesOn(w), NEW v \in Ids
  PROVE  GoesOn(v)
BY DEF Touches, Same, SameFrame, GoesOn, Following

\* A step that ends no frame, names no more buffers and keeps what its own
\* worker promises keeps what every worker promises.
LEMMA QuietStep ==
  ASSUME FramesInv, FramesTypeOK', NEW w \in Ids, Touches(w), Kept(w), NamedLess,
         GoesOn(w), FrameInv(w)', RowInv(w)', Sleeping(w)', Predicting(w)'
  PROVE  /\ OwnerInv'
         /\ \A v \in Ids : /\ FrameInv(v)' /\ RowInv(v)'
                           /\ Sleeping(v)' /\ Predicting(v)'
<1>1. ASSUME NEW v \in Ids \ {w}
      PROVE  FrameInv(v)' /\ RowInv(v)'
  <2>1. workers[v].status \in Decoding \cup {"header"} =>
          Holds(workers[v].cur_buf)
    <3>1. workers[v].status \in Decoding \cup {"header"} =>
            /\ workers[v].cur_buf \in Bufs
            /\ workers[v].new_fb_idx = workers[v].cur_buf
            /\ Occupies(workers[v])
      BY DEF FramesInv, FrameInv, Decoding, Following, Occupies, Busy
    <3> QED
      BY <3>1 DEF Kept
  <2> QED
    BY <2>1, OtherFrame DEF Holds
<1>2. OwnerInv'
  <2> SUFFICES ASSUME NEW b \in Bufs, Named(b)',
                      workers'[owner'[b]].cur_buf = b
               PROVE  \/ workers'[owner'[b]].status \in Following \cup {"failed"}
                      \/ row'[b] = INT_MAX
                      \/ corrupted'[b]
    BY DEF OwnerInv
  <2>1. Named(b) /\ Holds(b)
    BY DEF NamedLess, Kept
  <2> DEFINE u == owner[b]
  <2>2. u \in Ids /\ owner'[b] = u /\ row'[b] = row[b] /\ corrupted'[b] = corrupted[b]
    BY <2>1 DEF FramesInv, FramesTypeOK, Holds
  <2>3. GoesOn(u)
    BY <2>2, WorkersGoOn
  <2>4. workers[u].cur_buf = b
    BY <2>1, <2>2, <2>3 DEF GoesOn
  <2>5. \/ workers[u].status \in Following \cup {"failed"}
        \/ row[b] = INT_MAX
        \/ corrupted[b]
    BY <2>1, <2>4 DEF FramesInv, OwnerInv
  <2> QED
    BY <2>2, <2>3, <2>5 DEF GoesOn
<1>3. ASSUME NEW v \in Ids \ {w}
      PROVE  Sleeping(v)'
  <2> SUFFICES ASSUME workers'[v].status = "asleep"
               PROVE  /\ row'[workers'[v].ref] < ReadyRow(workers'[v].y1)
                      /\ workers'[owner'[workers'[v].ref]].cur_buf = workers'[v].ref
                      /\ workers'[owner'[workers'[v].ref]].status \in Following \cup {"failed"}
    BY DEF Sleeping
  <2> DEFINE b == workers[v].ref
             u == owner[b]
  <2>1. /\ workers[v].status = "asleep" /\ workers'[v].ref = b
        /\ workers'[v].y1 = workers[v].y1
    BY DEF Touches, Same, SameRows
  <2>2. b # INVALID_IDX /\ Sleeping(v)
    BY <2>1 DEF FramesInv, FrameInv, Following
  <2>3. b \in Bufs /\ Holds(b)
    BY <2>2, OthersRead DEF Kept
  <2>4. u \in Ids /\ owner'[b] = u /\ row'[b] = row[b]
    BY <2>3 DEF FramesInv, FramesTypeOK, Holds
  <2>5. GoesOn(u)
    BY <2>4, WorkersGoOn
  <2>6. /\ row[b] < ReadyRow(workers[v].y1) /\ workers[u].cur_buf = b
        /\ workers[u].status \in Following \cup {"failed"}
    BY <2>1, <2>2 DEF Sleeping
  <2> QED
    BY <2>1, <2>4, <2>5, <2>6 DEF GoesOn
<1>4. ASSUME NEW v \in Ids \ {w}
      PROVE  Predicting(v)'
  <2> SUFFICES ASSUME workers'[v].status = "predict",
                      workers'[owner'[workers'[v].ref]].cur_buf = workers'[v].ref
               PROVE  row'[workers'[v].ref] >= ReadyRow(workers'[v].y1)
    BY DEF Predicting
  <2> DEFINE b == workers[v].ref
             u == owner[b]
  <2>1. /\ workers[v].status = "predict" /\ workers'[v].ref = b
        /\ workers'[v].y1 = workers[v].y1
    BY DEF Touches, Same, SameRows
  <2>2. b # INVALID_IDX /\ Predicting(v)
    BY <2>1 DEF FramesInv, FrameInv, Following
  <2>3. b \in Bufs /\ Holds(b) /\ Named(b)
    BY <2>2, OthersRead DEF Kept
  <2>4. u \in Ids /\ owner'[b] = u /\ row'[b] = row[b]
    BY <2>3 DEF FramesInv, FramesTypeOK, Holds
  <2>5. GoesOn(u)
    BY <2>4, WorkersGoOn
  <2>6. workers[u].cur_buf = b
    BY <2>1, <2>3, <2>4, <2>5 DEF GoesOn
  <2>7. row[b] >= ReadyRow(workers[v].y1)
    BY <2>1, <2>2, <2>6 DEF Predicting
  <2> QED
    BY <2>1, <2>4, <2>7
<1> QED
  BY <1>1, <1>2, <1>3, <1>4

\* A step of a worker at work keeps what the next worker is to copy, when the
\* newest worker does.
LEMMA EarlyStep ==
  ASSUME FramesInv, NEW w \in Ids, Touches(w), UNCHANGED <<next_submit, current>>,
         Early(w)' => /\ Early(w) /\ SameContext(w)
                      /\ workers'[w].ref_frame_map = workers[w].ref_frame_map,
         w = Newest => NewestAt(w)'
  PROVE  EarlyInv' /\ NewestAt(Newest)'
<1>1. Newest' = Newest /\ Newest \in Ids
  BY RingOfWorkers DEF Newest, FramesInv, FramesTypeOK
<1>2. EarlyInv /\ NewestAt(Newest)
  BY DEF FramesInv
<1>3. ASSUME NEW v \in Ids, v # w
      PROVE  Early(v)' => /\ Early(v) /\ SameContext(v)
                          /\ workers'[v].ref_frame_map = workers[v].ref_frame_map
  BY <1>3 DEF Touches, Same, SameMaps, Early
<1>4. EarlyInv'
  BY <1>1, <1>2, <1>3 DEF EarlyInv, SameContext
<1>5. ASSUME NEW x \in Ids, x = Newest, x # w
      PROVE  NewestAt(x)'
  <2>1. NewestAt(x)
    BY <1>2, <1>5
  <2>2. Same(x)
    BY <1>5 DEF Touches
  <2> QED
    BY <2>1, <2>2 DEF NewestAt, Early, Same, SameMaps, SameFrame, SameContext
<1>6. ASSUME NEW x \in Ids, x = Newest
      PROVE  NewestAt(x)'
  BY <1>5, <1>6
<1>7. NewestAt(Newest)'
  BY <1>1, <1>6
<1> QED
  BY <1>4, <1>7

-----------------------------------------------------------------------------
(* Every step keeps the invariant *)

\* The parts of the invariant are the invariant.
LEMMA InvParts ==
  ASSUME FramesTypeOK', CountInv', EarlyInv', NewestAt(Newest)', OwnerInv',
         \A v \in Ids : /\ FrameInv(v)' /\ RowInv(v)'
                        /\ Sleeping(v)' /\ Predicting(v)'
  PROVE  FramesInv'
BY DEF FramesInv

\* The invariant is kept when decoder_decode() hands a frame to the next worker
\* (vp9_dx_iface.c 386-433).
LEMMA LaunchStep ==
  ASSUME FramesInv, Launch
  PROVE  FramesInv'
<1>1. FramesTypeOK /\ FramesTypeOK' /\ CountInv'
  BY LaunchCounts DEF FramesInv
<1>2. PICK w \in Ids : w = next_submit
  BY <1>1 DEF FramesTypeOK
<1>3. /\ Touches(w)
      /\ workers[w].status = "idle" /\ workers'[w].status = "start"
      /\ ~workers[w].received_frame
      /\ ~workers'[w].frame_context_ready
      /\ \/ \A v \in Ids : workers[v].status = "idle" /\ workers[v].cur_buf = INVALID_IDX
         \/ workers[Newest].frame_context_ready
      /\ IF NumWorkers = 1
           THEN /\ workers'[w].ref_frame_map = workers[w].ref_frame_map
                /\ workers'[w].need_resync = workers[w].need_resync
           ELSE /\ workers'[w].ref_frame_map = workers[Newest].next_ref_frame_map
                /\ workers'[w].need_resync = workers[Newest].need_resync
      /\ SameRows(w)
      /\ workers'[w].hold_ref_buf = workers[w].hold_ref_buf
      /\ workers'[w].ref = workers[w].ref
      /\ workers'[w].cur_buf = workers[w].cur_buf
      /\ Newest' = w
      /\ UNCHANGED <<bufVars, next_output, last_show_frame, current>>
  BY <1>1, <1>2, LaunchIs
<1>4. FrameInv(w) /\ RowInv(w) /\ EarlyInv /\ NewestAt(Newest) /\ Newest \in Ids
  BY RingOfWorkers DEF FramesInv, FramesTypeOK, Newest
<1>5. /\ ~workers'[w].hold_ref_buf /\ workers'[w].ref = INVALID_IDX
      /\ workers'[w].sbRow = 0
  BY <1>3, <1>4 DEF FrameInv, RowInv, Decoding, Following, SameRows
<1>6. Kept(w) /\ NamedLess
  <2>1. Kept(w)
    BY <1>3 DEF Kept, Holds, bufVars
  <2>2. NamedLess
    BY <1>3, <1>5, NamesNoMore
  <2> QED
    BY <2>1, <2>2
<1>7. GoesOn(w)
  BY <1>3 DEF GoesOn, Following
<1>8. FrameInv(w)' /\ RowInv(w)' /\ Sleeping(w)' /\ Predicting(w)'
  <2>1. FrameInv(w)'
    BY <1>3, <1>5 DEF FrameInv, Decoding, Following, Shown
  <2>2. RowInv(w)'
    BY <1>3, <1>5 DEF RowInv, Following
  <2>3. Sleeping(w)' /\ Predicting(w)'
    BY <1>3 DEF Sleeping, Predicting
  <2> QED
    BY <2>1, <2>2, <2>3
<1>9. /\ OwnerInv'
      /\ \A v \in Ids : /\ FrameInv(v)' /\ RowInv(v)'
                        /\ Sleeping(v)' /\ Predicting(v)'
  BY <1>1, <1>3, <1>6, <1>7, <1>8, QuietStep
<1>10. ~Early(Newest) /\ (~workers'[w].need_resync =>
                             workers'[w].ref_frame_map = current)
  <2>1. CASE \A v \in Ids : workers[v].status = "idle" /\ workers[v].cur_buf = INVALID_IDX
    <3>1. ~Early(Newest) /\ workers[Newest].need_resync
      BY <1>4, <2>1 DEF Early, NewestAt
    <3>2. NumWorkers = 1 => w = Newest
      BY <1>2, <1>4 DEF Ids
    <3> QED
      BY <1>3, <3>1, <3>2
  <2>2. CASE workers[Newest].frame_context_ready
    <3>1. ~Early(Newest)
      BY <1>4, <2>2 DEF EarlyInv
    <3>2. CASE NumWorkers = 1
      <4>1. w = Newest
        BY <1>2, <1>4, <3>2 DEF Ids
      <4>2. NewestAt(w)
        BY <1>4, <4>1
      <4>3. ~workers[w].need_resync => workers[w].ref_frame_map = current
        BY <1>3, <3>2, <4>2 DEF NewestAt
      <4> QED
        BY <1>3, <3>1, <3>2, <4>3
    <3>3. CASE NumWorkers # 1
      <4>1. ~workers[Newest].need_resync =>
              workers[Newest].next_ref_frame_map = current
        BY <1>4, <2>2, <3>1 DEF NewestAt
      <4> QED
        BY <1>3, <3>1, <3>3, <4>1
    <3> QED
      BY <3>2, <3>3
  <2> QED
    BY <1>3, <2>1, <2>2
<1>11. EarlyInv'
  <2> SUFFICES ASSUME NEW v \in Ids, Early(v)'
               PROVE  /\ v = Newest' /\ ~workers'[v].frame_context_ready
                      /\ ~workers'[v].need_resync =>
                           workers'[v].ref_frame_map = current'
    BY DEF EarlyInv
  <2>1. v = w
    <3>1. SUFFICES ASSUME v # w PROVE FALSE
      OBVIOUS
    <3>2. Early(v)
      BY <1>3, <3>1 DEF Touches, Same, Early
    <3> QED
      BY <1>4, <1>10, <3>2 DEF EarlyInv
  <2> QED
    BY <1>3, <1>10, <2>1
<1>12. NewestAt(Newest)'
  <2>1. NewestAt(w)'
    BY <1>3 DEF NewestAt, Early
  <2> QED
    BY <1>3, <2>1
<1> QED
  BY <1>1, <1>9, <1>11, <1>12, InvParts

\* The invariant is kept when decoder_get_frame() gives a frame to the
\* application (vp9_dx_iface.c 470-520).
LEMMA OutputStep ==
  ASSUME FramesInv, Output
  PROVE  FramesInv'
<1>1. FramesTypeOK /\ FramesTypeOK' /\ CountInv' /\ PoolKept
  BY OutputCounts DEF FramesInv, PoolKept
<1>2. PICK w \in Ids : w = next_output
  BY <1>1 DEF FramesTypeOK
<1>3. /\ Touches(w)
      /\ workers[w].status = "idle" /\ workers'[w].status = "idle"
      /\ ~workers'[w].received_frame
      /\ SameMaps(w) /\ SameContext(w) /\ SameRows(w)
      /\ workers'[w].ref = workers[w].ref
      /\ workers'[w].cur_buf = workers[w].cur_buf
      /\ UNCHANGED <<next_submit, current>>
  BY <1>1, <1>2, OutputIs
<1>4. FrameInv(w) /\ RowInv(w) /\ NewestAt(Newest)
  BY DEF FramesInv
<1>5. /\ ~workers'[w].hold_ref_buf /\ workers'[w].ref = INVALID_IDX
      /\ workers'[w].sbRow = 0
  BY <1>3, <1>4 DEF FrameInv, RowInv, Decoding, Following, SameRows, SameMaps
<1>6. Kept(w) /\ NamedLess
  BY <1>1, <1>3, <1>5, PoolKeptIsKept, NamesNoMore
<1>7. GoesOn(w)
  BY <1>3 DEF GoesOn, Following
<1>8. FrameInv(w)' /\ RowInv(w)' /\ Sleeping(w)' /\ Predicting(w)'
  <2>1. FrameInv(w)'
    BY <1>3, <1>5 DEF FrameInv, Decoding, Following, Shown
  <2>2. RowInv(w)'
    BY <1>3, <1>5 DEF RowInv, Following
  <2>3. Sleeping(w)' /\ Predicting(w)'
    BY <1>3 DEF Sleeping, Predicting
  <2> QED
    BY <2>1, <2>2, <2>3
<1>9. /\ OwnerInv'
      /\ \A v \in Ids : /\ FrameInv(v)' /\ RowInv(v)'
                        /\ Sleeping(v)' /\ Predicting(v)'
  BY <1>1, <1>3, <1>6, <1>7, <1>8, QuietStep
<1>10. EarlyInv' /\ NewestAt(Newest)'
  <2>1. ~Early(w)'
    BY <1>3 DEF Early
  <2>2. w = Newest => NewestAt(w)'
    <3>1. w = Newest => NewestAt(w)
      BY <1>4
    <3> QED
      BY <1>3, <3>1 DEF NewestAt, Early, SameMaps, SameContext
  <2> QED
    BY <1>3, <2>1, <2>2, EarlyStep
<1> QED
  BY <1>1, <1>9, <1>10, InvParts

\* The invariant is kept when a worker takes a buffer for its frame.
LEMMA StartStep ==
  ASSUME FramesInv, NEW w \in Ids, Start(w)
  PROVE  FramesInv'
<1>1. PICK b : b = FreeFb(pool)
  OBVIOUS
<1>2. /\ b \in Bufs /\ Count[b] = 0 /\ FramesTypeOK /\ CountInv
      /\ FramesTypeOK' /\ CountInv'
  BY <1>1, StartCounts DEF FramesInv
<1>3. /\ Touches(w)
      /\ workers[w].status = "start" /\ workers'[w].status = "header"
      /\ workers'[w].new_fb_idx = b /\ workers'[w].cur_buf = b
      /\ ~workers'[w].hold_ref_buf
      /\ workers'[w].ref_frame_map = workers[w].ref_frame_map
      /\ workers'[w].ref = workers[w].ref
      /\ SameContext(w) /\ SameRows(w)
      /\ owner' = [owner EXCEPT ![b] = w]
      /\ row' = [row EXCEPT ![b] = NotReady]
      /\ UNCHANGED <<corrupted, ctlVars, current>>
  BY <1>1, <1>2, StartIs
<1>4. FrameInv(w) /\ RowInv(w)
  BY DEF FramesInv
<1>5. workers'[w].ref = INVALID_IDX /\ workers'[w].sbRow = 0
  BY <1>3, <1>4 DEF FrameInv, RowInv, Decoding, Following, SameRows
<1>6. NamedLess
  BY <1>3, NamesNoMore
<1>7. ASSUME NEW c \in Bufs, c # b
      PROVE  Holds(c)
  BY <1>3, <1>7 DEF Holds, FramesInv, FramesTypeOK
<1>8. ~Named(b) /\ ~Named(b)'
  BY <1>2, <1>6, CountedNow DEF NamedLess
<1>9. Kept(w)
  <2> SUFFICES ASSUME NEW c \in Bufs,
                      Named(c)' \/ (\E v \in Ids \ {w} :
                        Occupies(workers[v]) /\ workers[v].new_fb_idx = c)
               PROVE  c # b
    BY <1>7 DEF Kept
  <2>1. Named(c) \/ Occupied(c)
    BY <1>6 DEF NamedLess, Occupied
  <2> QED
    BY <1>2, <2>1, CountedNow
<1>10. GoesOn(w)
  BY <1>3, <1>8 DEF GoesOn, Following
<1>11. FrameInv(w)' /\ RowInv(w)' /\ Sleeping(w)' /\ Predicting(w)'
  <2>1. owner'[b] = w /\ row'[b] = NotReady
    BY <1>2, <1>3 DEF FramesTypeOK
  <2>2. \A c : c = workers'[w].cur_buf => ~Named(c)'
    BY <1>3, <1>8
  <2>3. FrameInv(w)'
    BY <1>2, <1>3, <1>5, <2>1, <2>2 DEF FrameInv, Decoding, Following, Shown
  <2>4. RowInv(w)'
    BY <1>3, <1>5, <2>1 DEF RowInv, Following
  <2>5. Sleeping(w)' /\ Predicting(w)'
    BY <1>3 DEF Sleeping, Predicting
  <2> QED
    BY <2>3, <2>4, <2>5
<1>12. /\ OwnerInv'
       /\ \A v \in Ids : /\ FrameInv(v)' /\ RowInv(v)'
                         /\ Sleeping(v)' /\ Predicting(v)'
  BY <1>2, <1>3, <1>6, <1>9, <1>10, <1>11, QuietStep
<1>13. EarlyInv' /\ NewestAt(Newest)'
  <2>1. Early(w) /\ NewestAt(w)'
    BY <1>3 DEF Early, NewestAt
  <2> QED
    BY <1>3, <2>1, EarlyStep DEF ctlVars
<1> QED
  BY <1>2, <1>12, <1>13, InvParts

\* The invariant is kept when a header shows a buffer that is decoded already.
LEMMA ShowExistingStep ==
  ASSUME FramesInv, NEW w \in Ids, NEW s \in Slots, ShowExisting(w, s)
  PROVE  FramesInv'
<1>1. FramesTypeOK /\ FramesTypeOK' /\ CountInv' /\ PoolKept
  BY ShowExistingCounts DEF FramesInv
<1>2. PICK b : b = workers[w].ref_frame_map[s]
  OBVIOUS
<1>3. /\ b \in Bufs /\ Touches(w)
      /\ workers[w].status = "header" /\ workers'[w].status = "swapped"
      /\ workers'[w].new_fb_idx = b
      /\ workers'[w].ref = INVALID_IDX
      /\ workers'[w].next_ref_frame_map = workers[w].ref_frame_map
      /\ workers'[w].ref_frame_map = workers[w].ref_frame_map
      /\ workers'[w].cur_buf = workers[w].cur_buf
      /\ workers'[w].hold_ref_buf = workers[w].hold_ref_buf
      /\ SameContext(w)
      /\ UNCHANGED <<ctlVars, current>>
  BY <1>1, <1>2, ShowExistingIs
<1>4. FrameInv(w) /\ EarlyInv
  BY DEF FramesInv
<1>5. ~workers'[w].hold_ref_buf /\ workers'[w].cur_buf \in Bufs
  BY <1>3, <1>4 DEF FrameInv, Decoding, Following
<1>6. Kept(w) /\ NamedLess
  BY <1>1, <1>3, <1>5, PoolKeptIsKept, NamesNoMore
<1>7. GoesOn(w)
  BY <1>3 DEF GoesOn, Following
<1>8. FrameInv(w)' /\ RowInv(w)' /\ Sleeping(w)' /\ Predicting(w)'
  <2>1. FrameInv(w)'
    BY <1>3, <1>5 DEF FrameInv, Decoding, Following, Shown
  <2>2. RowInv(w)'
    BY <1>3 DEF RowInv, Following
  <2>3. Sleeping(w)' /\ Predicting(w)'
    BY <1>3 DEF Sleeping, Predicting
  <2> QED
    BY <2>1, <2>2, <2>3
<1>9. /\ OwnerInv'
      /\ \A v \in Ids : /\ FrameInv(v)' /\ RowInv(v)'
                        /\ Sleeping(v)' /\ Predicting(v)'
  BY <1>1, <1>3, <1>6, <1>7, <1>8, QuietStep
<1>10. EarlyInv' /\ NewestAt(Newest)'
  <2>1. ~Early(w)'
    BY <1>3 DEF Early
  <2>2. NewestAt(w)'
    <3>1. ~workers[w].need_resync => workers[w].ref_frame_map = current
      BY <1>3, <1>4 DEF EarlyInv, Early
    <3> QED
      BY <1>3, <3>1 DEF NewestAt, SameContext
  <2> QED
    BY <1>3, <2>1, <2>2, EarlyStep DEF ctlVars
<1> QED
  BY <1>1, <1>9, <1>10, InvParts

\* The invariant is kept when a worker looks at the row of its reference.
LEMMA WaitStep ==
  ASSUME FramesInv, NEW w \in Ids, NEW y1 \in PredRows,
         workers[w].status \in {"rows", "woken"},
         workers[w].ref # INVALID_IDX, workers[w].sbRow < SbRows,
         FrameworkerWait(w, y1)
  PROVE  FramesInv'
<1>1. FramesTypeOK /\ FramesTypeOK' /\ CountInv'
  BY WaitCounts DEF FramesInv
<1>2. PICK b : b = workers[w].ref
  OBVIOUS
<1>3. /\ Touches(w) /\ ~corrupted[b]
      /\ workers'[w].status =
           IF row[b] >= ReadyRow(y1) \/ workers[owner[b]].cur_buf # b
             THEN "predict" ELSE "asleep"
      /\ workers'[w].y1 = y1
      /\ SameMaps(w) /\ SameFrame(w) /\ SameContext(w)
      /\ workers'[w].ref = b
      /\ workers'[w].sbRow = workers[w].sbRow
      /\ UNCHANGED <<bufVars, ctlVars, current>>
  BY <1>1, <1>2, FrameworkerWaitIs
<1>4. FrameInv(w) /\ RowInv(w) /\ NewestAt(Newest) /\ OwnerInv
  BY DEF FramesInv
<1>5. Kept(w) /\ NamedLess
  <2>1. Kept(w)
    BY <1>3 DEF Kept, Holds, bufVars
  <2>2. NamedLess
    BY <1>3, NamesNoMore DEF SameMaps
  <2> QED
    BY <2>1, <2>2
<1>6. workers'[w].status \in {"predict", "asleep"} /\ workers'[w].cur_buf = workers[w].cur_buf
  BY <1>3 DEF SameFrame
<1>7. GoesOn(w)
  BY <1>6 DEF GoesOn, Following
<1>8. FrameInv(w)'
  BY <1>2, <1>3, <1>4, <1>6 DEF FrameInv, Decoding, Following, Shown, SameMaps, SameFrame, bufVars
<1>9. RowInv(w)'
  BY <1>3, <1>4, <1>6 DEF RowInv, Following, SameFrame, bufVars
<1> DEFINE u == owner[b]
<1>10. /\ b \in Bufs /\ Named(b) /\ u \in Ids /\ row[b] \in Int
       /\ ReadyRow(y1) \in Int /\ ReadyRow(y1) <= INT_MAX /\ INT_MAX \in Int
  <2>1. b \in Bufs /\ Named(b)
    BY <1>2, ReadsNamed
  <2>2. u \in Ids /\ row[b] \in PixelRows
    BY <1>1, <2>1 DEF FramesTypeOK
  <2>3. /\ PixelRows \subseteq Int /\ INT_MAX \in Nat
        /\ y1 \in Nat /\ ReadyRow(y1) = y1 + 7 /\ y1 + 7 <= INT_MAX
    BY RowsAre
  <2>4. row[b] \in Int
    BY <2>2, <2>3
  <2>5. ReadyRow(y1) \in Int /\ ReadyRow(y1) <= INT_MAX /\ INT_MAX \in Int
    BY <2>3
  <2> QED
    BY <2>1, <2>2, <2>4, <2>5
<1>11. GoesOn(u) /\ owner'[b] = u /\ row'[b] = row[b]
  BY <1>3, <1>7, <1>10, WorkersGoOn DEF bufVars
<1>12. Sleeping(w)'
  <2> SUFFICES ASSUME workers'[w].status = "asleep"
               PROVE  /\ row'[b] < ReadyRow(y1)
                      /\ workers'[owner'[b]].cur_buf = b
                      /\ workers'[owner'[b]].status \in Following \cup {"failed"}
    BY <1>3 DEF Sleeping
  <2>1. ~(row[b] >= ReadyRow(y1)) /\ workers[u].cur_buf = b
    BY <1>3
  <2>2. row[b] < ReadyRow(y1) /\ row[b] # INT_MAX
    BY <1>10, <2>1
  <2>3. workers[u].status \in Following \cup {"failed"}
    BY <1>3, <1>4, <1>10, <2>1, <2>2 DEF OwnerInv
  <2> QED
    BY <1>11, <2>1, <2>2, <2>3 DEF GoesOn
<1>13. Predicting(w)'
  <2> SUFFICES ASSUME workers'[w].status = "predict", workers'[owner'[b]].cur_buf = b
               PROVE  row'[b] >= ReadyRow(y1)
    BY <1>3 DEF Predicting
  <2>1. workers[u].cur_buf = b
    BY <1>10, <1>11 DEF GoesOn
  <2> QED
    BY <1>3, <1>11, <2>1
<1>14. /\ OwnerInv'
       /\ \A v \in Ids : /\ FrameInv(v)' /\ RowInv(v)'
                         /\ Sleeping(v)' /\ Predicting(v)'
  BY <1>1, <1>3, <1>5, <1>7, <1>8, <1>9, <1>12, <1>13, QuietStep
<1>15. EarlyInv' /\ NewestAt(Newest)'
  <2>1. ~Early(w)'
    BY <1>6 DEF Early
  <2>2. w = Newest => NewestAt(w)'
    <3>1. w = Newest => NewestAt(w)
      BY <1>4
    <3> QED
      BY <1>3, <1>6, <3>1 DEF NewestAt, Early, SameMaps, SameContext
  <2> QED
    BY <1>3, <2>1, <2>2, EarlyStep DEF ctlVars
<1> QED
  BY <1>1, <1>14, <1>15, InvParts

\* The invariant is kept when swap_frame_buffers() replaces what the frame
\* refreshes.
LEMMA SwapStep ==
  ASSUME FramesInv, NEW w \in Ids, SwapFrameBuffers(w)
  PROVE  FramesInv'
<1>1. FramesTypeOK /\ FramesTypeOK' /\ CountInv' /\ PoolKept
  BY SwapCounts DEF FramesInv
<1>2. /\ Touches(w)
      /\ workers[w].status = "decoded" /\ workers'[w].status = "swapped"
      /\ workers'[w].ref_frame_map = workers[w].next_ref_frame_map
      /\ workers'[w].next_ref_frame_map = workers[w].next_ref_frame_map
      /\ ~workers'[w].hold_ref_buf
      /\ workers'[w].ref = INVALID_IDX
      /\ SameFrame(w) /\ SameContext(w)
      /\ UNCHANGED <<ctlVars, current>>
  BY <1>1, SwapIs
<1>3. FrameInv(w) /\ NewestAt(Newest)
  BY DEF FramesInv
<1>4. /\ workers'[w].cur_buf = workers[w].cur_buf
      /\ workers'[w].new_fb_idx = workers[w].new_fb_idx
      /\ workers[w].cur_buf \in Bufs /\ workers[w].new_fb_idx \in Bufs
  BY <1>2, <1>3 DEF FrameInv, Decoding, SameFrame
<1>5. Kept(w) /\ NamedLess
  BY <1>1, <1>2, PoolKeptIsKept, NamesNoMore
<1>6. GoesOn(w)
  BY <1>2, <1>4 DEF GoesOn, Following
<1>7. FrameInv(w)' /\ RowInv(w)' /\ Sleeping(w)' /\ Predicting(w)'
  <2>1. FrameInv(w)'
    BY <1>2, <1>4 DEF FrameInv, Decoding, Following, Shown
  <2>2. RowInv(w)'
    BY <1>2 DEF RowInv, Following
  <2>3. Sleeping(w)' /\ Predicting(w)'
    BY <1>2 DEF Sleeping, Predicting
  <2> QED
    BY <2>1, <2>2, <2>3
<1>8. /\ OwnerInv'
      /\ \A v \in Ids : /\ FrameInv(v)' /\ RowInv(v)'
                        /\ Sleeping(v)' /\ Predicting(v)'
  BY <1>1, <1>2, <1>5, <1>6, <1>7, QuietStep
<1>9. EarlyInv' /\ NewestAt(Newest)'
  <2>1. ~Early(w)'
    BY <1>2 DEF Early
  <2>2. w = Newest => NewestAt(w)'
    <3>1. w = Newest => NewestAt(w)
      BY <1>3
    <3> QED
      BY <1>2, <3>1 DEF NewestAt, Early, SameContext
  <2> QED
    BY <1>2, <2>1, <2>2, EarlyStep DEF ctlVars
<1> QED
  BY <1>1, <1>8, <1>9, InvParts

\* The invariant is kept when the frame is complete.
LEMMA FinishStep ==
  ASSUME FramesInv, NEW w \in Ids, Finish(w)
  PROVE  FramesInv'
<1>1. FramesTypeOK /\ FramesTypeOK' /\ CountInv' /\ PoolKept
  BY FinishCounts DEF FramesInv
<1>2. /\ Touches(w)
      /\ workers[w].status = "swapped" /\ workers'[w].status = "idle"
      /\ workers'[w].ref_frame_map = IF NumWorkers = 1
           THEN workers[w].ref_frame_map ELSE NoReferences
      /\ workers'[w].next_ref_frame_map = workers[w].next_ref_frame_map
      /\ workers'[w].new_fb_idx = IF workers[w].show_frame
           THEN workers[w].new_fb_idx ELSE INVALID_IDX
      /\ workers'[w].cur_buf = workers[w].cur_buf
      /\ workers'[w].ref = INVALID_IDX
      /\ workers'[w].show_frame = workers[w].show_frame
      /\ ~workers'[w].hold_ref_buf
      /\ workers'[w].sbRow = 0
      /\ workers'[w].need_resync = workers[w].need_resync
      /\ UNCHANGED <<ctlVars, current>>
  BY <1>1, FinishIs
<1>3. FrameInv(w) /\ NewestAt(Newest)
  BY DEF FramesInv
<1>4. workers[w].cur_buf \in Bufs /\ workers[w].new_fb_idx \in Bufs
  BY <1>2, <1>3 DEF FrameInv
<1>5. Kept(w) /\ NamedLess
  BY <1>1, <1>2, PoolKeptIsKept, NamesNoMore
<1>6. GoesOn(w)
  BY <1>2 DEF GoesOn, Following
<1>7. FrameInv(w)' /\ RowInv(w)' /\ Sleeping(w)' /\ Predicting(w)'
  <2>1. FrameInv(w)'
    BY <1>2, <1>4 DEF FrameInv, Decoding, Following, Shown
  <2>2. RowInv(w)'
    BY <1>2 DEF RowInv, Following
  <2>3. Sleeping(w)' /\ Predicting(w)'
    BY <1>2 DEF Sleeping, Predicting
  <2> QED
    BY <2>1, <2>2, <2>3
<1>8. /\ OwnerInv'
      /\ \A v \in Ids : /\ FrameInv(v)' /\ RowInv(v)'
                        /\ Sleeping(v)' /\ Predicting(v)'
  BY <1>1, <1>2, <1>5, <1>6, <1>7, QuietStep
<1>9. EarlyInv' /\ NewestAt(Newest)'
  <2>1. ~Early(w)'
    BY <1>2 DEF Early
  <2>2. w = Newest => NewestAt(w)'
    <3>1. w = Newest => NewestAt(w)
      BY <1>3
    <3> QED
      BY <1>2, <1>4, <3>1, BufsAre DEF NewestAt, Early
  <2> QED
    BY <1>2, <2>1, <2>2, EarlyStep DEF ctlVars
<1> QED
  BY <1>1, <1>8, <1>9, InvParts

\* The invariant is kept when vpx_internal_error() leaves the decoder.
LEMMA FailStep ==
  ASSUME FramesInv, NEW w \in Ids, Fail(w)
  PROVE  FramesInv'
<1>1. FramesTypeOK /\ FramesTypeOK' /\ CountInv' /\ PoolKept
  BY FailCounts DEF FramesInv
<1>2. /\ Touches(w)
      /\ workers[w].status \in {"header", "rows", "woken"}
      /\ workers'[w].status = "failed"
      /\ SameFrame(w) /\ SameContext(w)
      /\ workers'[w].next_ref_frame_map = workers[w].next_ref_frame_map
      /\ ~workers'[w].hold_ref_buf
      /\ workers'[w].ref = INVALID_IDX
      /\ UNCHANGED <<ctlVars, current>>
  BY <1>1, FailIs
<1>3. FrameInv(w) /\ NewestAt(Newest) /\ EarlyInv
  BY DEF FramesInv
<1>4. workers'[w].cur_buf = workers[w].cur_buf /\ workers[w].cur_buf \in Bufs
  BY <1>2, <1>3 DEF FrameInv, Decoding, Following, SameFrame
<1>5. Kept(w) /\ NamedLess
  BY <1>1, <1>2, PoolKeptIsKept, NamesNoMore
<1>6. GoesOn(w)
  BY <1>2, <1>4 DEF GoesOn
<1>7. FrameInv(w)' /\ RowInv(w)' /\ Sleeping(w)' /\ Predicting(w)'
  <2>1. FrameInv(w)'
    BY <1>2, <1>4 DEF FrameInv, Decoding, Following, Shown
  <2>2. RowInv(w)'
    BY <1>2 DEF RowInv, Following
  <2>3. Sleeping(w)' /\ Predicting(w)'
    BY <1>2 DEF Sleeping, Predicting
  <2> QED
    BY <2>1, <2>2, <2>3
<1>8. /\ OwnerInv'
      /\ \A v \in Ids : /\ FrameInv(v)' /\ RowInv(v)'
                        /\ Sleeping(v)' /\ Predicting(v)'
  BY <1>1, <1>2, <1>5, <1>6, <1>7, QuietStep
<1>9. EarlyInv' /\ NewestAt(Newest)'
  <2>1. ~Early(w)'
    BY <1>2 DEF Early
  <2>2. w = Newest => NewestAt(w)'
    <3>1. w = Newest => NewestAt(w)
      BY <1>3
    <3>2. Early(w) => ~workers[w].frame_context_ready
      BY <1>3 DEF EarlyInv
    <3> QED
      BY <1>2, <3>1, <3>2 DEF NewestAt, Early, SameContext
  <2> QED
    BY <1>2, <2>1, <2>2, EarlyStep DEF ctlVars
<1> QED
  BY <1>1, <1>8, <1>9, InvParts

\* Steps in which a worker goes on with its frame, or ends it, and tells.
LEMMA TellStep ==
  ASSUME FramesInv, FramesTypeOK', NEW w \in Ids, Touches(w), owner' = owner,
         workers'[w].cur_buf = workers[w].cur_buf,
         workers'[w].status \notin {"asleep", "predict"},
         \A b \in Bufs : row'[b] >= row[b],
         \/ row' = row
         \/ /\ owner[workers[w].cur_buf] = w
            /\ \A b \in Bufs : b # workers[w].cur_buf => row'[b] = row[b],
         \/ WakesFor(w)
         \/ row' = row /\ workers'[w].status \in Following
  PROVE  \A v \in Ids : Sleeping(v)' /\ Predicting(v)'
<1>1. Sleeping(w)' /\ Predicting(w)'
  BY DEF Sleeping, Predicting
<1>2. ASSUME NEW v \in Ids \ {w}
      PROVE  Sleeping(v)'
  <2> SUFFICES ASSUME workers'[v].status = "asleep"
               PROVE  /\ row'[workers'[v].ref] < ReadyRow(workers'[v].y1)
                      /\ workers'[owner'[workers'[v].ref]].cur_buf = workers'[v].ref
                      /\ workers'[owner'[workers'[v].ref]].status \in Following \cup {"failed"}
    BY DEF Sleeping
  <2> DEFINE b == workers[v].ref
             u == owner[b]
  <2>1. /\ workers[v].status = "asleep" /\ workers'[v].ref = b
        /\ workers'[v].y1 = workers[v].y1
    BY DEF Touches, Same, SameRows
  <2>2. b # INVALID_IDX /\ Sleeping(v)
    BY <2>1 DEF FramesInv, FrameInv, Following
  <2>3. b \in Bufs
    BY <2>2, ReadsNamed
  <2>4. u \in Ids
    BY <2>3 DEF FramesInv, FramesTypeOK
  <2>5. /\ row[b] < ReadyRow(workers[v].y1) /\ workers[u].cur_buf = b
        /\ workers[u].status \in Following \cup {"failed"}
    BY <2>1, <2>2 DEF Sleeping
  <2>6. CASE u = w
    <3>1. ~WakesFor(w)
      BY <2>1, <2>6 DEF WakesFor
    <3>2. row' = row /\ workers'[w].status \in Following
      BY <3>1
    <3> QED
      BY <2>1, <2>5, <2>6, <3>2
  <2>7. CASE u # w
    <3>1. /\ workers'[u].cur_buf = b
          /\ workers'[u].status \in Following \cup {"failed"}
      BY <2>4, <2>5, <2>7 DEF Touches, Same, SameFrame, Following
    <3>2. row'[b] = row[b]
      BY <2>3, <2>7
    <3> QED
      BY <2>1, <2>5, <3>1, <3>2
  <2> QED
    BY <2>6, <2>7
<1>3. ASSUME NEW v \in Ids \ {w}
      PROVE  Predicting(v)'
  <2> SUFFICES ASSUME workers'[v].status = "predict",
                      workers'[owner'[workers'[v].ref]].cur_buf = workers'[v].ref
               PROVE  row'[workers'[v].ref] >= ReadyRow(workers'[v].y1)
    BY DEF Predicting
  <2> DEFINE b == workers[v].ref
             u == owner[b]
  <2>1. /\ workers[v].status = "predict" /\ workers'[v].ref = b
        /\ workers'[v].y1 = workers[v].y1
    BY DEF Touches, Same, SameRows
  <2>2. b # INVALID_IDX /\ Predicting(v)
    BY <2>1 DEF FramesInv, FrameInv, Following
  <2>3. b \in Bufs
    BY <2>2, ReadsNamed
  <2>4. u \in Ids
    BY <2>3 DEF FramesInv, FramesTypeOK
  <2>5. workers[u].cur_buf = b
    BY <2>1, <2>4 DEF Touches, Same, SameFrame
  <2>6. row[b] >= ReadyRow(workers[v].y1)
    BY <2>1, <2>2, <2>5 DEF Predicting
  <2>7. row'[b] >= row[b] /\ row[b] \in Int /\ row'[b] \in Int
    BY <2>3, RowsAre DEF FramesInv, FramesTypeOK
  <2>8. ReadyRow(workers[v].y1) \in Int
    <3>1. workers[v].y1 \in PredRows
      BY <2>1 DEF FramesInv, FrameInv, Following
    <3>2. workers[v].y1 \in Nat /\ ReadyRow(workers[v].y1) = workers[v].y1 + 7
      BY <3>1, RowsAre
    <3> QED
      BY <3>2
  <2>9. row'[b] >= ReadyRow(workers[v].y1)
    BY <2>6, <2>7, <2>8
  <2> QED
    BY <2>1, <2>9
<1> QED
  BY <1>1, <1>2, <1>3

\* A step that changes the rows of its own frame only, or completes or marks
\* them, leaves no other frame unfinished.
LEMMA OwnerStep ==
  ASSUME FramesInv, NEW w \in Ids, Touches(w), owner' = owner,
         workers'[w].cur_buf = workers[w].cur_buf,
         \A b \in Bufs :
           /\ Named(b)' /\ owner[b] = w /\ workers[w].cur_buf = b =>
                \/ workers'[w].status \in Following \cup {"failed"}
                \/ row'[b] = INT_MAX
                \/ corrupted'[b]
           /\ Named(b)' /\ owner[b] # w =>
                /\ Named(b)
                /\ row[b] = INT_MAX => row'[b] = INT_MAX
                /\ corrupted[b] => corrupted'[b]
  PROVE  OwnerInv'
<1> SUFFICES ASSUME NEW b \in Bufs, Named(b)',
                    workers'[owner'[b]].cur_buf = b
             PROVE  \/ workers'[owner'[b]].status \in Following \cup {"failed"}
                    \/ row'[b] = INT_MAX
                    \/ corrupted'[b]
  BY DEF OwnerInv
<1> DEFINE u == owner[b]
<1>1. u \in Ids /\ owner'[b] = u
  BY DEF FramesInv, FramesTypeOK
<1>2. CASE u = w
  BY <1>1, <1>2
<1>3. CASE u # w
  <2>1. /\ Named(b)
        /\ row[b] = INT_MAX => row'[b] = INT_MAX
        /\ corrupted[b] => corrupted'[b]
    BY <1>3
  <2>2. /\ workers[u].cur_buf = b
        /\ workers[u].status \in Following \cup {"failed"} =>
             workers'[u].status \in Following \cup {"failed"}
    BY <1>1, <1>3 DEF Touches, Same, SameFrame, Following
  <2> QED
    BY <1>1, <2>1, <2>2 DEF FramesInv, OwnerInv
<1> QED
  BY <1>2, <1>3

\* The invariant is kept when the hook marks the buffer of the frame that
\* failed.
LEMMA HookFailsStep ==
  ASSUME FramesInv, NEW w \in Ids, HookFails(w)
  PROVE  FramesInv'
<1>1. FramesTypeOK /\ FramesTypeOK' /\ CountInv'
  BY HookFailsCounts DEF FramesInv
<1>2. /\ Touches(w) /\ WakesFor(w)
      /\ workers[w].status = "failed" /\ workers'[w].status = "idle"
      /\ workers'[w].cur_buf = workers[w].cur_buf
      /\ workers'[w].ref = INVALID_IDX
      /\ ~workers'[w].hold_ref_buf /\ ~workers'[w].show_frame
      /\ workers'[w].sbRow = 0
      /\ workers'[w].need_resync
      /\ corrupted' = [corrupted EXCEPT ![workers[w].cur_buf] = TRUE]
      /\ UNCHANGED <<pool, row, owner, ctlVars, current>>
  BY <1>1, HookFailsIs
<1>3. NamedLess
  BY <1>2, NamesNoMore
<1>4. corrupted \in [Bufs -> BOOLEAN] /\ row \in [Bufs -> PixelRows]
  BY <1>1 DEF FramesTypeOK
<1>5. OwnerInv'
  <2>1. ASSUME NEW b \in Bufs, corrupted[b] \/ workers[w].cur_buf = b
        PROVE  corrupted'[b]
    BY <1>2, <1>4, <2>1
  <2>2. \A b \in Bufs : Named(b)' => Named(b)
    BY <1>3 DEF NamedLess
  <2>3. row' = row /\ owner' = owner
    BY <1>2
  <2>4. ASSUME NEW b \in Bufs
        PROVE  /\ Named(b)' /\ owner[b] = w /\ workers[w].cur_buf = b =>
                    \/ workers'[w].status \in Following \cup {"failed"}
                    \/ row'[b] = INT_MAX
                    \/ corrupted'[b]
               /\ Named(b)' /\ owner[b] # w =>
                    /\ Named(b)
                    /\ row[b] = INT_MAX => row'[b] = INT_MAX
                    /\ corrupted[b] => corrupted'[b]
    BY <2>1, <2>2, <2>3
  <2> QED
    BY <1>2, <2>3, <2>4, OwnerStep
<1>6. \A v \in Ids : Sleeping(v)' /\ Predicting(v)'
  <2>1. \A b \in Bufs : row'[b] >= row[b]
    <3>1. ASSUME NEW b \in Bufs PROVE row[b] \in Int
      BY <1>4, RowsAre
    <3> QED
      BY <1>2, <3>1
  <2> QED
    BY <1>1, <1>2, <2>1, TellStep
<1>7. ASSUME NEW v \in Ids \ {w}
      PROVE  FrameInv(v)' /\ RowInv(v)'
  BY <1>2, <1>3, OtherFrame
<1>8. FrameInv(w)' /\ RowInv(w)'
  BY <1>2 DEF FrameInv, RowInv, Decoding, Following, Shown
<1>9. EarlyInv' /\ NewestAt(Newest)'
  <2>1. ~Early(w)' /\ NewestAt(w)'
    BY <1>2 DEF Early, NewestAt
  <2> QED
    BY <1>2, <2>1, EarlyStep DEF ctlVars
<1> QED
  BY <1>1, <1>5, <1>6, <1>7, <1>8, <1>9, InvParts

\* The invariant is kept when the last rows are told of.
LEMMA LastRowsStep ==
  ASSUME FramesInv, NEW w \in Ids, LastRows(w)
  PROVE  FramesInv'
<1>1. FramesTypeOK /\ FramesTypeOK' /\ CountInv'
  BY LastRowsCounts DEF FramesInv
<1> DEFINE c == workers[w].cur_buf
<1>2. /\ Touches(w) /\ WakesFor(w)
      /\ workers[w].status = "rows" /\ workers'[w].status = "decoded"
      /\ SameMaps(w) /\ SameFrame(w) /\ SameContext(w)
      /\ workers'[w].ref = workers[w].ref
      /\ row' = [row EXCEPT ![c] = INT_MAX]
      /\ UNCHANGED <<pool, corrupted, owner, ctlVars, current>>
  BY <1>1, LastRowsIs
<1>3. FrameInv(w) /\ NewestAt(Newest)
  BY DEF FramesInv
<1>4. /\ c \in Bufs /\ owner[c] = w /\ workers'[w].cur_buf = c
      /\ workers[w].new_fb_idx = c /\ workers[w].hold_ref_buf
  BY <1>2, <1>3 DEF FrameInv, Decoding, Following, SameFrame
<1>5. NamedLess
  BY <1>2, NamesNoMore DEF SameMaps
<1>6. row \in [Bufs -> PixelRows]
  BY <1>1 DEF FramesTypeOK
<1>7. row'[c] = INT_MAX /\ \A b \in Bufs : b # c => row'[b] = row[b]
  BY <1>2, <1>4, <1>6
<1>8. OwnerInv'
  <2>1. \A b \in Bufs : Named(b)' => Named(b)
    BY <1>5 DEF NamedLess
  <2>2. ASSUME NEW b \in Bufs
        PROVE  /\ Named(b)' /\ owner[b] = w /\ workers[w].cur_buf = b =>
                    \/ workers'[w].status \in Following \cup {"failed"}
                    \/ row'[b] = INT_MAX
                    \/ corrupted'[b]
               /\ Named(b)' /\ owner[b] # w =>
                    /\ Named(b)
                    /\ row[b] = INT_MAX => row'[b] = INT_MAX
                    /\ corrupted[b] => corrupted'[b]
    BY <1>2, <1>7, <2>1
  <2> QED
    BY <1>2, <1>4, <2>2, OwnerStep
<1>9. \A v \in Ids : Sleeping(v)' /\ Predicting(v)'
  <2>1. ASSUME NEW b \in Bufs PROVE row'[b] >= row[b]
    <3>1. row[b] \in PixelRows
      BY <1>6
    <3>2. row[b] \in Int /\ row[b] <= INT_MAX /\ INT_MAX \in Int
      BY <3>1, RowsAre DEF PixelRows
    <3> QED
      BY <1>7, <3>2
  <2> QED
    BY <1>1, <1>2, <1>4, <1>7, <2>1, TellStep
<1>10. ASSUME NEW v \in Ids \ {w}
       PROVE  FrameInv(v)' /\ RowInv(v)'
  <2>1. workers[v].status \in Decoding \cup {"header"} =>
          owner[workers[v].cur_buf] = v /\ workers[v].cur_buf \in Bufs
    BY DEF FramesInv, FrameInv
  <2>2. workers[v].status \in Decoding \cup {"header"} =>
          /\ owner'[workers[v].cur_buf] = owner[workers[v].cur_buf]
          /\ row'[workers[v].cur_buf] = row[workers[v].cur_buf]
    BY <1>2, <1>4, <1>7, <2>1
  <2> QED
    BY <1>2, <1>5, <2>2, OtherFrame
<1>11. FrameInv(w)' /\ RowInv(w)'
  <2>1. FrameInv(w)'
    BY <1>2, <1>3, <1>4 DEF FrameInv, Decoding, Following, Shown, SameMaps, SameFrame
  <2>2. RowInv(w)'
    BY <1>2 DEF RowInv, Following
  <2> QED
    BY <2>1, <2>2
<1>12. EarlyInv' /\ NewestAt(Newest)'
  <2>1. ~Early(w)'
    BY <1>2 DEF Early
  <2>2. w = Newest => NewestAt(w)'
    <3>1. w = Newest => NewestAt(w)
      BY <1>3
    <3> QED
      BY <1>2, <3>1 DEF NewestAt, Early, SameMaps, SameContext
  <2> QED
    BY <1>2, <2>1, <2>2, EarlyStep DEF ctlVars
<1> QED
  BY <1>1, <1>8, <1>9, <1>10, <1>11, <1>12, InvParts

\* What a worker tells after a row: not more than what it has decoded.
LEMMA TellsWhatIsDone ==
  ASSUME NEW r \in 0 .. SbRows, NEW filter \in BOOLEAN, NEW told \in PixelRows,
         \/ told = NotReady
         \/ /\ told <= (r - 1) * SbSize
            /\ filter => told <= (SbRows - 2) * SbSize,
         r < SbRows, NEW new, new = IF Tells(filter, r) THEN r * SbSize ELSE told
  PROVE  /\ new \in Int /\ told \in Int /\ new >= told
         /\ \/ new = NotReady
            \/ /\ new <= ((r + 1) - 1) * SbSize
               /\ filter => new <= (SbRows - 2) * SbSize
<1>1. /\ SbRows \in Nat \ {0} /\ SbSize \in Nat \ {0} /\ r \in Nat
      /\ PixelRows \subseteq Int /\ NotReady = -1
  BY RowsAre
<1>2. /\ r * SbSize \in Nat /\ (r - 1) * SbSize \in Int /\ (SbRows - 2) * SbSize \in Int
      /\ (r - 1) * SbSize <= r * SbSize
      /\ r <= SbRows - 2 => r * SbSize <= (SbRows - 2) * SbSize
  <2>1. r * SbSize \in Nat
    BY RowsAre
  <2>2. (r - 1) * SbSize \in Int /\ (r - 1) * SbSize <= r * SbSize
    <3>1. r - 1 \in Int /\ r \in Int /\ SbSize \in Nat /\ r - 1 <= r
      BY <1>1
    <3> QED
      BY <3>1, Times
  <2>3. (SbRows - 2) * SbSize \in Int
    <3>1. SbRows - 2 \in Int /\ SbSize \in Nat
      BY <1>1
    <3> QED
      BY <3>1, Times
  <2>4. r <= SbRows - 2 => r * SbSize <= (SbRows - 2) * SbSize
    <3>1. SbRows - 2 \in Int /\ r \in Int /\ SbSize \in Nat
      BY <1>1
    <3> QED
      BY <3>1, Times
  <2> QED
    BY <2>1, <2>2, <2>3, <2>4
<1>3. (r + 1) - 1 = r
  BY <1>1
<1> DEFINE p == r * SbSize
           q == (r - 1) * SbSize
           m == (SbRows - 2) * SbSize
<1>4. /\ p \in Nat /\ q \in Int /\ m \in Int /\ q <= p
      /\ r <= SbRows - 2 => p <= m
      /\ told = NotReady \/ (told <= q /\ (filter => told <= m))
      /\ told \in Int
      /\ new = IF Tells(filter, r) THEN p ELSE told
  BY <1>1, <1>2
<1>5. filter /\ Tells(filter, r) => r <= SbRows - 2
  BY <1>1 DEF Tells
<1>6. ((r + 1) - 1) * SbSize = p
  BY <1>3
<1> HIDE DEF p, q, m
<1>7. new \in Int /\ told \in Int /\ new >= told
  BY <1>1, <1>4
<1>8. new = NotReady \/ (new <= p /\ (filter => new <= m))
  BY <1>1, <1>4, <1>5
<1> QED
  BY <1>6, <1>7, <1>8 DEF m

\* The invariant is kept when a row of superblocks is decoded, and told of.
LEMMA DecodeRowStep ==
  ASSUME FramesInv, NEW w \in Ids, DecodeRow(w)
  PROVE  FramesInv'
<1>1. FramesTypeOK /\ FramesTypeOK' /\ CountInv'
  BY DecodeRowCounts DEF FramesInv
<1> DEFINE c == workers[w].cur_buf
           r == workers[w].sbRow
           filter == workers[w].filter_level
<1>2. FrameInv(w) /\ RowInv(w) /\ NewestAt(Newest)
  BY DEF FramesInv
<1>3. Decodes(w)
  <2>1. workers[w].status = "predict" => workers[w].sbRow < SbRows
    BY <1>2 DEF FrameInv, Following
  <2> QED
    BY <1>1, <2>1, DecodeRowIs
<1>4. /\ Touches(w) /\ (RowTold(w) => WakesFor(w))
      /\ workers[w].status \in {"predict", "rows"} /\ workers'[w].status = "rows"
      /\ r < SbRows /\ workers'[w].sbRow = r + 1
      /\ SameMaps(w) /\ SameFrame(w) /\ SameContext(w)
      /\ workers'[w].ref = workers[w].ref
      /\ row' = IF RowTold(w) THEN [row EXCEPT ![c] = r * SbSize] ELSE row
      /\ UNCHANGED <<pool, corrupted, owner, ctlVars, current>>
  BY <1>3 DEF Decodes
<1>5. /\ c \in Bufs /\ owner[c] = w /\ workers'[w].cur_buf = c
      /\ workers[w].new_fb_idx = c /\ workers[w].hold_ref_buf
      /\ workers'[w].filter_level = filter
  BY <1>2, <1>4 DEF FrameInv, Decoding, Following, SameFrame
<1>6. NamedLess
  BY <1>4, NamesNoMore DEF SameMaps
<1>7. /\ row \in [Bufs -> PixelRows] /\ r \in 0 .. SbRows /\ filter \in BOOLEAN
      /\ row[c] \in PixelRows
  BY <1>1, <1>5 DEF FramesTypeOK, Worker
<1>8. /\ row'[c] = IF RowTold(w) THEN r * SbSize ELSE row[c]
      /\ \A b \in Bufs : b # c => row'[b] = row[b]
  BY <1>4, <1>5, <1>7
<1>9. RowTold(w) = Tells(filter, r)
  BY DEF RowTold
<1>10. /\ row'[c] \in Int /\ row[c] \in Int /\ row'[c] >= row[c]
       /\ \/ row'[c] = NotReady
          \/ /\ row'[c] <= ((r + 1) - 1) * SbSize
             /\ filter => row'[c] <= (SbRows - 2) * SbSize
  <2>1. \/ row[c] = NotReady
        \/ /\ row[c] <= (r - 1) * SbSize
           /\ filter => row[c] <= (SbRows - 2) * SbSize
    BY <1>2, <1>4 DEF RowInv, Following
  <2> HIDE DEF c, r, filter
  <2> DEFINE told == row[c]
             new == row'[c]
  <2>2. told \in PixelRows /\ new = IF Tells(filter, r) THEN r * SbSize ELSE told
    BY <1>7, <1>8, <1>9
  <2>3. \/ told = NotReady
        \/ /\ told <= (r - 1) * SbSize
           /\ filter => told <= (SbRows - 2) * SbSize
    BY <2>1
  <2>4. r < SbRows /\ r \in 0 .. SbRows /\ filter \in BOOLEAN
    BY <1>4, <1>7
  <2> HIDE DEF told, new
  <2>5. /\ new \in Int /\ told \in Int /\ new >= told
        /\ \/ new = NotReady
           \/ /\ new <= ((r + 1) - 1) * SbSize
              /\ filter => new <= (SbRows - 2) * SbSize
    BY <2>2, <2>3, <2>4, TellsWhatIsDone
  <2> QED
    BY <2>5 DEF told, new
<1> HIDE DEF c, r, filter
<1>11. OwnerInv'
  <2>1. \A b \in Bufs : Named(b)' => Named(b)
    BY <1>6 DEF NamedLess
  <2>2. ASSUME NEW b \in Bufs
        PROVE  /\ Named(b)' /\ owner[b] = w /\ workers[w].cur_buf = b =>
                    \/ workers'[w].status \in Following \cup {"failed"}
                    \/ row'[b] = INT_MAX
                    \/ corrupted'[b]
               /\ Named(b)' /\ owner[b] # w =>
                    /\ Named(b)
                    /\ row[b] = INT_MAX => row'[b] = INT_MAX
                    /\ corrupted[b] => corrupted'[b]
    <3>1. workers'[w].status \in Following
      BY <1>4 DEF Following
    <3>2. owner[b] # w => row'[b] = row[b]
      BY <1>5, <1>8
    <3>3. corrupted' = corrupted
      BY <1>4
    <3> QED
      BY <2>1, <3>1, <3>2, <3>3
  <2>3. owner' = owner /\ workers'[w].cur_buf = workers[w].cur_buf
    BY <1>4, <1>5 DEF c
  <2> QED
    BY <1>4, <2>2, <2>3, OwnerStep
<1>12. \A v \in Ids : Sleeping(v)' /\ Predicting(v)'
  <2>1. ASSUME NEW b \in Bufs PROVE row'[b] >= row[b]
    <3>1. row[b] \in Int
      BY <1>7, RowsAre
    <3> QED
      BY <1>8, <1>10, <3>1
  <2>2. owner' = owner /\ workers'[w].cur_buf = workers[w].cur_buf
    BY <1>4, <1>5 DEF c
  <2>3. /\ owner[workers[w].cur_buf] = w
        /\ \A b \in Bufs : b # workers[w].cur_buf => row'[b] = row[b]
    BY <1>5, <1>8 DEF c
  <2>4. WakesFor(w) \/ (row' = row /\ workers'[w].status \in Following)
    BY <1>4 DEF Following
  <2>5. workers'[w].status \notin {"asleep", "predict"}
    BY <1>4
  <2> QED
    BY <1>1, <1>4, <2>1, <2>2, <2>3, <2>4, <2>5, TellStep
<1>13. ASSUME NEW v \in Ids \ {w}
       PROVE  FrameInv(v)' /\ RowInv(v)'
  <2>1. workers[v].status \in Decoding \cup {"header"} =>
          owner[workers[v].cur_buf] = v /\ workers[v].cur_buf \in Bufs
    BY DEF FramesInv, FrameInv
  <2>2. workers[v].status \in Decoding \cup {"header"} =>
          /\ owner'[workers[v].cur_buf] = owner[workers[v].cur_buf]
          /\ row'[workers[v].cur_buf] = row[workers[v].cur_buf]
    BY <1>4, <1>5, <1>8, <2>1
  <2> QED
    BY <1>4, <1>6, <2>2, OtherFrame
<1>14. FrameInv(w)'
  BY <1>2, <1>4, <1>5 DEF FrameInv, Decoding, Following, Shown, SameMaps, SameFrame, c
<1>15. RowInv(w)'
  BY <1>4, <1>5, <1>10 DEF RowInv, Following
<1>16. EarlyInv' /\ NewestAt(Newest)'
  <2>1. ~Early(w)'
    BY <1>4 DEF Early
  <2>2. w = Newest => NewestAt(w)'
    <3>1. w = Newest => NewestAt(w)
      BY <1>2
    <3> QED
      BY <1>4, <3>1 DEF NewestAt, Early, SameMaps, SameContext
  <2> QED
    BY <1>4, <2>1, <2>2, EarlyStep DEF ctlVars
<1> QED
  BY <1>1, <1>11, <1>12, <1>13, <1>14, <1>15, <1>16, InvParts

\* The invariant is kept when a header is read and the next worker may go on.
LEMMA HeaderReadStep ==
  ASSUME FramesInv, NEW w \in Ids, NEW ref \in BufIdx, NEW refresh \in SUBSET Slots,
         NEW show \in BOOLEAN, NEW filter \in BOOLEAN, NEW early \in BOOLEAN,
         ref # INVALID_IDX =>
           /\ ~workers[w].need_resync
           /\ \E s \in Slots : workers[w].ref_frame_map[s] = ref,
         HeaderRead(w, ref, refresh, show, filter, early)
  PROVE  FramesInv'
<1>1. FramesTypeOK /\ FramesTypeOK' /\ CountInv'
  BY HeaderReadCounts DEF FramesInv
<1> DEFINE c == workers[w].cur_buf
           map == MapRead(w, ref)
<1>2. FrameInv(w) /\ RowInv(w) /\ EarlyInv
  BY DEF FramesInv
<1>3. workers[w].status = "header"
  BY DEF HeaderRead
<1>4. /\ c \in Bufs /\ workers[w].new_fb_idx = c /\ owner[c] = w
      /\ ~Named(c) /\ row[c] = NotReady /\ workers[w].sbRow = 0
      /\ w = Newest
      /\ ~workers[w].need_resync => workers[w].ref_frame_map = current
  BY <1>2, <1>3 DEF FrameInv, RowInv, EarlyInv, Early
<1>5. Reads(w, ref, refresh)
  BY <1>1, <1>4, HeaderReadIs
<1>6. /\ Touches(w) /\ WakesFor(w)
      /\ workers'[w].status = "rows"
      /\ workers'[w].ref_frame_map = map
      /\ workers'[w].hold_ref_buf
      /\ workers'[w].ref = ref
      /\ current' = NextRefFrameMap(map, refresh, workers[w].new_fb_idx)
      /\ workers'[w].next_ref_frame_map = current'
      /\ SameRows(w)
      /\ workers'[w].new_fb_idx = workers[w].new_fb_idx
      /\ workers'[w].cur_buf = workers[w].cur_buf
      /\ corrupted' = [corrupted EXCEPT ![workers[w].new_fb_idx] = FALSE]
      /\ UNCHANGED <<row, owner, ctlVars>>
  BY <1>5 DEF Reads
<1>7. ASSUME NEW s \in Slots, map[s] \in Bufs
      PROVE  map[s] = current[s]
  <2>1. CASE ref = INVALID_IDX /\ workers[w].need_resync
    BY <1>7, <2>1, BufsAre DEF MapRead, NoReferences
  <2>2. CASE ~(ref = INVALID_IDX /\ workers[w].need_resync)
    BY <1>4, <2>2 DEF MapRead
  <2> QED
    BY <2>1, <2>2
<1>8. ref # INVALID_IDX => /\ ref \in Bufs /\ ref # c
                           /\ \E s \in Slots : map[s] = ref
  <2> SUFFICES ASSUME ref # INVALID_IDX
               PROVE  /\ ref \in Bufs /\ ref # c
                      /\ \E s \in Slots : map[s] = ref
    OBVIOUS
  <2>1. ref \in Bufs
    BY DEF BufIdx
  <2>2. PICK s \in Slots : workers[w].ref_frame_map[s] = ref
    OBVIOUS
  <2>3. map[s] = ref
    BY <2>2 DEF MapRead
  <2>4. current[s] = ref
    BY <1>7, <2>1, <2>3
  <2>5. Named(ref)
    BY <2>4 DEF Named
  <2> QED
    BY <1>4, <2>1, <2>3, <2>5
<1> HIDE DEF map
<1>9. ASSUME NEW b \in Bufs, Named(b)', b # c
      PROVE  Named(b)
  <2>1. ASSUME NEW s \in Slots, current'[s] = b
        PROVE  current[s] = b
    <3>1. map[s] = b
      BY <1>4, <1>6, <1>9, <2>1 DEF NextRefFrameMap
    <3> QED
      BY <1>7, <3>1
  <2>2. ASSUME NEW v \in Ids, NEW s \in Slots,
               workers'[v].hold_ref_buf, workers'[v].ref_frame_map[s] = b
        PROVE  Named(b)
    <3>1. CASE v = w
      <4>1. map[s] = b
        BY <1>6, <2>2, <3>1
      <4>2. current[s] = b
        BY <1>7, <4>1
      <4> QED
        BY <4>2 DEF Named
    <3>2. CASE v # w
      <4>1. workers[v].hold_ref_buf /\ workers[v].ref_frame_map[s] = b
        BY <1>6, <2>2, <3>2 DEF Touches, Same, SameMaps
      <4> QED
        BY <4>1 DEF Named
    <3> QED
      BY <3>1, <3>2
  <2> QED
    BY <1>9, <2>1, <2>2 DEF Named
<1> HIDE DEF c
<1>10. /\ workers'[w].cur_buf = c /\ workers'[w].new_fb_idx = c
       /\ workers'[w].cur_buf = workers[w].cur_buf
       /\ row' = row /\ owner' = owner
       /\ corrupted' = [corrupted EXCEPT ![c] = FALSE]
       /\ corrupted \in [Bufs -> BOOLEAN] /\ row \in [Bufs -> PixelRows]
  BY <1>1, <1>4, <1>6 DEF c, FramesTypeOK
<1>11. OwnerInv'
  <2>1. ASSUME NEW b \in Bufs
        PROVE  /\ Named(b)' /\ owner[b] = w /\ workers[w].cur_buf = b =>
                    \/ workers'[w].status \in Following \cup {"failed"}
                    \/ row'[b] = INT_MAX
                    \/ corrupted'[b]
               /\ Named(b)' /\ owner[b] # w =>
                    /\ Named(b)
                    /\ row[b] = INT_MAX => row'[b] = INT_MAX
                    /\ corrupted[b] => corrupted'[b]
    <3>1. workers'[w].status \in Following
      BY <1>6 DEF Following
    <3>2. owner[b] # w => b # c
      BY <1>4
    <3>3. b # c => corrupted'[b] = corrupted[b]
      BY <1>10
    <3> QED
      BY <1>9, <1>10, <3>1, <3>2, <3>3
  <2> QED
    BY <1>6, <1>10, <2>1, OwnerStep
<1>12. \A v \in Ids : Sleeping(v)' /\ Predicting(v)'
  <2>1. \A b \in Bufs : row'[b] >= row[b]
    <3>1. ASSUME NEW b \in Bufs PROVE row[b] \in Int
      BY <1>10, RowsAre
    <3> QED
      BY <1>10, <3>1
  <2>2. workers'[w].status \notin {"asleep", "predict"}
    BY <1>6
  <2> QED
    BY <1>1, <1>6, <1>10, <2>1, <2>2, TellStep
<1>13. ASSUME NEW v \in Ids \ {w}
       PROVE  FrameInv(v)' /\ RowInv(v)'
  <2>1. workers[v].status # "header"
    BY <1>2, <1>4 DEF EarlyInv, Early
  <2>2. /\ owner'[workers[v].cur_buf] = owner[workers[v].cur_buf]
        /\ row'[workers[v].cur_buf] = row[workers[v].cur_buf]
    BY <1>10
  <2> QED
    BY <1>6, <2>1, <2>2, OtherFrame
<1>14. FrameInv(w)'
  <2>1. workers'[w].status = "rows" /\ workers'[w].hold_ref_buf /\ workers'[w].ref = ref
        /\ workers'[w].ref_frame_map = map /\ owner'[c] = w
    BY <1>4, <1>6, <1>10
  <2> QED
    BY <1>4, <1>8, <1>10, <2>1 DEF FrameInv, Decoding, Following, Shown
<1>15. RowInv(w)'
  BY <1>4, <1>6, <1>10 DEF RowInv, Following
<1>16. Newest' = w
  BY <1>4, <1>6 DEF Newest, ctlVars
<1>17. EarlyInv'
  <2> SUFFICES ASSUME NEW v \in Ids, Early(v)'
               PROVE  FALSE
    BY DEF EarlyInv
  <2>1. v # w
    BY <1>6 DEF Early
  <2>2. Early(v)
    BY <1>6, <2>1 DEF Touches, Same, Early
  <2> QED
    BY <1>2, <1>4, <2>1, <2>2 DEF EarlyInv
<1>18. NewestAt(Newest)'
  <2>1. NewestAt(w)'
    BY <1>6 DEF NewestAt
  <2> QED
    BY <1>16, <2>1
<1> QED
  BY <1>1, <1>11, <1>12, <1>13, <1>14, <1>15, <1>17, <1>18, InvParts

\* Whatever the header says, the invariant is kept.
LEMMA HeaderStep ==
  ASSUME FramesInv, NEW w \in Ids, Header(w)
  PROVE  FramesInv'
<1>1. ASSUME NEW refresh \in SUBSET Slots, NEW show \in Shows, NEW early \in BOOLEAN,
             NEW filter \in Filters, IntraFrame(w, refresh, show, filter, early)
      PROVE  FramesInv'
  <2>1. show \in BOOLEAN /\ filter \in BOOLEAN /\ INVALID_IDX \in BufIdx
    BY WorkersAssumption DEF BufIdx
  <2>2. HeaderRead(w, INVALID_IDX, refresh, show, filter, early)
    BY <1>1 DEF IntraFrame
  <2> QED
    BY <2>1, <2>2, HeaderReadStep
<1>2. ASSUME NEW refresh \in SUBSET Slots, NEW show \in Shows, NEW early \in BOOLEAN,
             NEW filter \in Filters, NEW s \in Slots,
             InterFrame(w, s, refresh, show, filter, early)
      PROVE  FramesInv'
  <2> DEFINE ref == workers[w].ref_frame_map[s]
  <2>1. show \in BOOLEAN /\ filter \in BOOLEAN /\ ref \in BufIdx
    BY WorkersAssumption DEF FramesInv, FramesTypeOK, Worker
  <2>2. /\ ~workers[w].need_resync
        /\ HeaderRead(w, ref, refresh, show, filter, early)
    BY <1>2 DEF InterFrame
  <2>3. \E t \in Slots : workers[w].ref_frame_map[t] = ref
    OBVIOUS
  <2> HIDE DEF ref
  <2> QED
    BY <2>1, <2>2, <2>3, HeaderReadStep
<1> QED
  BY <1>1, <1>2, ShowExistingStep DEF Header

\* The invariant holds before the first frame.
LEMMA FramesInitInv ==
  FramesInit => FramesInv
<1> SUFFICES ASSUME FramesInit PROVE FramesInv
  OBVIOUS
<1>1. /\ pool = EmptyPool
      /\ row = [b \in Bufs |-> NotReady]
      /\ corrupted = [b \in Bufs |-> FALSE]
      /\ owner = [b \in Bufs |-> 0]
      /\ next_submit = 0 /\ next_output = 0
      /\ last_show_frame = INVALID_IDX
      /\ current = NoReferences
  BY DEF FramesInit
<1>2. /\ workers \in [Ids -> Worker]
      /\ \A w \in Ids :
           /\ workers[w].status = "idle" /\ workers[w].ref = INVALID_IDX
           /\ workers[w].sbRow = 0 /\ ~workers[w].hold_ref_buf
           /\ workers[w].need_resync /\ ~workers[w].show_frame
  <2> DEFINE n == [status |-> "idle", ref_frame_map |-> NoReferences,
        next_ref_frame_map |-> NoReferences, new_fb_idx |-> INVALID_IDX,
        cur_buf |-> INVALID_IDX, ref |-> INVALID_IDX,
        refresh_frame_flags |-> {}, show_frame |-> FALSE,
        filter_level |-> FALSE, sbRow |-> 0, y1 |-> 0, hold_ref_buf |-> FALSE,
        frame_context_ready |-> FALSE, need_resync |-> TRUE,
        received_frame |-> FALSE, had_error |-> FALSE]
  <2>1. n \in Worker
    BY RowsAre DEF Worker, NoReferences, BufIdx
  <2>2. /\ n.status = "idle" /\ n.ref = INVALID_IDX /\ n.sbRow = 0
        /\ ~n.hold_ref_buf /\ n.need_resync /\ ~n.show_frame
    OBVIOUS
  <2>3. workers = [w \in Ids |-> n]
    BY DEF FramesInit
  <2> HIDE DEF n
  <2> QED
    BY <2>1, <2>2, <2>3
<1>3. FramesTypeOK
  <2>1. pool \in Pools
    BY <1>1 DEF EmptyPool, Pools
  <2>2. current \in [Slots -> BufIdx] /\ last_show_frame \in BufIdx
    BY <1>1 DEF NoReferences, BufIdx
  <2>3. 0 \in Ids /\ NotReady \in PixelRows
    BY IdsFinite, RowsAre
  <2> QED
    BY <1>1, <1>2, <2>1, <2>2, <2>3 DEF FramesTypeOK
<1>4. ASSUME NEW b \in Bufs
      PROVE  ~Named(b) /\ ~Occupied(b)
  BY <1>1, <1>2, BufsAre DEF Named, Occupied, Occupies, Busy, NoReferences
<1>5. CountInv
  <2> DEFINE zero == [b \in Bufs |-> 0]
  <2>1. pool = PoolOf(zero) /\ zero \in Counts
    BY <1>1 DEF EmptyPool, PoolOf, Counts
  <2>2. pool.ref_count = zero
    BY <2>1, PoolOfIs
  <2>3. ASSUME NEW b \in Bufs
        PROVE  Owed(b) = 0
    <3>1. References(current, b) = 0
      BY <1>4, ReferencesAre DEF Named
    <3>2. /\ Holding(workers, Ids, b) = {} /\ Replacing(workers, Ids, b) = {}
          /\ Occupying(workers, Ids, b) = {}
      BY <1>4 DEF Named, Occupied, Holding, Replacing, Occupying
    <3>3. OwedTo(workers, Ids, b) = 0
      BY <3>2, FS_EmptySet DEF OwedTo
    <3>4. last_show_frame # b
      BY <1>1, BufsAre
    <3> QED
      BY <3>1, <3>3, <3>4 DEF Owed
  <2> QED
    BY <2>1, <2>2, <2>3 DEF CountInv
<1>6. EarlyInv
  BY <1>2 DEF EarlyInv, Early
<1>7. NewestAt(Newest)
  <2>1. Newest \in Ids
    BY <1>3, RingOfWorkers DEF Newest, FramesTypeOK
  <2> QED
    BY <1>2, <2>1 DEF NewestAt
<1>8. OwnerInv
  BY <1>4 DEF OwnerInv
<1>9. ASSUME NEW w \in Ids
      PROVE  FrameInv(w) /\ RowInv(w) /\ Sleeping(w) /\ Predicting(w)
  BY <1>2 DEF FrameInv, RowInv, Sleeping, Predicting, Decoding, Following, Shown
<1> QED
  BY <1>3, <1>5, <1>6, <1>7, <1>8, <1>9 DEF FramesInv

\* A stutter keeps it.
LEMMA FramesStutter ==
  FramesInv /\ UNCHANGED frameVars => FramesInv'
<1> SUFFICES ASSUME FramesInv, UNCHANGED frameVars PROVE FramesInv'
  OBVIOUS
<1>1. /\ pool' = pool /\ row' = row /\ corrupted' = corrupted /\ owner' = owner
      /\ workers' = workers /\ next_submit' = next_submit
      /\ next_output' = next_output /\ last_show_frame' = last_show_frame
      /\ current' = current
  BY DEF frameVars, bufVars, ctlVars
<1>2. FramesTypeOK' /\ CountInv'
  BY <1>1 DEF FramesInv, FramesTypeOK, CountInv, Owed
<1>3. Newest' = Newest
  BY <1>1 DEF Newest
<1>4. EarlyInv' /\ NewestAt(Newest)'
  BY <1>1, <1>3 DEF FramesInv, EarlyInv, NewestAt, Early
<1>5. \A b : Named(b)' <=> Named(b)
  BY <1>1 DEF Named
<1>6. OwnerInv'
  BY <1>1, <1>5 DEF FramesInv, OwnerInv
<1>7. ASSUME NEW w \in Ids
      PROVE  FrameInv(w)' /\ RowInv(w)' /\ Sleeping(w)' /\ Predicting(w)'
  <2>1. FrameInv(w) /\ RowInv(w) /\ Sleeping(w) /\ Predicting(w)
    BY DEF FramesInv
  <2>2. RowInv(w)' /\ Sleeping(w)' /\ Predicting(w)'
    BY <1>1, <2>1 DEF RowInv, Sleeping, Predicting
  <2>3. Named(workers[w].cur_buf)' <=> Named(workers[w].cur_buf)
    BY <1>1 DEF Named
  <2>4. Shown' = Shown
    BY <1>1 DEF Shown
  <2>5. FrameInv(w)'
    BY <1>1, <2>1, <2>3, <2>4 DEF FrameInv
  <2> QED
    BY <2>2, <2>5
<1> QED
  BY <1>2, <1>4, <1>6, <1>7, InvParts

\* Every step of the control thread and of a worker keeps it.
LEMMA FramesNextInv ==
  FramesInv /\ [FramesNext]_frameVars => FramesInv'
<1> SUFFICES ASSUME FramesInv, FramesNext PROVE FramesInv'
  BY FramesStutter
<1>1. ASSUME NEW w \in Ids, WorkerStep(w)
      PROVE  FramesInv'
  <2>1. ASSUME NEW y1 \in PredRows, Predict(w, y1)
        PROVE  FramesInv'
    BY <2>1, WaitStep DEF Predict
  <2>2. CASE WaitAgain(w)
    <3>1. /\ workers[w].status = "woken" /\ FrameworkerWait(w, workers[w].y1)
      BY <2>2 DEF WaitAgain
    <3>2. /\ workers[w].ref # INVALID_IDX /\ workers[w].sbRow < SbRows
          /\ workers[w].y1 \in PredRows
      BY <3>1 DEF FramesInv, FrameInv, Following
    <3> QED
      BY <3>1, <3>2, WaitStep
  <2> QED
    BY <1>1, <2>1, <2>2, StartStep, HeaderStep, DecodeRowStep, LastRowsStep,
       SwapStep, FinishStep, FailStep, HookFailsStep DEF WorkerStep
<1> QED
  BY <1>1, LaunchStep, OutputStep DEF FramesNext

\* The invariant holds in every state, whatever the number of workers and
\* wherever frames are damaged.
THEOREM FramesInvariance ==
  FramesSpec => []FramesInv
BY FramesInitInv, FramesNextInv, PTL DEF FramesSpec

-----------------------------------------------------------------------------
(* What follows *)

\* Every slot, row and status stays in its range (vp9_dthread.h 34-53,
\* vp9_onyxc_int.h 62-90).
THEOREM FramesAreTyped ==
  FramesSpec => []FramesTypeOK
<1>1. FramesInv => FramesTypeOK
  BY DEF FramesInv
<1> QED
  BY <1>1, FramesInvariance, PTL

\* No buffer that the newest map, a frame in flight or the application holds is
\* counted less often than it is held, so get_free_fb() never hands it out
\* (vp9_onyxc_int.h 288-305); a frame that fails may leave a count behind.
THEOREM HoldersAreCounted ==
  FramesSpec => [](\A b \in Bufs : pool.ref_count[b] >= Owed(b))
<1>1. FramesInv => \A b \in Bufs : pool.ref_count[b] >= Owed(b)
  BY DEF FramesInv, CountInv
<1> QED
  BY <1>1, FramesInvariance, PTL

\* No wake-up is missed: a worker sleeps in vp9_frameworker_wait() only while
\* the worker that decodes its reference is still to tell it of the rows, or is
\* to fail and say so, however many workers wait for each other and whichever
\* fail (vp9_dthread.c 91-126, vp9_dx_iface.c 337-349).
THEOREM NoSleeperIsForgotten ==
  FramesSpec => []SleepersAreServed
<1>1. FramesInv => SleepersAreServed
  <2> SUFFICES ASSUME FramesInv, NEW w \in Ids, workers[w].status = "asleep",
                      NEW b, b = workers[w].ref, NEW v, v = owner[b]
               PROVE  /\ row[b] < ReadyRow(workers[w].y1)
                      /\ v # w /\ workers[v].cur_buf = b
                      /\ workers[v].status \in {"rows", "woken", "asleep", "predict", "failed"}
    BY DEF SleepersAreServed
  <2>1. /\ row[b] < ReadyRow(workers[w].y1) /\ workers[v].cur_buf = b
        /\ workers[v].status \in Following \cup {"failed"}
    BY DEF FramesInv, Sleeping
  <2>2. b # workers[w].cur_buf
    BY DEF FramesInv, FrameInv, Following
  <2> QED
    BY <2>1, <2>2 DEF Following
<1> QED
  BY <1>1, FramesInvariance, PTL

\* A prediction reads only rows that are decoded and filtered, unless its
\* reference is damaged or was reused: the row that vp9_frameworker_broadcast()
\* tells is never ahead of the loop filter (vp9_decodeframe.c 1926,
\* vp9_dthread.c 91-126).
THEOREM PredictionsAreFromFinalRows ==
  FramesSpec => []PredictedFromFinal
<1>1. FramesInv => PredictedFromFinal
  <2> SUFFICES ASSUME FramesInv, NEW w \in Ids, workers[w].status = "predict"
               PROVE  /\ pool.ref_count[workers[w].ref] > 0
                      /\ \A v \in Ids :
                           /\ workers[v].cur_buf = workers[w].ref
                           /\ v \in Takers
                           /\ workers[v].status \notin {"decoded", "swapped"}
                           => FinalRows(v) >= workers[w].y1
    BY DEF PredictedFromFinal
  <2> DEFINE b == workers[w].ref
             y1 == workers[w].y1
  <2>1. b # INVALID_IDX /\ y1 \in PredRows /\ Predicting(w)
    BY DEF FramesInv, FrameInv, Following
  <2>2. b \in Bufs /\ Named(b)
    BY <2>1, ReadsNamed
  <2>3. pool.ref_count[b] > 0
    <3>1. Count[b] # 0 /\ Count[b] \in Nat
      BY <2>2, CountedNow, CountIs DEF FramesInv, Counts
    <3> QED
      BY <3>1 DEF Count
  <2>4. ASSUME NEW v \in Ids, workers[v].cur_buf = b, v \in Takers,
               workers[v].status \notin {"decoded", "swapped"}
        PROVE  FinalRows(v) >= y1
    <3> DEFINE r == workers[v].sbRow
               filter == workers[v].filter_level
               told == row[b]
    <3>1. FrameInv(v) /\ RowInv(v) /\ workers[v] \in Worker
      BY DEF FramesInv, FramesTypeOK
    <3>2. workers[v].status \in Following
      <4>1. workers[v].status \in Following \cup {"header"}
        BY <2>4, <3>1 DEF Takers, Busy, Following
      <4>2. workers[v].status # "header"
        BY <2>2, <2>4, <3>1 DEF FrameInv
      <4> QED
        BY <4>1, <4>2
    <3>3. owner[b] = v
      BY <2>4, <3>1, <3>2 DEF FrameInv, Decoding
    <3>4. told >= ReadyRow(y1)
      BY <2>1, <2>4, <3>3 DEF Predicting
    <3>5. y1 \in Nat /\ ReadyRow(y1) = y1 + 7 /\ told \in Int /\ NotReady = -1
      <4>1. told \in PixelRows
        BY <2>2 DEF FramesInv, FramesTypeOK
      <4> QED
        BY <2>1, <4>1, RowsAre
    <3>6. \/ told = NotReady
          \/ /\ told <= (r - 1) * SbSize
             /\ filter => told <= (SbRows - 2) * SbSize
      BY <2>4, <3>1, <3>2 DEF RowInv
    <3>7. r \in Nat /\ SbRows \in Nat /\ SbSize \in Nat /\ filter \in BOOLEAN
      BY <3>1, RowsAre DEF Worker
    <3> DEFINE q == (r - 1) * SbSize
               m == (SbRows - 2) * SbSize
               p == r * SbSize
    <3>8. q \in Int /\ m \in Int /\ p \in Int /\ q <= p
      <4>1. r - 1 \in Int /\ r \in Int /\ SbRows - 2 \in Int /\ r - 1 <= r
        BY <3>7
      <4>2. q \in Int /\ q <= p
        BY <3>7, <4>1, Times
      <4>3. m \in Int /\ p \in Int
        BY <3>7, <4>1, Times
      <4> QED
        BY <4>2, <4>3
    <3>9. told <= q /\ (filter => told <= m) /\ y1 + 7 <= told
      BY <3>4, <3>5, <3>6
    <3>10. FinalRows(v) = IF ~filter THEN p
                          ELSE (IF r - 1 < SbRows - 2 THEN q ELSE m) - 7
      <4>1. workers[v].status # "header"
        BY <3>2 DEF Following
      <4>2. FinalRows(v) = IF ~filter THEN p
                           ELSE (IF r - 1 < SbRows - 2 THEN r - 1 ELSE SbRows - 2)
                                * SbSize - 7
        BY <3>7, <4>1 DEF FinalRows
      <4>3. CASE r - 1 < SbRows - 2
        BY <4>2, <4>3
      <4>4. CASE ~(r - 1 < SbRows - 2)
        BY <4>2, <4>4
      <4> QED
        BY <4>3, <4>4
    <3> HIDE DEF q, m, p, told, r, filter, y1
    <3> QED
      BY <3>5, <3>7, <3>8, <3>9, <3>10
  <2> QED
    BY <2>3, <2>4
<1> QED
  BY <1>1, FramesInvariance, PTL

=============================================================================
