---------------------------- MODULE WorkerThread ----------------------------
(***************************************************************************)
(* One VP9Worker (vp9/common/vp9_thread.c): the client thread that calls   *)
(* the VP9WorkerInterface and the thread it spawns.  They share status_,   *)
(* had_error, ONE mutex and ONE condition variable that both of them wait  *)
(* on and signal.  The hook runs with the mutex held; reset() writes       *)
(* had_error and reads status_ without it.                                 *)
(*                                                                         *)
(* The steps between a lock and the matching unlock that touch nothing a   *)
(* thread without the lock could read are one action.                      *)
(***************************************************************************)
EXTENDS Integers

CONSTANT SpuriousWakeups  \* TRUE when pthread_cond_wait may return unsignalled

ASSUME SpuriousWakeupsAssumption == SpuriousWakeups \in BOOLEAN

VARIABLES
  status_,    \* VP9Worker.status_
  impl_,      \* VP9Worker.impl_ # NULL
  had_error,  \* VP9Worker.had_error
  mutex_,     \* the thread that holds impl_->mutex_, or Nobody
  waiters,    \* the threads blocked on impl_->condition_
  threadPc,   \* where thread_loop is; "none" when there is no thread
  loaded,     \* had_error as an early load of "had_error |= ..." saw it
  mainPc,     \* where the client's call is; "client" between calls
  op,         \* the interface function the client called last
  reply,      \* what sync() or reset() returned last
  \* The rest observes the run: no step of the code reads it.
  pending,    \* launched jobs the hook has not run yet
  unsynced,   \* launch() returned and no later call waited for the job
  failures    \* a hook failed since had_error was last cleared

vars == <<status_, impl_, had_error, mutex_, waiters, threadPc, loaded,
          mainPc, op, reply, pending, unsynced, failures>>

NOT_OK == 0
OK == 1
WORK == 2

Nobody == "nobody"
Main == "main"
Thread == "thread"

ThreadPcs == {"none", "lock", "test", "waiting", "hook", "done", "exited"}
MainPcs == {"client", "enter", "decide", "waiting", "return", "check",
            "alloc", "create", "publish", "inline"}
Ops == {"reset", "sync", "launch", "end", "execute"}

TypeOK ==
  /\ status_ \in {NOT_OK, OK, WORK}
  /\ impl_ \in BOOLEAN
  /\ had_error \in BOOLEAN
  /\ mutex_ \in {Nobody, Main, Thread}
  /\ waiters \subseteq {Main, Thread}
  /\ threadPc \in ThreadPcs
  /\ loaded \in BOOLEAN
  /\ mainPc \in MainPcs
  /\ op \in Ops
  /\ reply \in BOOLEAN
  /\ pending \in Nat
  /\ unsynced \in BOOLEAN
  /\ failures \in BOOLEAN

\* init(): memset to zero and status_ = NOT_OK.
Init ==
  /\ status_ = NOT_OK
  /\ impl_ = FALSE
  /\ had_error = FALSE
  /\ mutex_ = Nobody
  /\ waiters = {}
  /\ threadPc = "none"
  /\ loaded = FALSE
  /\ mainPc = "client"
  /\ op = "sync"
  /\ reply = TRUE
  /\ pending = 0
  /\ unsynced = FALSE
  /\ failures = FALSE

-----------------------------------------------------------------------------
(* pthread primitives *)

Acquire(t) == mutex_ = Nobody /\ mutex_' = t

Release(t) == mutex_ = t /\ mutex_' = Nobody

\* pthread_cond_signal wakes one waiter, if there is one.
Signal ==
  \/ waiters = {} /\ waiters' = {}
  \/ \E t \in waiters : waiters' = waiters \ {t}

SpuriousWakeup ==
  /\ SpuriousWakeups
  /\ \E t \in waiters : waiters' = waiters \ {t}
  /\ UNCHANGED <<status_, impl_, had_error, mutex_, threadPc, loaded, mainPc,
                 op, reply, pending, unsynced, failures>>

-----------------------------------------------------------------------------
(* thread_loop() *)

ThreadLock ==
  /\ threadPc = "lock"
  /\ Acquire(Thread)
  /\ threadPc' = "test"
  /\ UNCHANGED <<status_, impl_, had_error, waiters, loaded, mainPc, op, reply,
                 pending, unsynced, failures>>

\* Mutant of ThreadWait: it waits for work only, and misses the end.
ThreadWaitForWork ==
  /\ threadPc = "test"
  /\ status_ # WORK
  /\ Release(Thread)
  /\ waiters' = waiters \cup {Thread}
  /\ threadPc' = "waiting"
  /\ UNCHANGED <<status_, impl_, had_error, loaded, mainPc, op, reply, pending,
                 unsynced, failures>>

ThreadWait ==
  /\ threadPc = "test"
  /\ status_ = OK
  /\ Release(Thread)
  /\ waiters' = waiters \cup {Thread}
  /\ threadPc' = "waiting"
  /\ UNCHANGED <<status_, impl_, had_error, loaded, mainPc, op, reply, pending,
                 unsynced, failures>>

ThreadWake ==
  /\ threadPc = "waiting"
  /\ Thread \notin waiters
  /\ Acquire(Thread)
  /\ threadPc' = "test"
  /\ UNCHANGED <<status_, impl_, had_error, waiters, loaded, mainPc, op, reply,
                 pending, unsynced, failures>>

ThreadHook ==
  /\ threadPc = "test"
  /\ status_ = WORK
  /\ threadPc' = "hook"
  /\ loaded' = had_error
  /\ UNCHANGED <<status_, impl_, had_error, mutex_, waiters, mainPc, op, reply,
                 pending, unsynced, failures>>

\* Mutant of ThreadHookReturns: = for |=.
ThreadHookReturnsLast(failed) ==
  /\ threadPc = "hook"
  /\ had_error' = failed
  /\ failures' = (failures \/ failed)
  /\ pending' = pending - 1
  /\ threadPc' = "done"
  /\ UNCHANGED <<status_, impl_, mutex_, waiters, loaded, mainPc, op, reply,
                 unsynced>>

\* had_error |= !hook(): the old value may have been loaded before the call
\* or after it, and reset() may clear the field in between.
ThreadHookReturns(failed) ==
  /\ threadPc = "hook"
  /\ \E old \in {loaded, had_error} : had_error' = (old \/ failed)
  /\ failures' = (failures \/ failed)
  /\ pending' = pending - 1
  /\ threadPc' = "done"
  /\ UNCHANGED <<status_, impl_, mutex_, waiters, loaded, mainPc, op, reply,
                 unsynced>>

\* Mutant of ThreadBackToIdle: status_ stays WORK.
ThreadStaysBusy ==
  /\ threadPc = "done"
  /\ Signal
  /\ Release(Thread)
  /\ threadPc' = "lock"
  /\ UNCHANGED <<status_, impl_, had_error, loaded, mainPc, op, reply, pending,
                 unsynced, failures>>

\* Mutant of ThreadBackToIdle: nobody is told.
ThreadQuietlyIdle ==
  /\ threadPc = "done"
  /\ status_' = OK
  /\ Release(Thread)
  /\ threadPc' = "lock"
  /\ UNCHANGED <<impl_, had_error, waiters, loaded, mainPc, op, reply, pending,
                 unsynced, failures>>

ThreadBackToIdle ==
  /\ threadPc = "done"
  /\ status_' = OK
  /\ Signal
  /\ Release(Thread)
  /\ threadPc' = "lock"
  /\ UNCHANGED <<impl_, had_error, loaded, mainPc, op, reply, pending,
                 unsynced, failures>>

ThreadExit ==
  /\ threadPc = "test"
  /\ status_ = NOT_OK
  /\ Signal
  /\ Release(Thread)
  /\ threadPc' = "exited"
  /\ UNCHANGED <<status_, impl_, had_error, loaded, mainPc, op, reply, pending,
                 unsynced, failures>>

ThreadNext ==
  \/ ThreadLock \/ ThreadWait \/ ThreadWake \/ ThreadHook
  \/ \E failed \in BOOLEAN : ThreadHookReturns(failed)
  \/ ThreadBackToIdle \/ ThreadExit

-----------------------------------------------------------------------------
(* change_state(), the body of sync(), launch() and end() *)

NewStatus == IF op = "launch" THEN WORK ELSE IF op = "end" THEN NOT_OK ELSE OK

ChangeStateNoThread ==
  /\ mainPc = "enter"
  /\ ~impl_
  /\ mainPc' = "return"
  /\ UNCHANGED <<status_, impl_, had_error, mutex_, waiters, threadPc, loaded,
                 op, reply, pending, unsynced, failures>>

ChangeStateLock ==
  /\ mainPc = "enter"
  /\ impl_
  /\ Acquire(Main)
  /\ mainPc' = "decide"
  /\ UNCHANGED <<status_, impl_, had_error, waiters, threadPc, loaded, op,
                 reply, pending, unsynced, failures>>

ChangeStateWait ==
  /\ mainPc = "decide"
  /\ status_ > OK
  /\ Release(Main)
  /\ waiters' = waiters \cup {Main}
  /\ mainPc' = "waiting"
  /\ UNCHANGED <<status_, impl_, had_error, threadPc, loaded, op, reply,
                 pending, unsynced, failures>>

ChangeStateWake ==
  /\ mainPc = "waiting"
  /\ Main \notin waiters
  /\ Acquire(Main)
  /\ mainPc' = "decide"
  /\ UNCHANGED <<status_, impl_, had_error, waiters, threadPc, loaded, op,
                 reply, pending, unsynced, failures>>

\* Mutant of ChangeStateAssign: it does not wait for the worker to finish.
ChangeStateAtOnce ==
  /\ mainPc = "decide"
  /\ IF NewStatus # OK
       THEN /\ status_' = NewStatus
            /\ Signal
            /\ pending' = IF op = "launch" THEN pending + 1 ELSE pending
            /\ unsynced' = (op = "launch")
       ELSE UNCHANGED <<status_, waiters, pending, unsynced>>
  /\ Release(Main)
  /\ mainPc' = "return"
  /\ UNCHANGED <<impl_, had_error, threadPc, loaded, op, reply, failures>>

\* Mutant of ChangeStateAssign: the thread is not told.
ChangeStateQuietly ==
  /\ mainPc = "decide"
  /\ status_ <= OK
  /\ IF status_ = OK /\ NewStatus # OK
       THEN /\ status_' = NewStatus
            /\ pending' = IF op = "launch" THEN pending + 1 ELSE pending
            /\ unsynced' = (op = "launch")
       ELSE UNCHANGED <<status_, pending, unsynced>>
  /\ Release(Main)
  /\ mainPc' = "return"
  /\ UNCHANGED <<impl_, had_error, waiters, threadPc, loaded, op, reply,
                 failures>>

ChangeStateAssign ==
  /\ mainPc = "decide"
  /\ status_ <= OK
  /\ IF status_ = OK /\ NewStatus # OK
       THEN /\ status_' = NewStatus
            /\ Signal
            /\ pending' = IF op = "launch" THEN pending + 1 ELSE pending
            /\ unsynced' = (op = "launch")
       ELSE UNCHANGED <<status_, waiters, pending, unsynced>>
  /\ Release(Main)
  /\ mainPc' = "return"
  /\ UNCHANGED <<impl_, had_error, threadPc, loaded, op, reply, failures>>

-----------------------------------------------------------------------------
(* The interface functions *)

Call(f) ==
  /\ mainPc = "client"
  /\ op' = f
  /\ UNCHANGED <<status_, impl_, mutex_, waiters, threadPc, loaded, reply,
                 pending, unsynced>>

CallSync == Call("sync") /\ mainPc' = "enter" /\ UNCHANGED <<had_error, failures>>
CallLaunch == Call("launch") /\ mainPc' = "enter" /\ UNCHANGED <<had_error, failures>>
CallEnd == Call("end") /\ mainPc' = "enter" /\ UNCHANGED <<had_error, failures>>

\* reset() clears had_error before anything else, without the mutex.
CallReset ==
  /\ Call("reset")
  /\ had_error' = FALSE
  /\ failures' = FALSE
  /\ mainPc' = "check"

\* The interface's contract: the hook's data belong to the worker from
\* launch() to the next sync(), so execute() is called only in between.
CallExecute ==
  /\ ~unsynced
  /\ Call("execute")
  /\ mainPc' = "inline"
  /\ UNCHANGED <<had_error, failures>>

ExecuteReturns(failed) ==
  /\ mainPc = "inline"
  /\ had_error' = (had_error \/ failed)
  /\ failures' = (failures \/ failed)
  /\ mainPc' = "client"
  /\ UNCHANGED <<status_, impl_, mutex_, waiters, threadPc, loaded, op, reply,
                 pending, unsynced>>

LaunchReturns ==
  /\ mainPc = "return" /\ op = "launch"
  /\ mainPc' = "client"
  /\ UNCHANGED <<status_, impl_, had_error, mutex_, waiters, threadPc, loaded,
                 op, reply, pending, unsynced, failures>>

\* Mutant of SyncReturns: it says that all went well.
SyncAlwaysOk ==
  /\ mainPc = "return" /\ op \in {"sync", "reset"}
  /\ reply' = TRUE
  /\ unsynced' = FALSE
  /\ mainPc' = "client"
  /\ UNCHANGED <<status_, impl_, had_error, mutex_, waiters, threadPc, loaded,
                 op, pending, failures>>

\* sync(), and the sync() that ends reset().
SyncReturns ==
  /\ mainPc = "return" /\ op \in {"sync", "reset"}
  /\ reply' = ~had_error
  /\ unsynced' = FALSE
  /\ mainPc' = "client"
  /\ UNCHANGED <<status_, impl_, had_error, mutex_, waiters, threadPc, loaded,
                 op, pending, failures>>

\* end() joins the thread it has just stopped and frees impl_.
EndReturns ==
  /\ mainPc = "return" /\ op = "end"
  /\ impl_ => threadPc = "exited"
  /\ impl_' = FALSE
  /\ threadPc' = "none"
  /\ mainPc' = "client"
  /\ UNCHANGED <<status_, had_error, mutex_, waiters, loaded, op, reply,
                 pending, unsynced, failures>>

\* The unlocked read of status_ in reset().
ResetCheck ==
  /\ mainPc = "check"
  /\ mainPc' = IF status_ < OK THEN "alloc"
               ELSE IF status_ > OK THEN "enter" ELSE "client"
  /\ reply' = IF status_ = OK THEN TRUE ELSE reply
  /\ unsynced' = (unsynced /\ status_ # OK)
  /\ UNCHANGED <<status_, impl_, had_error, mutex_, waiters, threadPc, loaded,
                 op, pending, failures>>

\* calloc, pthread_mutex_init or pthread_cond_init fails.
ResetAllocFails ==
  /\ mainPc = "alloc"
  /\ reply' = FALSE
  /\ mainPc' = "client"
  /\ UNCHANGED <<status_, impl_, had_error, mutex_, waiters, threadPc, loaded,
                 op, pending, unsynced, failures>>

ResetAlloc ==
  /\ mainPc = "alloc"
  /\ impl_' = TRUE
  /\ Acquire(Main)
  /\ mainPc' = "create"
  /\ UNCHANGED <<status_, had_error, waiters, threadPc, loaded, op, reply,
                 pending, unsynced, failures>>

ResetCreateFails ==
  /\ mainPc = "create"
  /\ impl_' = FALSE
  /\ Release(Main)
  /\ reply' = FALSE
  /\ mainPc' = "client"
  /\ UNCHANGED <<status_, had_error, waiters, threadPc, loaded, op, pending,
                 unsynced, failures>>

ResetCreate ==
  /\ mainPc = "create"
  /\ threadPc' = "lock"
  /\ mainPc' = "publish"
  /\ UNCHANGED <<status_, impl_, had_error, mutex_, waiters, loaded, op, reply,
                 pending, unsynced, failures>>

\* Mutant of ResetPublish: status_ is not set.
ResetPublishNothing ==
  /\ mainPc = "publish"
  /\ Release(Main)
  /\ reply' = TRUE
  /\ mainPc' = "client"
  /\ UNCHANGED <<status_, impl_, had_error, waiters, threadPc, loaded, op,
                 pending, unsynced, failures>>

ResetPublish ==
  /\ mainPc = "publish"
  /\ status_' = OK
  /\ Release(Main)
  /\ reply' = TRUE
  /\ mainPc' = "client"
  /\ UNCHANGED <<impl_, had_error, waiters, threadPc, loaded, op, pending,
                 unsynced, failures>>

\* What the client chooses to do next, and what it does inside a call.
ClientNext ==
  \/ CallSync \/ CallLaunch \/ CallEnd \/ CallReset \/ CallExecute

CallNext ==
  \/ ChangeStateNoThread \/ ChangeStateLock \/ ChangeStateWait
  \/ ChangeStateWake \/ ChangeStateAssign
  \/ \E failed \in BOOLEAN : ExecuteReturns(failed)
  \/ LaunchReturns \/ SyncReturns \/ EndReturns
  \/ ResetCheck \/ ResetAllocFails \/ ResetAlloc
  \/ ResetCreateFails \/ ResetCreate \/ ResetPublish

Next == ClientNext \/ CallNext \/ ThreadNext \/ SpuriousWakeup

Spec == Init /\ [][Next]_vars

\* The operating system runs both threads, hooks return and spurious wake-ups
\* come to an end; nobody has to call the interface.
FairSpec == /\ Spec
            /\ WF_vars(CallNext)
            /\ WF_vars(ThreadNext)
            /\ <>[][~SpuriousWakeup]_vars

-----------------------------------------------------------------------------
(* Properties *)

\* Client and thread share one condition variable and signal it with
\* pthread_cond_signal, which wakes one of them: the design is only right if
\* they are never blocked on it together, and never in the status the other
\* one's signal announces.
NoStolenSignal ==
  /\ Thread \in waiters => status_ = OK
  /\ Main \in waiters => status_ = WORK

\* The hook never runs in both threads, so had_error and the hook's data have
\* one user at a time between launch() and sync().
OneHookAtATime == ~(threadPc \in {"hook", "done"} /\ mainPc = "inline")

\* A launched job runs exactly once: none is dropped by a second launch() or
\* run again after a wake-up, and none is left when a call has waited for it.
JobsRunOnce ==
  /\ pending \in {0, 1}
  /\ mainPc = "client" /\ ~unsynced => pending = 0

\* sync() never hides a failure: whatever the order of reset()'s unlocked
\* clear and the thread's read-modify-write, a failure since the clear shows.
FailureIsKept == failures => had_error

\* The assertions of the file: sync() returns with status_ <= OK, reset()
\* returns true only with status_ = OK, end() leaves status_ = NOT_OK, and a
\* worker has a thread exactly while it has an impl_.
AssertionsHold ==
  /\ mainPc = "return" /\ op \in {"sync", "reset"} => status_ <= OK
  /\ mainPc = "client" /\ op = "reset" /\ reply => status_ = OK
  /\ mainPc = "client" /\ op = "end" => status_ = NOT_OK /\ threadPc = "none"
  /\ mainPc = "client" => (impl_ <=> threadPc # "none")

\* What a change of status_ tells: a job is given under the mutex to an idle
\* worker, it is completed by the thread, and the worker is stopped idle.
StatusStep ==
  /\ status_' = WORK /\ status_ # WORK => mutex_ = Main /\ status_ = OK
  /\ status_ = WORK /\ status_' # WORK => mutex_ = Thread /\ status_' = OK
  /\ status_' = NOT_OK /\ status_ # NOT_OK => pending = 0

\* Only the thread completes a job, only a client that found the worker idle
\* gives it another one, and no job is thrown away by end().
StatusChanges == [][StatusStep]_vars

\* had_error, as vp9_thread.h documents it: "return value of the last call to
\* 'hook'", here whether the last call failed.
HadErrorIsLastResult ==
  [][\A failed \in BOOLEAN : ThreadHookReturns(failed) \/ ExecuteReturns(failed)
        => had_error' = failed]_vars

\* Every call returns, however the two threads interleave.
CallsReturn == (mainPc # "client") ~> (mainPc = "client")

\* Every launched job is run, whether or not the client ever calls sync().
JobsAreRun == (pending > 0) ~> (pending = 0)

\* The worker implements the service its header promises: to a caller, the
\* two threads, the mutex and the condition look like one sequential object.
Service == INSTANCE WorkerService WITH
             alive <- status_ # NOT_OK, busy <- status_ = WORK,
             failed <- had_error, answer <- reply

\* Refinement of that abstract specification, its fairness included.
ImplementsService == Service!Spec
=============================================================================
