----------------------------- MODULE ThreadPool -----------------------------
(***************************************************************************)
(* CPLWorkerThreadPool and CPLJobQueue of                                  *)
(* utils/gdal-3.8.4/port/cpl_worker_thread_pool.cpp: a pool of worker      *)
(* threads started on demand, a list of waiting workers each with a mutex  *)
(* and a condition variable of its own, and job queues that count the jobs *)
(* one thread has submitted.                                               *)
(*                                                                         *)
(* A client submits its jobs and waits for them; a job does the same with  *)
(* the jobs below it, which is what makes the pool hard: the thread that   *)
(* waits is one of the threads it waits for.  A section under a mutex is   *)
(* one step, except where a second mutex is taken inside it.               *)
(***************************************************************************)
EXTENDS Integers, Sequences, FiniteSets

CONSTANTS
  Clients,      \* application threads
  Jobs,         \* jobs submitted in one life of the pool
  Parent,       \* who submits a job: a client or a job
  Batch,        \* those that use SubmitJobs; the others have a job queue
  Main,         \* the thread that sets the pool up and destroys it
  MaxThreads,   \* largest nThreads of a Setup
  FaultSets     \* the faults of a run are one of these sets

Owners == Clients \cup Jobs
Workers == 1 .. MaxThreads

ASSUME ThreadsAssumption ==
  /\ Clients \cap Jobs = {} /\ Main \notin Owners
  /\ IsFiniteSet(Jobs)
  /\ Parent \in [Jobs -> Owners] /\ Batch \subseteq Owners
  /\ MaxThreads \in Nat \ {0}
(* Jobs are below those that submit them. *)
ASSUME TreeAssumption == \A S \in SUBSET Jobs : S # {} => \E j \in S : Parent[j] \notin S
ASSUME FaultsAssumption == FaultSets \subseteq SUBSET {"alloc", "thread", "wakeup"}

VARIABLES
  faults, eager,         \* what may fail; bWaitallStarted of the Setup
  psJobQueue, nPendingJobs,
  psWaiting, nWaiting,   \* ps- and nWaitingWorkerThreads(List)
  marked,                \* bMarkedAsWaiting of each worker
  aWT, maxThreads,       \* threads started, threads allowed
  eState,
  m_mutex, wtMutex,      \* is the mutex of the pool, of a worker, held?
  sleepers,              \* threads waiting on the pool's m_cv
  at, cur, target,       \* each owner: where it is, its job in hand, the
                         \* worker it is waking up
  left,                  \* m_nPendingJobs of its job queue
  wakes,                 \* wake-ups a SubmitJobs still owes
  wpc, job,              \* each worker: where it is, the job it took
  thread,                \* the worker that executes a job, 0 for none
  joined                 \* workers the destructor has joined

jobs == <<psJobQueue, nPendingJobs>>
waiting == <<psWaiting, nWaiting, marked>>
threads == <<aWT, maxThreads, eState>>
locks == <<m_mutex, wtMutex>>
owner == <<at, cur, target, left, wakes>>
worker == <<wpc, job, thread>>
vars == <<faults, eager, jobs, waiting, threads, locks, sleepers, owner, worker,
          joined>>

NoJob == Main

Init ==
  /\ faults \in FaultSets /\ eager \in BOOLEAN
  /\ psJobQueue = <<>> /\ nPendingJobs = 0
  /\ psWaiting = <<>> /\ nWaiting = 0 /\ marked = [w \in Workers |-> FALSE]
  /\ aWT = 0 /\ maxThreads \in Workers /\ eState = "ok"
  /\ m_mutex = FALSE /\ wtMutex = [w \in Workers |-> FALSE]
  /\ sleepers = {}
  /\ at = [o \in Owners \cup {Main} |->
             IF o \in Jobs THEN "new" ELSE IF o = Main THEN "setup" ELSE "run"]
  /\ cur = [o \in Owners |-> NoJob] /\ target = [o \in Owners |-> 0]
  /\ left = [o \in Owners |-> 0] /\ wakes = [o \in Owners |-> 0]
  /\ wpc = [w \in Workers |-> "none"] /\ job = [w \in Workers |-> NoJob]
  /\ thread = [j \in Jobs |-> 0]
  /\ joined = 0

Children(o) == {j \in Jobs : Parent[j] = o}
Unsubmitted(o) == {j \in Children(o) : at[j] = "new"}

(* Sequences without repetition of the elements of a set. *)
Listings(S) == {q \in [1 .. Cardinality(S) -> S] : \A a, b \in DOMAIN q : q[a] = q[b] => a = b}

(* m_cv.notify_one(): any one of the sleepers, if there is one. *)
NobodyNotified == UNCHANGED sleepers
NotifyOne == sleepers' \in IF sleepers = {} THEN {{}}
                           ELSE {sleepers \ {x} : x \in sleepers}

(* A worker that waits on its own m_cv goes back to GetNextJob. *)
Wake(w) == wpc' = [wpc EXCEPT ![w] = IF @ = "asleep" THEN "get" ELSE @]

Goto(o, where) == at' = [at EXCEPT ![o] = where]

(* How many of n jobs find a thread not started yet. *)
OnePerJob(n) == n
Startable(n) == IF n < maxThreads - aWT THEN n
                ELSE IF aWT < maxThreads THEN maxThreads - aWT ELSE 0

(* CPLCreateJoinableThread, n times. *)
Spawn(n) ==
  /\ aWT' = aWT + n
  /\ wpc' = [w \in Workers |-> IF aWT < w /\ w <= aWT + n THEN "get" ELSE wpc[w]]
-----------------------------------------------------------------------------
(***************************************************************************)
(* Setup, by the thread that owns the pool.                                *)
(***************************************************************************)
SetupLazily ==
  /\ at[Main] = "setup" /\ ~eager
  /\ Goto(Main, "serving")
  /\ UNCHANGED <<faults, eager, jobs, waiting, threads, locks, sleepers, cur,
                 target, left, wakes, worker, joined>>

SetupThread ==
  /\ at[Main] = "setup" /\ eager /\ aWT < maxThreads
  /\ Spawn(1)
  /\ UNCHANGED <<faults, eager, jobs, waiting, maxThreads, eState, locks,
                 sleepers, owner, job, thread, joined>>

(* When Setup returns false nobody submits to the pool. *)
Abandon(where) ==
  at' = [o \in DOMAIN at |-> IF o \in Clients THEN "done"
                             ELSE IF o = Main THEN where ELSE at[o]]

(* A thread cannot be created: the pool has the ones it got so far. *)
SetupFails ==
  /\ at[Main] = "setup" /\ eager /\ aWT < maxThreads /\ "thread" \in faults
  /\ maxThreads' = aWT
  /\ Abandon("setup")
  /\ UNCHANGED <<faults, eager, jobs, waiting, aWT, eState, locks, sleepers,
                 cur, target, left, wakes, worker, joined>>

(* while( nWaitingWorkerThreads < nThreads ) m_cv.wait(oGuard)             *)
SetupWait ==
  /\ at[Main] = "setup" /\ eager /\ aWT = maxThreads /\ Main \notin sleepers
  /\ ~m_mutex
  /\ IF nWaiting < maxThreads
       THEN sleepers' = sleepers \cup {Main} /\ UNCHANGED at
       ELSE /\ UNCHANGED sleepers
            /\ IF eState = "error" THEN Abandon("serving") ELSE Goto(Main, "serving")
  /\ UNCHANGED <<faults, eager, jobs, waiting, threads, locks, cur, target,
                 left, wakes, worker, joined>>

(* GDALGetGlobalThreadPool with a larger nThreads. *)
Resize(n) ==
  /\ at[Main] = "serving" /\ ~eager /\ ~m_mutex /\ n > maxThreads
  /\ \E c \in Clients : at[c] # "done"
  /\ maxThreads' = n
  /\ UNCHANGED <<faults, eager, jobs, waiting, aWT, eState, locks, sleepers,
                 owner, worker, joined>>
-----------------------------------------------------------------------------
(***************************************************************************)
(* CPLJobQueue::SubmitJob, then CPLWorkerThreadPool::SubmitJob.            *)
(***************************************************************************)
Serving(o) == at[o] = "run" /\ (o \in Clients => at[Main] = "serving")

QueueSubmit(o, j) ==
  /\ Serving(o) /\ o \notin Batch /\ j \in Unsubmitted(o)
  /\ left' = [left EXCEPT ![o] = @ + 1]
  /\ at' = [at EXCEPT ![o] = "submit", ![j] = "submitted"]
  /\ cur' = [cur EXCEPT ![o] = j]
  /\ UNCHANGED <<faults, eager, jobs, waiting, threads, locks, sleepers, target,
                 wakes, worker, joined>>

(* A thread of the pool may leave a job to the others only while there is  *)
(* another one to take it.                                                 *)
AlwaysSpare == TRUE
SpareThread == nWaiting > 0 \/ aWT < maxThreads

Reserve(o) ==
  /\ o \in Jobs /\ at[o] = "submit" /\ ~m_mutex /\ SpareThread
  /\ nWaiting' = nWaiting - 1
  /\ Goto(o, "reserved")
  /\ UNCHANGED <<faults, eager, jobs, psWaiting, marked, threads, locks,
                 sleepers, cur, target, left, wakes, worker, joined>>

RunHere(o, j) ==
  /\ at' = [at EXCEPT ![o] = "sync", ![j] = "run"]
  /\ cur' = [cur EXCEPT ![o] = j]
  /\ thread' = [thread EXCEPT ![j] = thread[o]]

(* "otherwise there is a risk of deadlock, so execute synchronously" *)
RunSynchronously(o) ==
  /\ o \in Jobs /\ at[o] = "submit" /\ ~m_mutex /\ ~SpareThread
  /\ RunHere(o, cur[o])
  /\ UNCHANGED <<faults, eager, jobs, waiting, threads, locks, sleepers, target,
                 left, wakes, wpc, job, joined>>

(* SubmitJobs from a thread of the pool runs them one by one. *)
RunBatchHere(o, j) ==
  /\ o \in Jobs \cap Batch /\ at[o] = "run" /\ j \in Unsubmitted(o)
  /\ RunHere(o, j)
  /\ UNCHANGED <<faults, eager, jobs, waiting, threads, locks, sleepers, target,
                 left, wakes, wpc, job, joined>>

RunReturns(o) ==
  /\ at[o] = "sync" /\ at[cur[o]] = "ended"
  /\ Goto(o, "run")
  /\ UNCHANGED <<faults, eager, jobs, waiting, threads, locks, sleepers, cur,
                 target, left, wakes, worker, joined>>

(* Out of memory, or no thread: the reservation is undone, the job is      *)
(* dropped, and the count of the job queue keeps it.                       *)
NotGivenBack(o) == 0
Reservation(o) == IF at[o] = "reserved" THEN 1 ELSE 0
ReadyToQueue(o) == \/ o \in Clients /\ at[o] = "submit"
                   \/ o \in Jobs /\ at[o] = "reserved"

SubmitFails(o) ==
  /\ ReadyToQueue(o) /\ ~m_mutex
  /\ "alloc" \in faults \/ ("thread" \in faults /\ aWT < maxThreads)
  /\ nWaiting' = nWaiting + Reservation(o)
  /\ at' = [at EXCEPT ![o] = "run", ![cur[o]] = "dropped"]
  /\ UNCHANGED <<faults, eager, jobs, psWaiting, marked, threads, locks,
                 sleepers, cur, target, left, wakes, worker, joined>>

(* The head of the waiting list is unlinked under m_mutex; its own mutex   *)
(* is taken before m_mutex is released.                                    *)
Unlink(o, n, where) ==
  IF psWaiting = <<>>
    THEN /\ nWaiting' = n
         /\ Goto(o, where)
         /\ UNCHANGED <<psWaiting, marked, m_mutex, target>>
    ELSE /\ nWaiting' = n - 1
         /\ psWaiting' = Tail(psWaiting)
         /\ marked' = [marked EXCEPT ![Head(psWaiting)] = FALSE]
         /\ target' = [target EXCEPT ![o] = Head(psWaiting)]
         /\ m_mutex' = TRUE
         /\ Goto(o, "handover")

Enqueue(o) ==
  /\ ReadyToQueue(o) /\ ~m_mutex
  /\ Spawn(Startable(1))
  /\ psJobQueue' = <<cur[o]>> \o psJobQueue
  /\ nPendingJobs' = nPendingJobs + 1
  /\ Unlink(o, nWaiting + Reservation(o), "run")
  /\ UNCHANGED <<faults, eager, maxThreads, eState, wtMutex, sleepers, cur, left,
                 wakes, job, thread, joined>>

TakeWorkerMutex(o) ==
  /\ at[o] = "handover" /\ ~wtMutex[target[o]]
  /\ wtMutex' = [wtMutex EXCEPT ![target[o]] = TRUE]
  /\ m_mutex' = FALSE
  /\ Goto(o, "notify")
  /\ UNCHANGED <<faults, eager, jobs, waiting, threads, sleepers, cur, target,
                 left, wakes, worker, joined>>

NotifyWorker(o) ==
  /\ at[o] = "notify"
  /\ Wake(target[o])
  /\ wtMutex' = [wtMutex EXCEPT ![target[o]] = FALSE]
  /\ Goto(o, IF o \in Batch THEN "relock" ELSE "run")
  /\ UNCHANGED <<faults, eager, jobs, waiting, threads, m_mutex, sleepers, cur,
                 target, left, wakes, job, thread, joined>>

(***************************************************************************)
(* SubmitJobs of an application thread, then WaitCompletion of the pool.   *)
(***************************************************************************)
(* All the jobs go into the list and threads are started in one section,   *)
(* in which the first waiting worker is unlinked as well.  A thread that   *)
(* cannot be created is done without, unless there is none at all.         *)
Started(n) == IF "thread" \in faults THEN 0 .. Startable(n) ELSE {Startable(n)}

SubmitJobs(c) ==
  /\ Serving(c) /\ c \in Clients \cap Batch /\ ~m_mutex
  /\ LET n == Cardinality(Children(c)) IN
       /\ \E k \in Started(n) : aWT + k > 0 /\ Spawn(k)
       /\ \E q \in Listings(Children(c)) : psJobQueue' = q \o psJobQueue
       /\ nPendingJobs' = nPendingJobs + n
       /\ wakes' = [wakes EXCEPT ![c] = n]
  /\ m_mutex' = TRUE
  /\ at' = [o \in DOMAIN at |-> IF o \in Children(c) THEN "submitted"
                                ELSE IF o = c THEN "wake" ELSE at[o]]
  /\ UNCHANGED <<faults, eager, waiting, maxThreads, eState, wtMutex, sleepers,
                 cur, target, left, job, thread, joined>>

SubmitJobsFails(c) ==
  /\ Serving(c) /\ c \in Clients \cap Batch /\ ~m_mutex
  /\ "thread" \in faults /\ aWT = 0
  /\ Goto(c, "poolwait")
  /\ UNCHANGED <<faults, eager, jobs, waiting, threads, locks, sleepers, cur,
                 target, left, wakes, worker, joined>>

MoreToWake(c) == wakes[c] > 0 /\ psJobQueue # <<>> /\ psWaiting # <<>>

WakeNext(c) ==
  /\ at[c] = "wake" /\ MoreToWake(c)
  /\ wakes' = [wakes EXCEPT ![c] = @ - 1]
  /\ Unlink(c, nWaiting, "wake")
  /\ UNCHANGED <<faults, eager, jobs, threads, wtMutex, sleepers, cur, left,
                 worker, joined>>

(* oGuard.lock() for the next round. *)
Relock(c) ==
  /\ at[c] = "relock" /\ ~m_mutex
  /\ m_mutex' = TRUE
  /\ Goto(c, "wake")
  /\ UNCHANGED <<faults, eager, jobs, waiting, threads, wtMutex, sleepers, cur,
                 target, left, wakes, worker, joined>>

WakeDone(c) ==
  /\ at[c] = "wake" /\ ~MoreToWake(c)
  /\ m_mutex' = FALSE
  /\ wakes' = [wakes EXCEPT ![c] = 0]
  /\ Goto(c, "poolwait")
  /\ UNCHANGED <<faults, eager, jobs, waiting, threads, wtMutex, sleepers, cur,
                 target, left, worker, joined>>

(* while( nPendingJobs > 0 ) m_cv.wait(oGuard)                             *)
WaitCompletion(x, next) ==
  /\ x \notin sleepers /\ ~m_mutex
  /\ IF nPendingJobs > 0
       THEN sleepers' = sleepers \cup {x} /\ UNCHANGED at
       ELSE Goto(x, next) /\ UNCHANGED sleepers

PoolWait(c) ==
  /\ at[c] = "poolwait" /\ WaitCompletion(c, "done")
  /\ UNCHANGED <<faults, eager, jobs, waiting, threads, locks, cur, target,
                 left, wakes, worker, joined>>
-----------------------------------------------------------------------------
(***************************************************************************)
(* CPLJobQueue::WaitCompletion.  Its m_cv has one waiter, and every change *)
(* of the count signals it: the wait is for the count to be 0.             *)
(***************************************************************************)
Submitted(o) == at[o] = "run" /\ Unsubmitted(o) = {}
AtMostOneLeft(o) == left[o] <= 1
QueueDone(o) == left[o] = 0

QueueWait(c) ==
  /\ c \in Clients \ Batch /\ Serving(c) /\ Submitted(c) /\ QueueDone(c)
  /\ Goto(c, "done")
  /\ UNCHANGED <<faults, eager, jobs, waiting, threads, locks, sleepers, cur,
                 target, left, wakes, worker, joined>>

(* A job waits for its own queue and returns; if it came through a queue   *)
(* that queue's DeclareJobFinished follows.                                *)
JobReturns(j) ==
  /\ j \in Jobs /\ Submitted(j) /\ QueueDone(j)
  /\ Goto(j, "ended")
  /\ left' = IF Parent[j] \in Batch THEN left
             ELSE [left EXCEPT ![Parent[j]] = @ - 1]
  /\ UNCHANGED <<faults, eager, jobs, waiting, threads, locks, sleepers, cur,
                 target, wakes, worker, joined>>
-----------------------------------------------------------------------------
(***************************************************************************)
(* WorkerThreadFunction and GetNextJob.                                    *)
(***************************************************************************)
(* The list once the worker has taken its head. *)
WithTopJob == psJobQueue
WithoutTopJob == Tail(psJobQueue)

GetJob(w) ==
  /\ wpc[w] = "get" /\ ~m_mutex /\ eState # "stop" /\ psJobQueue # <<>>
  /\ LET j == Head(psJobQueue) IN
       /\ job' = [job EXCEPT ![w] = j]
       /\ thread' = [thread EXCEPT ![j] = w]
       /\ Goto(j, "run")
  /\ psJobQueue' = WithoutTopJob
  /\ wpc' = [wpc EXCEPT ![w] = "busy"]
  /\ UNCHANGED <<faults, eager, nPendingJobs, waiting, threads, locks, sleepers,
                 cur, target, left, wakes, joined>>

StopWorker(w) ==
  /\ wpc[w] = "get" /\ ~m_mutex /\ eState = "stop"
  /\ wpc' = [wpc EXCEPT ![w] = "exited"]
  /\ UNCHANGED <<faults, eager, jobs, waiting, threads, locks, sleepers, owner,
                 job, thread, joined>>

NothingToDo(w) ==
  wpc[w] = "get" /\ ~m_mutex /\ eState # "stop" /\ psJobQueue = <<>>

(* With no job the worker enters the waiting list, unless it is in it, and *)
(* takes its own mutex before it releases the pool's.                      *)
MarkAsWaiting(w) ==
  /\ NothingToDo(w)
  /\ IF marked[w] THEN UNCHANGED waiting
     ELSE /\ marked' = [marked EXCEPT ![w] = TRUE]
          /\ nWaiting' = nWaiting + 1
          /\ psWaiting' = <<w>> \o psWaiting
  /\ NotifyOne
  /\ m_mutex' = TRUE
  /\ wpc' = [wpc EXCEPT ![w] = "marked"]
  /\ UNCHANGED <<faults, eager, jobs, threads, wtMutex, owner, job, thread,
                 joined>>

(* No memory for the list item: the thread ends, counted as waiting. *)
MarkFails(w) ==
  /\ NothingToDo(w) /\ ~marked[w] /\ "alloc" \in faults
  /\ marked' = [marked EXCEPT ![w] = TRUE]
  /\ nWaiting' = nWaiting + 1
  /\ eState' = "error"
  /\ NotifyOne
  /\ wpc' = [wpc EXCEPT ![w] = "exited"]
  /\ UNCHANGED <<faults, eager, jobs, psWaiting, aWT, maxThreads, locks, owner,
                 job, thread, joined>>

TakeOwnMutex(w) ==
  /\ wpc[w] = "marked" /\ ~wtMutex[w]
  /\ wtMutex' = [wtMutex EXCEPT ![w] = TRUE]
  /\ m_mutex' = FALSE
  /\ wpc' = [wpc EXCEPT ![w] = "drowsy"]
  /\ UNCHANGED <<faults, eager, jobs, waiting, threads, sleepers, owner, job,
                 thread, joined>>

Sleep(w) ==
  /\ wpc[w] = "drowsy"
  /\ wtMutex' = [wtMutex EXCEPT ![w] = FALSE]
  /\ wpc' = [wpc EXCEPT ![w] = "asleep"]
  /\ UNCHANGED <<faults, eager, jobs, waiting, threads, m_mutex, sleepers, owner,
                 job, thread, joined>>

(* A condition variable may return from wait() without a notification. *)
SpuriousWakeup(w) ==
  /\ "wakeup" \in faults /\ wpc[w] = "asleep" /\ ~wtMutex[w]
  /\ Wake(w)
  /\ UNCHANGED <<faults, eager, jobs, waiting, threads, locks, sleepers, owner,
                 job, thread, joined>>

(* The job returned: DeclareJobFinished of the pool. *)
DeclareJobFinished(w) ==
  /\ wpc[w] = "busy" /\ at[job[w]] = "ended" /\ ~m_mutex
  /\ nPendingJobs' = nPendingJobs - 1
  /\ NotifyOne
  /\ wpc' = [wpc EXCEPT ![w] = "get"] /\ job' = [job EXCEPT ![w] = NoJob]
  /\ UNCHANGED <<faults, eager, psJobQueue, waiting, threads, locks, owner,
                 thread, joined>>
-----------------------------------------------------------------------------
(***************************************************************************)
(* ~CPLWorkerThreadPool, when nobody uses the pool any more.               *)
(***************************************************************************)
DestroyWait ==
  /\ at[Main] = "serving" /\ \A c \in Clients : at[c] = "done"
  /\ WaitCompletion(Main, "stop")
  /\ UNCHANGED <<faults, eager, jobs, waiting, threads, locks, cur, target,
                 left, wakes, worker, joined>>

Stop ==
  /\ at[Main] = "stop" /\ ~m_mutex
  /\ eState' = "stop"
  /\ Goto(Main, "join")
  /\ UNCHANGED <<faults, eager, jobs, waiting, aWT, maxThreads, locks, sleepers,
                 cur, target, left, wakes, worker, joined>>

(* The next worker is notified under its own mutex, then joined. *)
Unguarded(w) == TRUE
MutexFree(w) == ~wtMutex[w]

NotifyStop ==
  /\ at[Main] = "join" /\ joined < aWT /\ MutexFree(joined + 1)
  /\ Wake(joined + 1)
  /\ Goto(Main, "joining")
  /\ UNCHANGED <<faults, eager, jobs, waiting, threads, locks, sleepers, cur,
                 target, left, wakes, job, thread, joined>>

Join ==
  /\ at[Main] = "joining" /\ wpc[joined + 1] = "exited"
  /\ joined' = joined + 1
  /\ Goto(Main, "join")
  /\ UNCHANGED <<faults, eager, jobs, waiting, threads, locks, sleepers, cur,
                 target, left, wakes, worker>>

Destroyed == at[Main] = "join" /\ joined = aWT

SetupStep == SetupLazily \/ SetupThread \/ SetupFails \/ SetupWait
MainStep == SetupStep \/ DestroyWait \/ Stop \/ NotifyStop \/ Join

OwnerStep(o) ==
  \/ \E j \in Jobs : QueueSubmit(o, j) \/ RunBatchHere(o, j)
  \/ Reserve(o) \/ RunSynchronously(o) \/ RunReturns(o)
  \/ SubmitFails(o) \/ Enqueue(o) \/ TakeWorkerMutex(o) \/ NotifyWorker(o)
  \/ SubmitJobs(o) \/ SubmitJobsFails(o)
  \/ WakeNext(o) \/ Relock(o) \/ WakeDone(o)
  \/ PoolWait(o) \/ QueueWait(o) \/ JobReturns(o)

WorkerStep(w) ==
  \/ GetJob(w) \/ StopWorker(w) \/ MarkAsWaiting(w) \/ MarkFails(w)
  \/ TakeOwnMutex(w) \/ Sleep(w) \/ DeclareJobFinished(w)

Next ==
  \/ MainStep
  \/ \E n \in Workers : Resize(n)
  \/ \E o \in Owners : OwnerStep(o)
  \/ \E w \in Workers : WorkerStep(w) \/ SpuriousWakeup(w)
  \/ Destroyed /\ UNCHANGED vars

Spec == Init /\ [][Next]_vars
FairSpec ==
  /\ Spec
  /\ WF_vars(MainStep)
  /\ \A o \in Owners : WF_vars(OwnerStep(o))
  /\ \A w \in Workers : WF_vars(WorkerStep(w))
-----------------------------------------------------------------------------
Alive(j) == at[j] \notin {"new", "submitted", "ended", "dropped"}

(* Types of the variables (cpl_worker_thread_pool.h:48-140). *)
TypeOK ==
  /\ faults \in FaultSets /\ eager \in BOOLEAN
  /\ psJobQueue \in Seq(Jobs) /\ nPendingJobs \in Nat
  /\ psWaiting \in Seq(Workers) /\ nWaiting \in Int
  /\ marked \in [Workers -> BOOLEAN]
  /\ aWT \in 0 .. MaxThreads /\ maxThreads \in 0 .. MaxThreads
  /\ eState \in {"ok", "error", "stop"}
  /\ m_mutex \in BOOLEAN /\ wtMutex \in [Workers -> BOOLEAN]
  /\ sleepers \subseteq Owners \cup {Main}
  /\ at \in [Owners \cup {Main} ->
        {"new", "submitted", "run", "submit", "reserved", "handover", "notify",
         "sync", "wake", "relock", "poolwait", "ended", "dropped", "done",
         "setup", "serving", "stop", "join", "joining"}]
  /\ cur \in [Owners -> Jobs \cup {NoJob}]
  /\ target \in [Owners -> Workers \cup {0}]
  /\ left \in [Owners -> Nat] /\ wakes \in [Owners -> Nat]
  /\ wpc \in [Workers -> {"none", "get", "marked", "drowsy", "asleep", "busy", "exited"}]
  /\ job \in [Workers -> Jobs \cup {NoJob}]
  /\ thread \in [Jobs -> Workers \cup {0}]
  /\ joined \in 0 .. MaxThreads

Busy == {w \in Workers : wpc[w] = "busy"}
Coming(w) == \E o \in Owners : at[o] \in {"handover", "notify"} /\ target[o] = w

(* A job is in the list once or with one worker, never both, and           *)
(* nPendingJobs, on which WaitCompletion waits, counts exactly these       *)
(* (cpl_worker_thread_pool.cpp: SubmitJob, SubmitJobs, DeclareJobFinished   *)
(* and GetNextJob, lines 211-213, 320-322, 511-516, 532-544).              *)
JobsAccounted ==
  /\ \A k, l \in DOMAIN psJobQueue : psJobQueue[k] = psJobQueue[l] => k = l
  /\ \A k \in DOMAIN psJobQueue : at[psJobQueue[k]] = "submitted"
  /\ \A w \in Busy : /\ job[w] \in Jobs /\ thread[job[w]] = w
                     /\ Alive(job[w]) \/ at[job[w]] = "ended"
  /\ nPendingJobs = Len(psJobQueue) + Cardinality(Busy)

(* nWaitingWorkerThreads, which decides whether a job of the pool may be   *)
(* left to another thread, is the length of the waiting list less the      *)
(* reservations between the two sections of SubmitJob (lines 141-147, 188, *)
(* 219-226, 546-569); a worker is in the list exactly while it is marked.  *)
WaitingAccounted ==
  /\ \A k, l \in DOMAIN psWaiting : psWaiting[k] = psWaiting[l] => k = l
  /\ \A w \in Workers :
       LET listed == \E k \in DOMAIN psWaiting : psWaiting[k] = w IN
         /\ listed => marked[w]
         /\ marked[w] => listed \/ (wpc[w] = "exited" /\ "alloc" \in faults)
  /\ "alloc" \notin faults =>
       nWaiting = Len(psWaiting) - Cardinality({o \in Jobs : at[o] = "reserved"})

(* A sleeping worker is either in the waiting list or about to be          *)
(* notified, and once the pool is stopped no worker sleeps that the        *)
(* destructor has already notified (lines 77-84, 233-237, 577-579).        *)
NoLostWakeup ==
  \A w \in Workers : wpc[w] = "asleep" =>
    /\ marked[w] \/ Coming(w)
    /\ at[Main] = "joining" => w > joined + 1

(* A thread waits in WaitCompletion of the queue of one of its jobs. *)
Blocked(w) == \E j \in Jobs : /\ thread[j] = w /\ Submitted(j) /\ ~QueueDone(j)

(* While a job is in the list there is a thread that will take it: one     *)
(* that is awake or about to be notified, or busy with jobs none of which  *)
(* waits for another.  SubmitJob of a pool thread counts on that: "if      *)
(* there are waiting threads or we have not started all allowed threads,   *)
(* we can submit this job asynchronously", "otherwise there is a risk of   *)
(* deadlock" (lines 138-155).                                              *)
NestedJobsProceed ==
  psJobQueue # <<>> =>
    \/ \E w \in 1 .. aWT : \/ wpc[w] = "get" \/ Coming(w)
                          \/ (wpc[w] = "busy" /\ ~Blocked(w))
    \/ \E c \in Clients : at[c] = "wake" /\ MoreToWake(c)

(* It holds, for jobs nested to any depth in any number of threads, while  *)
(* nothing fails and no condition variable returns without a notification. *)
JobsCanProceed == faults = {} => NestedJobsProceed

(* What a client or a job is to ForkJoin, which knows neither threads nor  *)
(* lists: where it stands between its submission and its return.           *)
Now(o) == CASE at[o] = "new" -> "new"
            [] at[o] = "submitted" -> "ready"
            [] at[o] = "dropped" -> "lost"
            [] at[o] \in {"ended", "done"} -> "ended"
            [] OTHER -> "running"
Image == [o \in Owners |-> Now(o)]
Promise == INSTANCE ForkJoin WITH Roots <- Clients, state <- Image

(* WaitCompletion, of a queue or of the pool, and the synchronous calls    *)
(* return only when every job submitted has ended: the pool implements     *)
(* ForkJoin (lines 394-398, 634-638, 692-696).                             *)
ImplementsForkJoin == Promise!FJSpec

(* When nothing fails every job runs, every client returns from its wait   *)
(* and the destructor joins all the workers, however deep the jobs nest    *)
(* and however few threads there are (lines 68-87, 131-245, 394-398).      *)
EverybodyReturns == faults = {} => <>(Destroyed /\ \A j \in Jobs : at[j] = "ended")
=============================================================================
