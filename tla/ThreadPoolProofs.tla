-------------------------- MODULE ThreadPoolProofs --------------------------
(***************************************************************************)
(* What holds of ThreadPool for any number of clients and threads and any  *)
(* tree of jobs, with and without faults.                                  *)
(***************************************************************************)
EXTENDS ThreadPool, FiniteSetTheorems, TLAPS

Running(o) == at[o] \in {"run", "submit", "reserved", "handover", "notify",
                         "sync", "wake", "relock", "poolwait"}
Over(j) == at[j] \in {"new", "ended"}
Queued(j) == \E k \in DOMAIN psJobQueue : psJobQueue[k] = j
Outstanding(o) == {j \in Children(o) : ~Over(j)}

(* Who may be where. *)
Places ==
  /\ at[Main] \in {"setup", "serving", "stop", "join", "joining"}
  /\ \A o \in Owners :
       /\ at[o] \notin {"setup", "serving", "stop", "join", "joining"}
       /\ at[o] \in {"wake", "relock", "poolwait"} => o \in Clients \cap Batch
       /\ at[o] \in {"submit", "reserved"} => o \notin Batch
       /\ at[o] \in {"handover", "notify"} /\ o \in Batch => o \in Clients
       /\ at[o] \in {"new", "submitted", "dropped", "ended", "reserved", "sync"} => o \in Jobs
       /\ at[o] = "done" => o \in Clients
  /\ at[Main] = "setup" => /\ \A j \in Jobs : at[j] = "new"
                           /\ \A c \in Clients : at[c] \in {"run", "done"}

ThreadsStarted ==
  /\ \A w \in Workers : w > aWT => wpc[w] = "none"
  /\ at[Main] = "joining" => joined < aWT

(* A job is submitted or runs only below an owner that is still running. *)
Nested == \A j \in Jobs :
  at[j] \notin {"new", "ended", "dropped"} => Running(Parent[j])

(* The job an owner is submitting is its own and nobody else has it. *)
InHand == \A o \in Owners : at[o] \in {"submit", "reserved"} =>
  /\ cur[o] \in Children(o) /\ at[cur[o]] = "submitted"
  /\ ~Queued(cur[o])

(* m_nPendingJobs of a queue counts the jobs its owner waits for. *)
Counting == \A o \in Owners \ Batch : left[o] = Cardinality(Outstanding(o))

(* SubmitJobs keeps no count: inside the pool its jobs run one by one,     *)
(* outside each is in the list or with a worker.                           *)
BatchJobs == \A o \in Jobs \cap Batch : \A j \in Children(o) :
  Over(j) \/ (Alive(j) /\ at[o] = "sync" /\ j = cur[o])

BatchClients == \A c \in Clients \cap Batch : \A j \in Children(c) :
  /\ at[c] = "run" => at[j] = "new"
  /\ \/ Over(j)
     \/ at[j] = "submitted" /\ Queued(j)
     \/ Alive(j) /\ \E w \in Busy : job[w] = j

Stages == Nested /\ InHand /\ Counting /\ BatchJobs /\ BatchClients

Inv == TypeOK /\ Places /\ ThreadsStarted /\ JobsAccounted /\ Stages
-----------------------------------------------------------------------------
(***************************************************************************)
(* Finite sets and sequences.                                              *)
(***************************************************************************)
LEMMA FiniteSubsets ==
  /\ IsFiniteSet(Workers) /\ IsFiniteSet(Busy)
  /\ \A o : IsFiniteSet(Children(o)) /\ IsFiniteSet(Outstanding(o))
<1>1. IsFiniteSet(Workers)
  BY FS_Interval, ThreadsAssumption DEF Workers
<1>2. Busy \subseteq Workers
  BY DEF Busy
<1>3. \A o : Children(o) \subseteq Jobs /\ Outstanding(o) \subseteq Jobs
  BY DEF Children, Outstanding
<1>4. \A S \in SUBSET Jobs : IsFiniteSet(S)
  BY FS_Subset, ThreadsAssumption
<1> QED
  BY <1>1, <1>2, <1>3, <1>4, FS_Subset

LEMMA TailFacts ==
  ASSUME NEW q \in Seq(Jobs), q # <<>>
  PROVE  /\ Tail(q) \in Seq(Jobs) /\ Len(Tail(q)) = Len(q) - 1
         /\ Head(q) = q[1] /\ 1 \in DOMAIN q /\ Head(q) \in Jobs
         /\ \A k \in DOMAIN Tail(q) : k + 1 \in DOMAIN q /\ Tail(q)[k] = q[k + 1]
         /\ \A k \in DOMAIN q \ {1} : k - 1 \in DOMAIN Tail(q) /\ Tail(q)[k - 1] = q[k]
  OBVIOUS

LEMMA ConcatFacts ==
  ASSUME NEW p \in Seq(Jobs), NEW q \in Seq(Jobs)
  PROVE  /\ p \o q \in Seq(Jobs) /\ Len(p \o q) = Len(p) + Len(q)
         /\ DOMAIN (p \o q) = 1 .. (Len(p) + Len(q))
         /\ \A k \in DOMAIN p : (p \o q)[k] = p[k]
         /\ \A k \in DOMAIN q : (p \o q)[Len(p) + k] = q[k]
         /\ \A k \in DOMAIN (p \o q) : \/ k \in DOMAIN p /\ (p \o q)[k] = p[k]
                                       \/ k - Len(p) \in DOMAIN q /\ (p \o q)[k] = q[k - Len(p)]
  OBVIOUS

(* Two lists without repetitions and without a common element. *)
LEMMA DistinctConcat ==
  ASSUME NEW p \in Seq(Jobs), NEW q \in Seq(Jobs),
         \A k, l \in DOMAIN p : p[k] = p[l] => k = l,
         \A k, l \in DOMAIN q : q[k] = q[l] => k = l,
         \A k \in DOMAIN p, l \in DOMAIN q : p[k] # q[l]
  PROVE  \A k, l \in DOMAIN (p \o q) : (p \o q)[k] = (p \o q)[l] => k = l
<1> DEFINE r == p \o q
<1>1. \A k \in DOMAIN r : \/ k \in DOMAIN p /\ r[k] = p[k]
                          \/ k - Len(p) \in DOMAIN q /\ r[k] = q[k - Len(p)]
  BY ConcatFacts
<1>2. DOMAIN r \subseteq Int /\ Len(p) \in Int
  BY ConcatFacts
<1> HIDE DEF r
<1>3. \A k, l \in DOMAIN r : r[k] = r[l] => k = l
  BY <1>1, <1>2
<1> QED
  BY <1>3 DEF r

LEMMA ListingFacts ==
  ASSUME NEW S \in SUBSET Jobs, NEW q \in Listings(S)
  PROVE  /\ q \in Seq(Jobs) /\ Len(q) = Cardinality(S) /\ Cardinality(S) \in Nat
         /\ \A k, l \in DOMAIN q : q[k] = q[l] => k = l
         /\ \A k \in DOMAIN q : q[k] \in S
         /\ \A j \in S : \E k \in DOMAIN q : q[k] = j
<1>1. IsFiniteSet(S) /\ Cardinality(S) \in Nat
  BY FS_Subset, FS_CardinalityType, ThreadsAssumption
<1>2. /\ q \in [1 .. Cardinality(S) -> S]
      /\ \A k, l \in DOMAIN q : q[k] = q[l] => k = l
  BY DEF Listings
<1>3. q \in Seq(Jobs) /\ Len(q) = Cardinality(S)
  BY <1>1, <1>2
<1>4. \A j \in S : \E k \in DOMAIN q : q[k] = j
  <2> DEFINE D == 1 .. Cardinality(S)
  <2>1. IsFiniteSet(D) /\ Cardinality(D) = Cardinality(S)
    BY <1>1, FS_Interval
  <2>2. q \in Injection(D, S)
    BY <1>2 DEF Injection, IsInjective
  <2>3. q \in Surjection(D, S)
    BY <1>1, <2>1, <2>2, FS_Injection
  <2> QED
    BY <1>2, <2>3 DEF Surjection
<1> QED
  BY <1>1, <1>2, <1>3, <1>4
-----------------------------------------------------------------------------
LEMMA InvInit == Init => Inv
<1> SUFFICES ASSUME Init PROVE Inv
  OBVIOUS
<1> USE ThreadsAssumption
<1>1. Busy = {} /\ Cardinality(Busy) = 0
  BY FS_EmptySet DEF Init, Busy
<1>2. \A o \in Owners : Outstanding(o) = {}
  BY DEF Init, Outstanding, Children, Over, Owners
<1>3. TypeOK
  <2>1. at \in [Owners \cup {Main} -> {"new", "run", "setup"}]
    BY DEF Init, Owners
  <2>2. /\ psJobQueue \in Seq(Jobs) /\ psWaiting \in Seq(Workers)
        /\ marked \in [Workers -> BOOLEAN] /\ wtMutex \in [Workers -> BOOLEAN]
        /\ wpc \in [Workers -> {"none"}]
    BY DEF Init
  <2>3. /\ cur \in [Owners -> Jobs \cup {NoJob}] /\ target \in [Owners -> Workers \cup {0}]
        /\ left \in [Owners -> Nat] /\ wakes \in [Owners -> Nat]
        /\ job \in [Workers -> Jobs \cup {NoJob}] /\ thread \in [Jobs -> Workers \cup {0}]
    BY DEF Init
  <2>4. maxThreads \in 0 .. MaxThreads /\ aWT \in 0 .. MaxThreads /\ joined \in 0 .. MaxThreads
        /\ nWaiting \in Int /\ nPendingJobs \in Nat
    BY DEF Init, Workers
  <2> QED
    BY <2>1, <2>2, <2>3, <2>4 DEF Init, TypeOK
<1>4. Places /\ ThreadsStarted
  BY DEF Init, Places, ThreadsStarted, Owners, Workers
<1>5. JobsAccounted
  BY <1>1 DEF Init, JobsAccounted
<1>6. Counting
  BY <1>2, FS_EmptySet DEF Init, Counting
<1>7. Nested /\ InHand /\ BatchJobs /\ BatchClients
  BY DEF Init, Nested, InHand, BatchJobs, BatchClients, Over, Children, Owners
<1> QED
  BY <1>3, <1>4, <1>5, <1>6, <1>7 DEF Inv, Stages
-----------------------------------------------------------------------------
(***************************************************************************)
(* Most steps move no job: an owner goes from one place where it runs to   *)
(* another, or a client is done when the jobs below it are.                *)
(***************************************************************************)
Moves(o) ==
  /\ Running(o)
  /\ \/ /\ Running(o)' /\ at[o] # "sync" /\ at'[o] # "sync"
        /\ at'[o] \in {"submit", "reserved"} => at[o] \in {"submit", "reserved"}
        /\ at'[o] = "run" => o \notin Batch
     \/ /\ at[o] = "sync" /\ at'[o] = "run" /\ o \in Jobs
        /\ o \in Batch => at[cur[o]] = "ended"
     \/ /\ o \in Clients /\ at'[o] = "done"
        /\ \A j \in Children(o) : Over(j)

Quiet ==
  /\ UNCHANGED <<psJobQueue, nPendingJobs, left, cur, job, thread>>
  /\ \A w \in Workers : wpc[w] = "busy" <=> wpc'[w] = "busy"
  /\ \A o \in Owners : at'[o] = at[o] \/ Moves(o)

LEMMA QuietStep ==
  ASSUME Inv, Quiet, TypeOK', Places', ThreadsStarted'
  PROVE  Inv'
<1> USE ThreadsAssumption DEF Owners
<1>1. Busy' = Busy
  BY DEF Quiet, Busy
<1>2. \A j \in Jobs : /\ Over(j)' <=> Over(j)
                      /\ Alive(j)' <=> Alive(j)
                      /\ at[j] \in {"new", "submitted", "ended", "dropped"} => at'[j] = at[j]
                      /\ at'[j] \in {"new", "submitted", "ended", "dropped"} => at'[j] = at[j]
  BY DEF Quiet, Moves, Running, Over, Alive
<1>3. \A j : Queued(j)' <=> Queued(j)
  BY DEF Quiet, Queued
<1>4. \A o : Children(o)' = Children(o) /\ Children(o) \subseteq Jobs
  BY DEF Children
<1>5. JobsAccounted'
  <2>1. \A w \in Busy : job[w] \in Jobs
    BY DEF Inv, JobsAccounted
  <2>2. \A k \in DOMAIN psJobQueue : psJobQueue[k] \in Jobs
    BY DEF Inv, TypeOK
  <2> QED
    BY <1>1, <1>2, <2>1, <2>2 DEF Quiet, Inv, JobsAccounted
<1>6. Nested'
  <2> SUFFICES ASSUME NEW j \in Jobs, at'[j] \notin {"new", "ended", "dropped"}
               PROVE  Running(Parent[j])'
    BY DEF Nested
  <2>1. at[j] \notin {"new", "ended", "dropped"} /\ ~Over(j)
    BY <1>2 DEF Over
  <2>2. Running(Parent[j]) /\ Parent[j] \in Owners /\ j \in Children(Parent[j])
    BY <2>1 DEF Inv, Stages, Nested, Children
  <2> QED
    BY <2>1, <2>2 DEF Quiet, Moves, Running
<1>7. InHand'
  <2> SUFFICES ASSUME NEW o \in Owners, at'[o] \in {"submit", "reserved"}
               PROVE  /\ cur[o] \in Children(o) /\ at'[cur[o]] = "submitted"
                      /\ ~Queued(cur[o])
    BY <1>3, <1>4 DEF InHand, Quiet
  <2>1. at[o] \in {"submit", "reserved"}
    BY DEF Quiet, Moves
  <2> QED
    BY <2>1, <1>2, <1>4 DEF Inv, Stages, InHand
<1>8. Counting'
  <2>1. \A o : Outstanding(o)' = Outstanding(o)
    BY <1>2, <1>4 DEF Outstanding
  <2> QED
    BY <2>1 DEF Inv, Stages, Counting, Quiet
<1>9. BatchJobs'
  <2> SUFFICES ASSUME NEW o \in Jobs \cap Batch, NEW j \in Children(o), ~Over(j)
               PROVE  Alive(j) /\ at'[o] = "sync" /\ j = cur[o]
    BY <1>2, <1>4 DEF BatchJobs, Quiet
  <2>1. Alive(j) /\ at[o] = "sync" /\ j = cur[o]
    BY DEF Inv, Stages, BatchJobs
  <2> QED
    BY <2>1 DEF Quiet, Moves, Over
<1>10. BatchClients'
  <2> SUFFICES ASSUME NEW c \in Clients \cap Batch, NEW j \in Children(c)
               PROVE  /\ at'[c] = "run" => at'[j] = "new"
                      /\ \/ Over(j)
                         \/ at'[j] = "submitted" /\ Queued(j)
                         \/ Alive(j) /\ \E w \in Busy : job[w] = j
    BY <1>1, <1>2, <1>3, <1>4 DEF BatchClients, Quiet
  <2>1. at'[c] = "run" => at[c] = "run"
    BY DEF Quiet, Moves
  <2> QED
    BY <2>1, <1>2, <1>4 DEF Inv, Stages, BatchClients
<1> QED
  BY <1>5, <1>6, <1>7, <1>8, <1>9, <1>10 DEF Inv, Stages
-----------------------------------------------------------------------------
(***************************************************************************)
(* The quiet steps, of the owner of the pool, of those who submit and of   *)
(* the workers.                                                            *)
(***************************************************************************)
LEMMA MainSteps ==
  ASSUME Inv, MainStep \/ \E n \in Workers : Resize(n)
  PROVE  Inv'
<1> USE ThreadsAssumption DEF Owners, Workers
<1>1. CASE SetupLazily
  <2>1. TypeOK'
    BY <1>1 DEF Inv, TypeOK, SetupLazily, Goto, jobs, waiting, threads, locks, owner, worker
  <2>2. Places' /\ ThreadsStarted'
    BY <1>1 DEF Inv, TypeOK, Places, ThreadsStarted, SetupLazily, Goto, jobs, waiting, threads, locks, owner, worker
  <2>3. Quiet
    BY <1>1 DEF Inv, TypeOK, Places, Quiet, Moves, Running, SetupLazily, Goto, jobs, waiting, threads, locks, owner, worker
  <2> QED
    BY <2>1, <2>2, <2>3, QuietStep
<1>2. CASE SetupThread
  <2>1. TypeOK'
    BY <1>2 DEF Inv, TypeOK, SetupThread, Spawn, jobs, waiting, threads, locks, owner, worker
  <2>2. Places' /\ ThreadsStarted'
    BY <1>2 DEF Inv, TypeOK, Places, ThreadsStarted, SetupThread, Spawn, jobs, waiting, threads, locks, owner, worker
  <2>3. Quiet
    BY <1>2 DEF Inv, TypeOK, Places, ThreadsStarted, Quiet, Moves, Running, SetupThread, Spawn, jobs, waiting, threads, locks, owner, worker
  <2> QED
    BY <2>1, <2>2, <2>3, QuietStep
<1>3. CASE SetupFails
  <2>1. TypeOK'
    BY <1>3 DEF Inv, TypeOK, SetupFails, Abandon, jobs, waiting, threads, locks, owner, worker
  <2>2. Places' /\ ThreadsStarted'
    BY <1>3 DEF Inv, TypeOK, Places, ThreadsStarted, SetupFails, Abandon, jobs, waiting, threads, locks, owner, worker
  <2>3. Quiet
    BY <1>3 DEF Inv, TypeOK, Places, Quiet, Moves, Running, SetupFails, Abandon, Over, Children, jobs, waiting, threads, locks, owner, worker
  <2> QED
    BY <2>1, <2>2, <2>3, QuietStep
<1>4. CASE SetupWait
  <2>1. TypeOK'
    BY <1>4 DEF Inv, TypeOK, SetupWait, Abandon, Goto, jobs, waiting, threads, locks, owner, worker
  <2>2. Places' /\ ThreadsStarted'
    BY <1>4 DEF Inv, TypeOK, Places, ThreadsStarted, SetupWait, Abandon, Goto, jobs, waiting, threads, locks, owner, worker
  <2>3. Quiet
    BY <1>4 DEF Inv, TypeOK, Places, Quiet, Moves, Running, SetupWait, Abandon, Goto, Over, Children, jobs, waiting, threads, locks, owner, worker
  <2> QED
    BY <2>1, <2>2, <2>3, QuietStep
<1>5. CASE DestroyWait
  <2>1. TypeOK'
    BY <1>5 DEF Inv, TypeOK, DestroyWait, WaitCompletion, Goto, jobs, waiting, threads, locks, owner, worker
  <2>2. Places' /\ ThreadsStarted'
    BY <1>5 DEF Inv, TypeOK, Places, ThreadsStarted, DestroyWait, WaitCompletion, Goto, jobs, waiting, threads, locks, owner, worker
  <2>3. Quiet
    BY <1>5 DEF Inv, TypeOK, Places, Quiet, Moves, Running, DestroyWait, WaitCompletion, Goto, jobs, waiting, threads, locks, owner, worker
  <2> QED
    BY <2>1, <2>2, <2>3, QuietStep
<1>6. CASE Stop
  <2>1. TypeOK'
    BY <1>6 DEF Inv, TypeOK, Stop, Goto, jobs, waiting, threads, locks, owner, worker
  <2>2. Places' /\ ThreadsStarted'
    BY <1>6 DEF Inv, TypeOK, Places, ThreadsStarted, Stop, Goto, jobs, waiting, threads, locks, owner, worker
  <2>3. Quiet
    BY <1>6 DEF Inv, TypeOK, Places, Quiet, Moves, Running, Stop, Goto, jobs, waiting, threads, locks, owner, worker
  <2> QED
    BY <2>1, <2>2, <2>3, QuietStep
<1>7. CASE NotifyStop
  <2>1. TypeOK'
    BY <1>7 DEF Inv, TypeOK, NotifyStop, Wake, Goto, jobs, waiting, threads, locks, owner, worker
  <2>2. Places' /\ ThreadsStarted'
    BY <1>7 DEF Inv, TypeOK, Places, ThreadsStarted, NotifyStop, Wake, Goto, jobs, waiting, threads, locks, owner, worker
  <2>3. Quiet
    BY <1>7 DEF Inv, TypeOK, Places, Quiet, Moves, Running, NotifyStop, Wake, Goto, jobs, waiting, threads, locks, owner, worker
  <2> QED
    BY <2>1, <2>2, <2>3, QuietStep
<1>8. CASE Join
  <2>1. TypeOK'
    BY <1>8 DEF Inv, TypeOK, ThreadsStarted, Join, Goto, jobs, waiting, threads, locks, owner, worker
  <2>2. Places' /\ ThreadsStarted'
    BY <1>8 DEF Inv, TypeOK, Places, ThreadsStarted, Join, Goto, jobs, waiting, threads, locks, owner, worker
  <2>3. Quiet
    BY <1>8 DEF Inv, TypeOK, Places, Quiet, Moves, Running, Join, Goto, jobs, waiting, threads, locks, owner, worker
  <2> QED
    BY <2>1, <2>2, <2>3, QuietStep
<1>9. CASE \E n \in Workers : Resize(n)
  <2>1. TypeOK'
    BY <1>9 DEF Inv, TypeOK, Resize, jobs, waiting, threads, locks, owner, worker
  <2>2. Places' /\ ThreadsStarted'
    BY <1>9 DEF Inv, TypeOK, Places, ThreadsStarted, Resize, jobs, waiting, threads, locks, owner, worker
  <2>3. Quiet
    BY <1>9 DEF Inv, TypeOK, Places, Quiet, Moves, Running, Resize, jobs, waiting, threads, locks, owner, worker
  <2> QED
    BY <2>1, <2>2, <2>3, QuietStep
<1> QED
  BY <1>1, <1>2, <1>3, <1>4, <1>5, <1>6, <1>7, <1>8, <1>9 DEF MainStep, SetupStep

LEMMA WorkerSteps ==
  ASSUME Inv, NEW w \in Workers,
         StopWorker(w) \/ MarkAsWaiting(w) \/ MarkFails(w) \/ TakeOwnMutex(w)
           \/ Sleep(w) \/ SpuriousWakeup(w)
  PROVE  Inv'
<1> USE ThreadsAssumption DEF Owners, Workers
<1>1. CASE StopWorker(w)
  <2>1. TypeOK'
    BY <1>1 DEF Inv, TypeOK, StopWorker, jobs, waiting, threads, locks, owner, worker
  <2>2. Places' /\ ThreadsStarted'
    BY <1>1 DEF Inv, TypeOK, Places, ThreadsStarted, StopWorker, jobs, waiting, threads, locks, owner, worker
  <2>3. Quiet
    BY <1>1 DEF Inv, TypeOK, Places, Quiet, Moves, Running, StopWorker, jobs, waiting, threads, locks, owner, worker
  <2> QED
    BY <2>1, <2>2, <2>3, QuietStep
<1>2. CASE MarkAsWaiting(w)
  <2>1. TypeOK'
    <3>1. psWaiting \in Seq(Workers) /\ <<w>> \o psWaiting \in Seq(Workers)
      BY DEF Inv, TypeOK
    <3>2. psWaiting' \in Seq(Workers)
      BY <1>2, <3>1 DEF MarkAsWaiting, waiting
    <3>3. sleepers' \subseteq Owners \cup {Main}
      BY <1>2 DEF Inv, TypeOK, MarkAsWaiting, NotifyOne
    <3>4. /\ marked' \in [Workers -> BOOLEAN] /\ nWaiting' \in Int
          /\ wpc' \in [Workers -> {"none", "get", "marked", "drowsy", "asleep", "busy", "exited"}]
      <4>3. /\ marked \in [Workers -> BOOLEAN] /\ nWaiting \in Int
            /\ wpc \in [Workers -> {"none", "get", "marked", "drowsy", "asleep", "busy", "exited"}]
        BY DEF Inv, TypeOK
      <4>1. wpc' = [wpc EXCEPT ![w] = "marked"]
        BY <1>2 DEF MarkAsWaiting
      <4>2. \/ UNCHANGED <<marked, nWaiting>>
            \/ marked' = [marked EXCEPT ![w] = TRUE] /\ nWaiting' = nWaiting + 1
        BY <1>2 DEF MarkAsWaiting, waiting
      <4>4. wpc' \in [Workers -> {"none", "get", "marked", "drowsy", "asleep", "busy", "exited"}]
        BY <4>1, <4>3
      <4>5. marked' \in [Workers -> BOOLEAN]
        BY <4>2, <4>3
      <4>6. nWaiting' \in Int
        BY <4>2, <4>3
      <4> QED
        BY <4>4, <4>5, <4>6
    <3> QED
      BY <1>2, <3>2, <3>3, <3>4 DEF Inv, TypeOK, MarkAsWaiting, jobs, threads, owner
  <2>2. Places' /\ ThreadsStarted'
    BY <1>2 DEF Inv, TypeOK, Places, ThreadsStarted, MarkAsWaiting, NothingToDo, NotifyOne, jobs, waiting, threads, locks, owner, worker
  <2>3. Quiet
    BY <1>2 DEF Inv, TypeOK, Places, Quiet, Moves, Running, MarkAsWaiting, NothingToDo, NotifyOne, jobs, waiting, threads, locks, owner, worker
  <2> QED
    BY <2>1, <2>2, <2>3, QuietStep
<1>3. CASE MarkFails(w)
  <2>1. TypeOK'
    BY <1>3 DEF Inv, TypeOK, MarkFails, NothingToDo, NotifyOne, jobs, waiting, threads, locks, owner, worker
  <2>2. Places' /\ ThreadsStarted'
    BY <1>3 DEF Inv, TypeOK, Places, ThreadsStarted, MarkFails, NothingToDo, NotifyOne, jobs, waiting, threads, locks, owner, worker
  <2>3. Quiet
    BY <1>3 DEF Inv, TypeOK, Places, Quiet, Moves, Running, MarkFails, NothingToDo, NotifyOne, jobs, waiting, threads, locks, owner, worker
  <2> QED
    BY <2>1, <2>2, <2>3, QuietStep
<1>4. CASE TakeOwnMutex(w)
  <2>1. TypeOK'
    BY <1>4 DEF Inv, TypeOK, TakeOwnMutex, jobs, waiting, threads, locks, owner, worker
  <2>2. Places' /\ ThreadsStarted'
    BY <1>4 DEF Inv, TypeOK, Places, ThreadsStarted, TakeOwnMutex, jobs, waiting, threads, locks, owner, worker
  <2>3. Quiet
    BY <1>4 DEF Inv, TypeOK, Places, Quiet, Moves, Running, TakeOwnMutex, jobs, waiting, threads, locks, owner, worker
  <2> QED
    BY <2>1, <2>2, <2>3, QuietStep
<1>5. CASE Sleep(w)
  <2>1. TypeOK'
    BY <1>5 DEF Inv, TypeOK, Sleep, jobs, waiting, threads, locks, owner, worker
  <2>2. Places' /\ ThreadsStarted'
    BY <1>5 DEF Inv, TypeOK, Places, ThreadsStarted, Sleep, jobs, waiting, threads, locks, owner, worker
  <2>3. Quiet
    BY <1>5 DEF Inv, TypeOK, Places, Quiet, Moves, Running, Sleep, jobs, waiting, threads, locks, owner, worker
  <2> QED
    BY <2>1, <2>2, <2>3, QuietStep
<1>6. CASE SpuriousWakeup(w)
  <2>1. TypeOK'
    BY <1>6 DEF Inv, TypeOK, SpuriousWakeup, Wake, jobs, waiting, threads, locks, owner, worker
  <2>2. Places' /\ ThreadsStarted'
    BY <1>6 DEF Inv, TypeOK, Places, ThreadsStarted, SpuriousWakeup, Wake, jobs, waiting, threads, locks, owner, worker
  <2>3. Quiet
    BY <1>6 DEF Inv, TypeOK, Places, Quiet, Moves, Running, SpuriousWakeup, Wake, jobs, waiting, threads, locks, owner, worker
  <2> QED
    BY <2>1, <2>2, <2>3, QuietStep
<1> QED
  BY <1>1, <1>2, <1>3, <1>4, <1>5, <1>6

(* Both waits end when the jobs have: what the promise of the pool rests on. *)
LEMMA QueueIsDone ==
  ASSUME Inv, NEW o \in Owners \ Batch, QueueDone(o)
  PROVE  \A j \in Children(o) : Over(j)
<1>1. Cardinality(Outstanding(o)) = 0
  BY DEF Inv, Stages, Counting, QueueDone
<1>2. Outstanding(o) = {}
  BY <1>1, FiniteSubsets, FS_EmptySet
<1> QED
  BY <1>2 DEF Outstanding

LEMMA PoolDone ==
  ASSUME Inv, nPendingJobs = 0, NEW c \in Clients \cap Batch
  PROVE  \A j \in Children(c) : Over(j)
<1>1. Len(psJobQueue) \in Nat /\ Cardinality(Busy) \in Nat
  BY FiniteSubsets, FS_CardinalityType DEF Inv, TypeOK
<1>2. Len(psJobQueue) = 0 /\ Cardinality(Busy) = 0
  BY <1>1 DEF Inv, JobsAccounted
<1>3. Busy = {}
  BY <1>2, FiniteSubsets, FS_EmptySet
<1>4. \A j : ~Queued(j)
  BY <1>2 DEF Inv, TypeOK, Queued
<1> QED
  BY <1>3, <1>4 DEF Inv, Stages, BatchClients

LEMMA OwnerSteps ==
  ASSUME Inv, NEW o \in Owners,
         \/ Reserve(o) \/ RunReturns(o) \/ TakeWorkerMutex(o) \/ NotifyWorker(o)
         \/ SubmitJobsFails(o) \/ WakeNext(o) \/ Relock(o) \/ WakeDone(o)
         \/ PoolWait(o) \/ QueueWait(o)
  PROVE  Inv'
<1> USE ThreadsAssumption DEF Owners, Workers
<1>1. CASE Reserve(o)
  <2>1. TypeOK'
    BY <1>1 DEF Inv, TypeOK, Reserve, Goto, jobs, waiting, threads, locks, owner, worker
  <2>2. Places' /\ ThreadsStarted'
    BY <1>1 DEF Inv, TypeOK, Places, ThreadsStarted, Reserve, Goto, jobs, waiting, threads, locks, owner, worker
  <2>3. Quiet
    BY <1>1 DEF Inv, TypeOK, Places, Quiet, Moves, Running, Reserve, Goto, jobs, waiting, threads, locks, owner, worker
  <2> QED
    BY <2>1, <2>2, <2>3, QuietStep
<1>2. CASE RunReturns(o)
  <2>1. TypeOK'
    BY <1>2 DEF Inv, TypeOK, RunReturns, Goto, jobs, waiting, threads, locks, owner, worker
  <2>2. Places' /\ ThreadsStarted'
    BY <1>2 DEF Inv, TypeOK, Places, ThreadsStarted, RunReturns, Goto, jobs, waiting, threads, locks, owner, worker
  <2>3. Quiet
    BY <1>2 DEF Inv, TypeOK, Places, Quiet, Moves, Running, RunReturns, Goto, jobs, waiting, threads, locks, owner, worker
  <2> QED
    BY <2>1, <2>2, <2>3, QuietStep
<1>3. CASE TakeWorkerMutex(o)
  <2>1. TypeOK'
    BY <1>3 DEF Inv, TypeOK, TakeWorkerMutex, Goto, jobs, waiting, threads, locks, owner, worker
  <2>2. Places' /\ ThreadsStarted'
    BY <1>3 DEF Inv, TypeOK, Places, ThreadsStarted, TakeWorkerMutex, Goto, jobs, waiting, threads, locks, owner, worker
  <2>3. Quiet
    BY <1>3 DEF Inv, TypeOK, Places, Quiet, Moves, Running, TakeWorkerMutex, Goto, jobs, waiting, threads, locks, owner, worker
  <2> QED
    BY <2>1, <2>2, <2>3, QuietStep
<1>4. CASE NotifyWorker(o)
  <2>1. TypeOK'
    BY <1>4 DEF Inv, TypeOK, NotifyWorker, Goto, Wake, jobs, waiting, threads, locks, owner, worker
  <2>2. Places' /\ ThreadsStarted'
    BY <1>4 DEF Inv, TypeOK, Places, ThreadsStarted, NotifyWorker, Goto, Wake, jobs, waiting, threads, locks, owner, worker
  <2>3. Quiet
    BY <1>4 DEF Inv, TypeOK, Places, Quiet, Moves, Running, NotifyWorker, Goto, Wake, jobs, waiting, threads, locks, owner, worker
  <2> QED
    BY <2>1, <2>2, <2>3, QuietStep
<1>5. CASE SubmitJobsFails(o)
  <2>1. TypeOK'
    BY <1>5 DEF Inv, TypeOK, SubmitJobsFails, Goto, Serving, jobs, waiting, threads, locks, owner, worker
  <2>2. Places' /\ ThreadsStarted'
    BY <1>5 DEF Inv, TypeOK, Places, ThreadsStarted, SubmitJobsFails, Goto, Serving, jobs, waiting, threads, locks, owner, worker
  <2>3. Quiet
    BY <1>5 DEF Inv, TypeOK, Places, Quiet, Moves, Running, SubmitJobsFails, Goto, Serving, jobs, waiting, threads, locks, owner, worker
  <2> QED
    BY <2>1, <2>2, <2>3, QuietStep
<1>6. CASE WakeNext(o)
  <2>1. TypeOK'
    <3>1. /\ Tail(psWaiting) \in Seq(Workers) /\ Head(psWaiting) \in Workers
          /\ wakes[o] - 1 \in Nat
      BY <1>6 DEF Inv, TypeOK, WakeNext, MoreToWake
    <3>2. /\ at' = [at EXCEPT ![o] = "handover"] /\ m_mutex' = TRUE
          /\ psWaiting' = Tail(psWaiting) /\ nWaiting' = nWaiting - 1
          /\ marked' = [marked EXCEPT ![Head(psWaiting)] = FALSE]
          /\ target' = [target EXCEPT ![o] = Head(psWaiting)]
          /\ wakes' = [wakes EXCEPT ![o] = wakes[o] - 1]
      BY <1>6 DEF WakeNext, MoreToWake, Unlink, Goto
    <3>3. /\ at' \in [Owners \cup {Main} ->
                {"new", "submitted", "run", "submit", "reserved", "handover", "notify",
                 "sync", "wake", "relock", "poolwait", "ended", "dropped", "done",
                 "setup", "serving", "stop", "join", "joining"}]
          /\ psWaiting' \in Seq(Workers) /\ nWaiting' \in Int
          /\ marked' \in [Workers -> BOOLEAN] /\ target' \in [Owners -> Workers \cup {0}]
          /\ wakes' \in [Owners -> Nat]
      BY <3>1, <3>2 DEF Inv, TypeOK
    <3> QED
      BY <1>6, <3>2, <3>3 DEF Inv, TypeOK, WakeNext, jobs, threads, worker
  <2>2. Places' /\ ThreadsStarted'
    <3>1. at' = [at EXCEPT ![o] = "handover"] /\ UNCHANGED <<wpc, aWT, joined>>
      BY <1>6 DEF WakeNext, MoreToWake, Unlink, Goto, worker, threads
    <3>2. o \in Clients \cap Batch
      BY <1>6 DEF Inv, Places, WakeNext
    <3> QED
      BY <1>6, <3>1, <3>2 DEF Inv, TypeOK, Places, ThreadsStarted, WakeNext
  <2>3. Quiet
    <3>1. at' = [at EXCEPT ![o] = "handover"]
      BY <1>6 DEF WakeNext, MoreToWake, Unlink, Goto
    <3> QED
      BY <1>6, <3>1 DEF Inv, TypeOK, Quiet, Moves, Running, WakeNext, jobs, worker
  <2> QED
    BY <2>1, <2>2, <2>3, QuietStep
<1>7. CASE Relock(o)
  <2>1. TypeOK'
    BY <1>7 DEF Inv, TypeOK, Relock, Goto, jobs, waiting, threads, locks, owner, worker
  <2>2. Places' /\ ThreadsStarted'
    BY <1>7 DEF Inv, TypeOK, Places, ThreadsStarted, Relock, Goto, jobs, waiting, threads, locks, owner, worker
  <2>3. Quiet
    BY <1>7 DEF Inv, TypeOK, Places, Quiet, Moves, Running, Relock, Goto, jobs, waiting, threads, locks, owner, worker
  <2> QED
    BY <2>1, <2>2, <2>3, QuietStep
<1>8. CASE WakeDone(o)
  <2>1. TypeOK'
    BY <1>8 DEF Inv, TypeOK, WakeDone, Goto, jobs, waiting, threads, locks, owner, worker
  <2>2. Places' /\ ThreadsStarted'
    BY <1>8 DEF Inv, TypeOK, Places, ThreadsStarted, WakeDone, Goto, jobs, waiting, threads, locks, owner, worker
  <2>3. Quiet
    BY <1>8 DEF Inv, TypeOK, Places, Quiet, Moves, Running, WakeDone, Goto, jobs, waiting, threads, locks, owner, worker
  <2> QED
    BY <2>1, <2>2, <2>3, QuietStep
<1>9. CASE PoolWait(o)
  <2>1. TypeOK'
    <3>1. sleepers' \subseteq Owners \cup {Main}
      BY <1>9 DEF Inv, TypeOK, PoolWait, WaitCompletion
    <3> QED
      BY <1>9, <3>1 DEF Inv, TypeOK, PoolWait, Goto, WaitCompletion, jobs, waiting, threads, locks, worker
  <2>2. Places' /\ ThreadsStarted'
    BY <1>9 DEF Inv, TypeOK, Places, ThreadsStarted, PoolWait, Goto, WaitCompletion, jobs, waiting, threads, locks, owner, worker
  <2>3. Quiet
    <3>1. o \in Clients \cap Batch
      BY <1>9 DEF Inv, Places, PoolWait
    <3>2. CASE nPendingJobs > 0
      BY <1>9, <3>2 DEF Quiet, PoolWait, WaitCompletion, jobs, worker
    <3>3. CASE ~(nPendingJobs > 0)
      <4>1. at' = [at EXCEPT ![o] = "done"]
        BY <1>9, <3>3 DEF PoolWait, WaitCompletion, Goto
      <4>2. \A j \in Children(o) : Over(j)
        BY <3>1, <3>3, PoolDone DEF Inv, TypeOK
      <4> QED
        BY <1>9, <3>1, <4>1, <4>2 DEF Inv, TypeOK, Quiet, Moves, Running, PoolWait, jobs, worker
    <3> QED
      BY <3>2, <3>3
  <2> QED
    BY <2>1, <2>2, <2>3, QuietStep
<1>10. CASE QueueWait(o)
  <2>1. TypeOK'
    BY <1>10 DEF Inv, TypeOK, QueueWait, Goto, Serving, jobs, waiting, threads, locks, owner, worker
  <2>2. Places' /\ ThreadsStarted'
    BY <1>10 DEF Inv, TypeOK, Places, ThreadsStarted, QueueWait, Goto, Serving, jobs, waiting, threads, locks, owner, worker
  <2>3. Quiet
    <3>1. \A j \in Children(o) : Over(j)
      BY <1>10, QueueIsDone DEF QueueWait
    <3> QED
      BY <1>10, <3>1 DEF Inv, TypeOK, Quiet, Moves, Running, QueueWait, Goto, Serving, jobs, worker
  <2> QED
    BY <2>1, <2>2, <2>3, QuietStep
<1> QED
  BY <1>1, <1>2, <1>3, <1>4, <1>5, <1>6, <1>7, <1>8, <1>9, <1>10
-----------------------------------------------------------------------------
(***************************************************************************)
(* The steps that move a job.                                              *)
(***************************************************************************)
LEMMA QueueSubmitStep ==
  ASSUME Inv, NEW o \in Owners, NEW j \in Jobs, QueueSubmit(o, j)
  PROVE  Inv'
<1> USE ThreadsAssumption DEF Owners
<1>1. /\ at' = [at EXCEPT ![o] = "submit", ![j] = "submitted"]
      /\ cur' = [cur EXCEPT ![o] = j] /\ left' = [left EXCEPT ![o] = @ + 1]
      /\ UNCHANGED <<jobs, threads, worker, joined>>
      /\ at[o] = "run" /\ at[j] = "new" /\ Parent[j] = o /\ o \notin Batch /\ o # j
      /\ o # Main /\ j # Main
  BY DEF QueueSubmit, Serving, Unsubmitted, Children
<1>2. Busy' = Busy /\ (\A k : Queued(k)' <=> Queued(k)) /\ \A p : Children(p)' = Children(p)
  BY <1>1 DEF Busy, Queued, Children, jobs, worker
<1>13. UNCHANGED <<psJobQueue, nPendingJobs, job, thread, wpc, aWT, maxThreads, eState, joined>>
  BY <1>1 DEF jobs, worker, threads
<1>3. TypeOK'
  <2>1. /\ at' \in [Owners \cup {Main} ->
              {"new", "submitted", "run", "submit", "reserved", "handover", "notify",
               "sync", "wake", "relock", "poolwait", "ended", "dropped", "done",
               "setup", "serving", "stop", "join", "joining"}]
    BY <1>1 DEF Inv, TypeOK
  <2>2. cur' \in [Owners -> Jobs \cup {NoJob}]
    BY <1>1 DEF Inv, TypeOK
  <2>3. left' \in [Owners -> Nat]
    BY <1>1 DEF Inv, TypeOK
  <2> QED
    BY <1>13, <2>1, <2>2, <2>3 DEF Inv, TypeOK, QueueSubmit, waiting, locks
<1>12. \A k \in Jobs \ {j} :
         /\ Over(k)' <=> Over(k)
         /\ Alive(k)' <=> Alive(k)
         /\ at'[k] \in {"new", "submitted", "ended"} => at'[k] = at[k]
         /\ at[k] \in {"new", "submitted", "ended"} => at'[k] = at[k]
         /\ k # o => at'[k] = at[k]
  <2>1. DOMAIN at = Owners \cup {Main}
    BY DEF Inv, TypeOK
  <2> QED
    BY <1>1, <2>1 DEF Over, Alive
<1>4. Places' /\ ThreadsStarted'
  BY <1>1 DEF Inv, TypeOK, Places, ThreadsStarted, QueueSubmit, Serving, threads, worker
<1>5. ~Queued(j)
  BY <1>1 DEF Inv, JobsAccounted, Queued
<1>6. JobsAccounted'
  <2>1. \A w \in Busy : job[w] # j
    BY <1>1 DEF Inv, JobsAccounted, Alive
  <2>2. \A k \in DOMAIN psJobQueue : psJobQueue[k] \in Jobs /\ psJobQueue[k] # j
    BY <1>5 DEF Inv, TypeOK, Queued
  <2> QED
    BY <1>2, <1>12, <1>13, <2>1, <2>2 DEF Inv, JobsAccounted
<1>7. Nested'
  BY <1>1 DEF Inv, TypeOK, Stages, Nested, Running
<1>8. InHand'
  BY <1>1, <1>2, <1>5 DEF Inv, TypeOK, Stages, InHand, Children
<1>9. Counting'
  <2>1. Outstanding(o)' = Outstanding(o) \cup {j} /\ j \notin Outstanding(o)
    BY <1>1 DEF Inv, TypeOK, Outstanding, Children, Over
  <2>2. \A p \in Owners \ {o} : Outstanding(p)' = Outstanding(p)
    BY <1>1 DEF Inv, TypeOK, Outstanding, Children, Over
  <2>3. Cardinality(Outstanding(o)') = Cardinality(Outstanding(o)) + 1
    BY <2>1, FiniteSubsets, FS_AddElement
  <2> QED
    BY <1>1, <2>2, <2>3 DEF Inv, TypeOK, Stages, Counting
<1>10. BatchJobs'
  <2>1. \A q \in Jobs \cap Batch : at[q] = "sync" => at'[q] = "sync" /\ cur'[q] = cur[q]
    BY <1>1, <1>12 DEF Inv, TypeOK
  <2> QED
    BY <1>1, <1>2, <1>12, <2>1 DEF Inv, Stages, BatchJobs, Children
<1>11. BatchClients'
  <2>1. \A c \in Clients \cap Batch : at'[c] = at[c]
    BY <1>1 DEF Inv, TypeOK
  <2> SUFFICES ASSUME NEW c \in Clients \cap Batch, NEW k \in Children(c)
               PROVE  /\ at[c] = "run" => at'[k] = "new"
                      /\ \/ Over(k)'
                         \/ at'[k] = "submitted" /\ Queued(k)
                         \/ Alive(k)' /\ \E w \in Busy : job[w] = k
    BY <1>2, <1>13, <2>1 DEF BatchClients
  <2>2. k \in Jobs \ {j}
    BY <1>1 DEF Children
  <2> QED
    BY <1>12, <2>2 DEF Inv, Stages, BatchClients
<1> QED
  BY <1>3, <1>4, <1>6, <1>7, <1>8, <1>9, <1>10, <1>11 DEF Inv, Stages

(* A job run in the thread of the one that submits it. *)
LEMMA RunHereStep ==
  ASSUME Inv, NEW o \in Jobs, NEW j \in Jobs, RunHere(o, j), Parent[j] = o, ~Queued(j),
         \/ at[o] = "submit" /\ o \notin Batch /\ at[j] = "submitted"
         \/ at[o] = "run" /\ o \in Batch /\ at[j] = "new",
         UNCHANGED <<faults, eager, jobs, waiting, threads, locks, sleepers, target,
                     left, wakes, wpc, job, joined>>
  PROVE  Inv'
<1> USE ThreadsAssumption DEF Owners
<1>1. /\ at' = [at EXCEPT ![o] = "sync", ![j] = "run"]
      /\ cur' = [cur EXCEPT ![o] = j] /\ thread' = [thread EXCEPT ![j] = thread[o]]
      /\ o # j /\ o # Main /\ j # Main
  BY DEF RunHere
<1>2. Busy' = Busy /\ (\A k : Queued(k)' <=> Queued(k)) /\ \A p : Children(p)' = Children(p)
  BY DEF Busy, Queued, Children, jobs
<1>13. UNCHANGED <<psJobQueue, nPendingJobs, job>>
  BY DEF jobs
<1>3. TypeOK'
  BY <1>1 DEF Inv, TypeOK, jobs, waiting, threads, locks
<1>12. \A k \in Jobs \ {j} :
         /\ Over(k)' <=> Over(k)
         /\ Alive(k)' <=> Alive(k)
         /\ at'[k] \in {"new", "submitted", "ended"} => at'[k] = at[k]
         /\ at[k] \in {"new", "submitted", "ended"} => at'[k] = at[k]
         /\ k # o => at'[k] = at[k]
  <2>1. DOMAIN at = Owners \cup {Main}
    BY DEF Inv, TypeOK
  <2> QED
    BY <1>1, <2>1 DEF Over, Alive
<1>4. Places' /\ ThreadsStarted'
  BY <1>1 DEF Inv, TypeOK, Places, ThreadsStarted, threads
<1>5. JobsAccounted'
  <2>1. \A w \in Busy : job[w] # j
    BY DEF Inv, JobsAccounted, Alive
  <2> QED
    <3>1. \A k \in DOMAIN psJobQueue : psJobQueue[k] \in Jobs /\ psJobQueue[k] # j
      BY DEF Inv, TypeOK, Queued
    <3>2. \A w \in Busy : thread'[job[w]] = thread[job[w]]
      BY <1>1, <2>1 DEF Inv, TypeOK
    <3> QED
      BY <1>2, <1>12, <1>13, <2>1, <3>1, <3>2 DEF Inv, JobsAccounted
<1>6. Nested'
  BY <1>1 DEF Inv, TypeOK, Stages, Nested, Running
<1>7. InHand'
  BY <1>1, <1>2 DEF Inv, TypeOK, Stages, InHand, Children
<1>8. Counting'
  <2>1. o \notin Batch => Outstanding(o)' = Outstanding(o)
    BY <1>1 DEF Inv, TypeOK, Outstanding, Children, Over
  <2>2. \A p \in Owners \ {o} : Outstanding(p)' = Outstanding(p)
    BY <1>1 DEF Inv, TypeOK, Outstanding, Children, Over
  <2> QED
    BY <1>1, <2>1, <2>2 DEF Inv, TypeOK, Stages, Counting
<1>9. BatchJobs'
  BY <1>1, <1>2 DEF Inv, TypeOK, Stages, BatchJobs, Children, Over, Alive
<1>10. BatchClients'
  <2>1. \A c \in Clients \cap Batch : at'[c] = at[c]
    BY <1>1 DEF Inv, TypeOK
  <2> SUFFICES ASSUME NEW c \in Clients \cap Batch, NEW k \in Children(c)
               PROVE  /\ at[c] = "run" => at'[k] = "new"
                      /\ \/ Over(k)'
                         \/ at'[k] = "submitted" /\ Queued(k)
                         \/ Alive(k)' /\ \E w \in Busy : job[w] = k
    BY <1>2, <1>13, <2>1 DEF BatchClients
  <2>2. k \in Jobs \ {j}
    BY <1>1 DEF Children
  <2> QED
    BY <1>12, <2>2 DEF Inv, Stages, BatchClients
<1> QED
  BY <1>3, <1>4, <1>5, <1>6, <1>7, <1>8, <1>9, <1>10 DEF Inv, Stages

LEMMA RunSteps ==
  ASSUME Inv, NEW o \in Owners,
         RunSynchronously(o) \/ \E j \in Jobs : RunBatchHere(o, j)
  PROVE  Inv'
<1>1. CASE RunSynchronously(o)
  <2>1. cur[o] \in Children(o) /\ at[cur[o]] = "submitted" /\ ~Queued(cur[o]) /\ o \notin Batch
    BY <1>1 DEF Inv, Places, Stages, InHand, RunSynchronously
  <2> QED
    BY <1>1, <2>1, RunHereStep DEF RunSynchronously, Children
<1>2. CASE \E j \in Jobs : RunBatchHere(o, j)
  <2> PICK j \in Jobs : RunBatchHere(o, j)
    BY <1>2
  <2>1. at[j] = "new" /\ Parent[j] = o
    BY DEF RunBatchHere, Unsubmitted, Children
  <2>2. ~Queued(j)
    BY <2>1 DEF Inv, JobsAccounted, Queued
  <2> QED
    BY <2>1, <2>2, RunHereStep DEF RunBatchHere
<1> QED
  BY <1>1, <1>2

LEMMA SubmitFailsStep ==
  ASSUME Inv, NEW o \in Owners, SubmitFails(o)
  PROVE  Inv'
<1> USE ThreadsAssumption DEF Owners
<1> DEFINE j == cur[o]
<1>1. /\ at[o] \in {"submit", "reserved"} /\ o \notin Batch
      /\ j \in Jobs /\ Parent[j] = o /\ at[j] = "submitted" /\ ~Queued(j)
  BY DEF Inv, Places, Stages, InHand, Children, SubmitFails, ReadyToQueue
<1>2. /\ at' = [at EXCEPT ![o] = "run", ![j] = "dropped"]
      /\ UNCHANGED <<jobs, threads, cur, left, worker, joined>>
      /\ o # j /\ o # Main /\ j # Main
  BY <1>1 DEF SubmitFails
<1> HIDE DEF j
<1>3. Busy' = Busy /\ (\A k : Queued(k)' <=> Queued(k)) /\ \A p : Children(p)' = Children(p)
  BY <1>2 DEF Busy, Queued, Children, jobs, worker
<1>13. UNCHANGED <<psJobQueue, nPendingJobs, job, thread>>
  BY <1>2 DEF jobs, worker
<1>4. TypeOK'
  <2>1. nWaiting' \in Int
    BY DEF Inv, TypeOK, SubmitFails, Reservation
  <2> QED
    <3>1. at' \in [Owners \cup {Main} ->
                {"new", "submitted", "run", "submit", "reserved", "handover", "notify",
                 "sync", "wake", "relock", "poolwait", "ended", "dropped", "done",
                 "setup", "serving", "stop", "join", "joining"}]
      BY <1>1, <1>2 DEF Inv, TypeOK
    <3> QED
      <4>1. UNCHANGED <<psJobQueue, nPendingJobs, job, thread, wpc, aWT, maxThreads, eState, joined>>
        BY <1>2 DEF jobs, worker, threads
      <4> QED
        BY <2>1, <3>1, <4>1 DEF Inv, TypeOK, SubmitFails, locks
<1>12. \A k \in Jobs \ {j} :
         /\ Over(k)' <=> Over(k)
         /\ Alive(k)' <=> Alive(k)
         /\ at'[k] \in {"new", "submitted", "ended"} => at'[k] = at[k]
         /\ at[k] \in {"new", "submitted", "ended"} => at'[k] = at[k]
         /\ k # o => at'[k] = at[k]
  <2>1. DOMAIN at = Owners \cup {Main}
    BY DEF Inv, TypeOK
  <2> QED
    BY <1>2, <1>1, <2>1 DEF Over, Alive
<1>5. Places' /\ ThreadsStarted'
  BY <1>1, <1>2 DEF Inv, TypeOK, Places, ThreadsStarted, threads, worker
<1>6. JobsAccounted'
  <2>1. \A w \in Busy : job[w] # j
    BY <1>1 DEF Inv, JobsAccounted, Alive
  <2>2. \A k \in DOMAIN psJobQueue : psJobQueue[k] \in Jobs /\ psJobQueue[k] # j
    BY <1>1 DEF Inv, TypeOK, Queued
  <2> QED
    BY <1>2, <1>3, <1>12, <2>1, <2>2 DEF Inv, JobsAccounted, jobs, worker
<1>7. Nested'
  BY <1>1, <1>2 DEF Inv, TypeOK, Stages, Nested, Running
<1>8. InHand'
  BY <1>1, <1>2, <1>3 DEF Inv, TypeOK, Stages, InHand, Children
<1>9. Counting'
  <2>1. \A p \in Owners : Outstanding(p)' = Outstanding(p)
    BY <1>1, <1>2 DEF Inv, TypeOK, Outstanding, Children, Over
  <2> QED
    BY <1>2, <2>1 DEF Inv, TypeOK, Stages, Counting
<1>10. BatchJobs'
  <2>1. \A q \in Jobs \cap Batch : at[q] = "sync" => at'[q] = "sync" /\ cur'[q] = cur[q]
    BY <1>1, <1>2, <1>12 DEF Inv, TypeOK
  <2> QED
    BY <1>1, <1>3, <1>12, <2>1 DEF Inv, Stages, BatchJobs, Children
<1>11. BatchClients'
  <2>1. \A c \in Clients \cap Batch : at'[c] = at[c]
    BY <1>1, <1>2 DEF Inv, TypeOK
  <2> SUFFICES ASSUME NEW c \in Clients \cap Batch, NEW k \in Children(c)
               PROVE  /\ at[c] = "run" => at'[k] = "new"
                      /\ \/ Over(k)'
                         \/ at'[k] = "submitted" /\ Queued(k)
                         \/ Alive(k)' /\ \E w \in Busy : job[w] = k
    BY <1>3, <1>13, <2>1 DEF BatchClients
  <2>2. k \in Jobs \ {j}
    BY <1>1 DEF Children
  <2> QED
    BY <1>12, <2>2 DEF Inv, Stages, BatchClients
<1> QED
  BY <1>4, <1>5, <1>6, <1>7, <1>8, <1>9, <1>10, <1>11 DEF Inv, Stages

LEMMA JobReturnsStep ==
  ASSUME Inv, NEW j \in Owners, JobReturns(j)
  PROVE  Inv'
<1> USE ThreadsAssumption DEF Owners
<1> DEFINE p == Parent[j]
<1>1. /\ j \in Jobs /\ at[j] = "run" /\ QueueDone(j) /\ at' = [at EXCEPT ![j] = "ended"]
      /\ left' = IF p \in Batch THEN left ELSE [left EXCEPT ![p] = @ - 1]
      /\ UNCHANGED <<jobs, threads, cur, worker, joined>> /\ j # Main
      /\ j \in Children(p) /\ p \in Owners
  BY DEF JobReturns, Goto, Submitted, Children
<1>2. Busy' = Busy /\ (\A k : Queued(k)' <=> Queued(k)) /\ \A q : Children(q)' = Children(q)
  BY <1>1 DEF Busy, Queued, Children, jobs, worker
<1>3. \A k \in Children(j) : Over(k)
  BY <1>1, QueueIsDone DEF Inv, Stages, BatchJobs
<1>4. p \notin Batch => left[p] = Cardinality(Outstanding(p)) /\ left[p] - 1 \in Nat
                        /\ Cardinality(Outstanding(p) \ {j}) = left[p] - 1
  <2>1. j \in Outstanding(p) /\ IsFiniteSet(Outstanding(p))
    BY <1>1, FiniteSubsets DEF Outstanding, Over
  <2>2. /\ Cardinality(Outstanding(p) \ {j}) = Cardinality(Outstanding(p)) - 1
        /\ Cardinality(Outstanding(p) \ {j}) \in Nat
    BY <2>1, FS_RemoveElement, FS_CardinalityType
  <2> QED
    BY <1>1, <2>2 DEF Inv, Stages, Counting
<1> HIDE DEF p
<1>5. TypeOK'
  <2>1. left' \in [Owners -> Nat]
    BY <1>1, <1>4 DEF Inv, TypeOK
  <2> QED
    BY <1>1, <2>1 DEF Inv, TypeOK, JobReturns, jobs, waiting, threads, locks, worker
<1>6. Places' /\ ThreadsStarted'
  BY <1>1 DEF Inv, TypeOK, Places, ThreadsStarted, threads, worker
<1>7. JobsAccounted'
  BY <1>1, <1>2 DEF Inv, TypeOK, JobsAccounted, Alive, Queued, jobs, worker
<1>8. Nested'
  BY <1>1, <1>3 DEF Inv, TypeOK, Stages, Nested, Running, Children, Over
<1>9. InHand'
  BY <1>1, <1>2 DEF Inv, TypeOK, Stages, InHand, Children
<1>10. Counting'
  <2>1. Outstanding(p)' = Outstanding(p) \ {j}
    BY <1>1 DEF Inv, TypeOK, Outstanding, Children, Over
  <2>2. \A q \in Owners \ {p} : Outstanding(q)' = Outstanding(q)
    BY <1>1 DEF Inv, TypeOK, Outstanding, Children, Over
  <2> QED
    BY <1>1, <1>4, <2>1, <2>2 DEF Inv, TypeOK, Stages, Counting
<1>11. BatchJobs'
  BY <1>1, <1>2 DEF Inv, TypeOK, Stages, BatchJobs, Children, Over, Alive
<1>12. BatchClients'
  BY <1>1, <1>2 DEF Inv, TypeOK, Stages, BatchClients, Children, Over, Alive, worker
<1> QED
  BY <1>5, <1>6, <1>7, <1>8, <1>9, <1>10, <1>11, <1>12 DEF Inv, Stages

(* Threads that start are not busy yet. *)
LEMMA SpawnFacts ==
  ASSUME Inv, NEW n \in Nat, Spawn(Startable(n))
  PROVE  /\ Startable(n) \in Nat /\ aWT' = aWT + Startable(n) /\ aWT' \in 0 .. MaxThreads
         /\ wpc' \in [Workers -> {"none", "get", "marked", "drowsy", "asleep", "busy", "exited"}]
         /\ \A w \in Workers : w > aWT' => wpc'[w] = "none"
         /\ \A w \in Workers : wpc[w] # "none" => wpc'[w] = wpc[w]
         /\ Busy' = Busy
<1>1. /\ aWT \in 0 .. MaxThreads /\ maxThreads \in 0 .. MaxThreads
      /\ wpc \in [Workers -> {"none", "get", "marked", "drowsy", "asleep", "busy", "exited"}]
      /\ \A w \in Workers : w > aWT => wpc[w] = "none"
  BY DEF Inv, TypeOK, ThreadsStarted
<1>2. /\ Startable(n) \in Nat /\ aWT + Startable(n) <= MaxThreads
  BY <1>1, ThreadsAssumption DEF Startable
<1> DEFINE m == Startable(n)
<1>3. /\ aWT' = aWT + m
      /\ wpc' = [w \in Workers |-> IF aWT < w /\ w <= aWT + m THEN "get" ELSE wpc[w]]
  BY DEF Spawn
<1>4. m \in Nat /\ aWT + m <= MaxThreads
  BY <1>2
<1> HIDE DEF m
<1>5. aWT' \in 0 .. MaxThreads
  BY <1>1, <1>3, <1>4, ThreadsAssumption
<1>6. /\ wpc' \in [Workers -> {"none", "get", "marked", "drowsy", "asleep", "busy", "exited"}]
      /\ \A w \in Workers : wpc[w] # "none" => wpc'[w] = wpc[w]
      /\ \A w \in Workers : wpc'[w] = "busy" => wpc[w] = "busy"
  BY <1>1, <1>3
<1>7. \A w \in Workers : w > aWT' => wpc'[w] = "none"
  BY <1>1, <1>3, <1>4, ThreadsAssumption DEF Workers
<1>8. Busy' = Busy
  BY <1>6 DEF Busy
<1> QED
  BY <1>3, <1>4, <1>5, <1>6, <1>7, <1>8 DEF m

LEMMA EnqueueStep ==
  ASSUME Inv, NEW o \in Owners, Enqueue(o)
  PROVE  Inv'
<1> USE ThreadsAssumption DEF Owners
<1> DEFINE j == cur[o]
           q == psJobQueue
           r == <<j>> \o q
<1>1. /\ at[o] \in {"submit", "reserved"} /\ o \notin Batch
      /\ j \in Jobs /\ Parent[j] = o /\ at[j] = "submitted" /\ ~Queued(j)
      /\ o # j /\ o # Main
  BY DEF Inv, Places, Stages, InHand, Children, Enqueue, ReadyToQueue
<1>2. /\ psJobQueue' = r /\ nPendingJobs' = nPendingJobs + 1
      /\ UNCHANGED <<faults, eager, maxThreads, eState, wtMutex, sleepers, cur, left,
                     wakes, job, thread, joined>>
      /\ Spawn(Startable(1))
  BY DEF Enqueue
<1>3. \E where \in {"run", "handover"} : at' = [at EXCEPT ![o] = where]
  BY DEF Enqueue, Unlink, Goto
<1>4. /\ Busy' = Busy /\ aWT' \in 0 .. MaxThreads /\ aWT' >= aWT
      /\ wpc' \in [Workers -> {"none", "get", "marked", "drowsy", "asleep", "busy", "exited"}]
      /\ \A w \in Workers : w > aWT' => wpc'[w] = "none"
  BY <1>2, SpawnFacts DEF Inv, TypeOK
<1>5. q \in Seq(Jobs) /\ <<j>> \in Seq(Jobs) /\ r \in Seq(Jobs) /\ Len(r) = Len(q) + 1
  BY <1>1, ConcatFacts DEF Inv, TypeOK
<1>6. /\ \A k \in DOMAIN r : r[k] = j \/ \E l \in DOMAIN q : r[k] = q[l]
      /\ \A k \in DOMAIN q : \E l \in DOMAIN r : r[l] = q[k]
  <2> DEFINE a == <<j>>
  <2>1. Len(a) = 1 /\ DOMAIN a = {1} /\ a[1] = j /\ DOMAIN q = 1 .. Len(q) /\ Len(q) \in Nat
    BY <1>5
  <2>2. a \in Seq(Jobs) /\ q \in Seq(Jobs) /\ r = a \o q
    BY <1>5
  <2> HIDE DEF a, r, q
  <2>3. /\ DOMAIN r = 1 .. (Len(a) + Len(q))
        /\ \A k \in DOMAIN q : r[Len(a) + k] = q[k]
        /\ \A k \in DOMAIN r :
             \/ k \in DOMAIN a /\ r[k] = a[k]
             \/ k - Len(a) \in DOMAIN q /\ r[k] = q[k - Len(a)]
    <3>1. /\ DOMAIN (a \o q) = 1 .. (Len(a) + Len(q))
          /\ \A k \in DOMAIN q : (a \o q)[Len(a) + k] = q[k]
          /\ \A k \in DOMAIN (a \o q) :
               \/ k \in DOMAIN a /\ (a \o q)[k] = a[k]
               \/ k - Len(a) \in DOMAIN q /\ (a \o q)[k] = q[k - Len(a)]
      BY <2>2, ConcatFacts, Zenon
    <3> QED
      BY <2>2, <3>1
  <2>4. \A k \in DOMAIN q : Len(a) + k \in DOMAIN r
    BY <2>1, <2>3
  <2> QED
    BY <2>1, <2>3, <2>4
<1>7. \A k, l \in DOMAIN r : r[k] = r[l] => k = l
  <2>1. \A k, l \in DOMAIN q : q[k] = q[l] => k = l
    BY DEF Inv, JobsAccounted
  <2>2. \A l \in DOMAIN q : q[l] # j
    BY <1>1 DEF Queued
  <2>3. \A k \in DOMAIN <<j>> : k = 1 /\ <<j>>[k] = j
    OBVIOUS
  <2> QED
    BY <1>5, <2>1, <2>2, <2>3, DistinctConcat
<1> HIDE DEF j, q, r
<1>8. \A k \in Jobs :
         /\ Over(k)' <=> Over(k)
         /\ Alive(k)' <=> Alive(k)
         /\ at'[k] \in {"new", "submitted", "ended", "dropped"} => at'[k] = at[k]
         /\ at[k] \in {"new", "submitted", "ended", "dropped"} => at'[k] = at[k]
  <2>1. DOMAIN at = Owners \cup {Main}
    BY DEF Inv, TypeOK
  <2> QED
    BY <1>1, <1>3, <2>1 DEF Over, Alive
<1>9. /\ \A k \in Jobs : Queued(k)' => k = j \/ Queued(k)
      /\ \A k \in Jobs : Queued(k) => Queued(k)'
  BY <1>2, <1>6 DEF Queued, q
<1>10. \A p : Children(p)' = Children(p) /\ Children(p) \subseteq Jobs
  BY DEF Children
<1>11. TypeOK'
  <2>1. at' \in [Owners \cup {Main} -> {"new", "submitted", "run", "submit", "reserved", "handover", "notify",
               "sync", "wake", "relock", "poolwait", "ended", "dropped", "done",
               "setup", "serving", "stop", "join", "joining"}]
    BY <1>3 DEF Inv, TypeOK
  <2>2. /\ psWaiting' \in Seq(Workers) /\ nWaiting' \in Int
        /\ marked' \in [Workers -> BOOLEAN] /\ target' \in [Owners -> Workers \cup {0}]
        /\ m_mutex' \in BOOLEAN
    <3>1. nWaiting + Reservation(o) \in Int
      BY DEF Inv, TypeOK, Reservation
    <3>2. CASE psWaiting = <<>>
      BY <3>1, <3>2 DEF Inv, TypeOK, Enqueue, Unlink
    <3>3. CASE psWaiting # <<>>
      <4>1. /\ psWaiting' = Tail(psWaiting) /\ nWaiting' = (nWaiting + Reservation(o)) - 1
            /\ marked' = [marked EXCEPT ![Head(psWaiting)] = FALSE]
            /\ target' = [target EXCEPT ![o] = Head(psWaiting)] /\ m_mutex' = TRUE
        BY <3>3 DEF Enqueue, Unlink
      <4>2. Tail(psWaiting) \in Seq(Workers) /\ Head(psWaiting) \in Workers
        BY <3>3 DEF Inv, TypeOK
      <4>3. marked' \in [Workers -> BOOLEAN] /\ target' \in [Owners -> Workers \cup {0}]
        BY <4>1, <4>2 DEF Inv, TypeOK
      <4> QED
        BY <3>1, <4>1, <4>2, <4>3
    <3> QED
      BY <3>2, <3>3
  <2>3. nPendingJobs' \in Nat
    BY <1>2 DEF Inv, TypeOK
  <2> QED
    BY <1>2, <1>4, <1>5, <2>1, <2>2, <2>3 DEF Inv, TypeOK
<1>12. Places'
  BY <1>1, <1>3 DEF Inv, TypeOK, Places
<1>13. ThreadsStarted'
  <2>1. at'[Main] = at[Main]
    BY <1>1, <1>3 DEF Inv, TypeOK
  <2> QED
    BY <1>2, <1>4, <2>1 DEF Inv, TypeOK, ThreadsStarted
<1>14. JobsAccounted'
  <2>1. \A k \in DOMAIN r : r[k] \in Jobs /\ at'[r[k]] = "submitted"
    <3>1. \A l \in DOMAIN q : q[l] \in Jobs /\ at[q[l]] = "submitted"
      BY <1>5 DEF Inv, JobsAccounted, q
    <3> QED
      BY <1>1, <1>6, <1>8, <3>1
  <2>2. nPendingJobs + 1 = Len(r) + Cardinality(Busy)
    <3>1. nPendingJobs = Len(q) + Cardinality(Busy)
      BY DEF Inv, JobsAccounted, q
    <3>2. Len(q) \in Nat /\ Cardinality(Busy) \in Nat
      BY <1>5, FiniteSubsets, FS_CardinalityType
    <3> QED
      BY <1>5, <3>1, <3>2
  <2> QED
    BY <1>2, <1>4, <1>7, <1>8, <2>1, <2>2 DEF Inv, JobsAccounted
<1>15. Nested'
  BY <1>1, <1>3 DEF Inv, TypeOK, Stages, Nested, Running
<1>16. InHand'
  <2> SUFFICES ASSUME NEW p \in Owners, at'[p] \in {"submit", "reserved"}
               PROVE  /\ cur[p] \in Children(p) /\ at'[cur[p]] = "submitted"
                      /\ ~\E k \in DOMAIN psJobQueue' : psJobQueue'[k] = cur[p]
    BY <1>2, <1>10 DEF InHand, Queued
  <2>1. p # o /\ at[p] \in {"submit", "reserved"}
    BY <1>3 DEF Inv, TypeOK
  <2>2. cur[p] \in Children(p) /\ at[cur[p]] = "submitted" /\ ~Queued(cur[p])
    BY <2>1 DEF Inv, Stages, InHand
  <2>3. cur[p] \in Jobs /\ cur[p] # j
    BY <1>1, <2>1, <2>2 DEF Children
  <2> QED
    <3>1. at'[cur[p]] = "submitted"
      BY <1>8, <2>2, <2>3
    <3>2. ~\E k \in DOMAIN psJobQueue' : psJobQueue'[k] = cur[p]
      <4> PICK x \in Jobs : x = cur[p]
        BY <2>3
      <4>1. ~Queued(x) /\ x # j
        BY <2>2, <2>3
      <4>2. ~Queued(x)'
        BY <1>9, <4>1
      <4> QED
        BY <4>2 DEF Queued
    <3> QED
      BY <2>2, <3>1, <3>2
<1>17. Counting'
  <2>1. \A p : Outstanding(p)' = Outstanding(p)
    BY <1>8, <1>10 DEF Outstanding
  <2> QED
    BY <1>2, <2>1 DEF Inv, Stages, Counting
<1>18. BatchJobs'
  <2>1. \A p \in Jobs \cap Batch : at[p] = "sync" => at'[p] = "sync"
    BY <1>1, <1>3 DEF Inv, TypeOK
  <2> QED
    BY <1>2, <1>8, <1>10, <2>1 DEF Inv, Stages, BatchJobs
<1>19. BatchClients'
  <2>1. \A c \in Clients \cap Batch : at'[c] = at[c]
    BY <1>1, <1>3 DEF Inv, TypeOK
  <2> SUFFICES ASSUME NEW c \in Clients \cap Batch, NEW k \in Children(c)
               PROVE  /\ at[c] = "run" => at'[k] = "new"
                      /\ \/ Over(k)'
                         \/ at'[k] = "submitted" /\ Queued(k)'
                         \/ Alive(k)' /\ \E w \in Busy : job[w] = k
    BY <1>2, <1>4, <1>10, <2>1 DEF BatchClients
  <2>2. k \in Jobs
    BY <1>10
  <2> QED
    BY <1>8, <1>9, <2>2 DEF Inv, Stages, BatchClients
<1> QED
  BY <1>11, <1>12, <1>13, <1>14, <1>15, <1>16, <1>17, <1>18, <1>19 DEF Inv, Stages

LEMMA SubmitJobsStep ==
  ASSUME Inv, NEW c \in Owners, SubmitJobs(c)
  PROVE  Inv'
<1> USE ThreadsAssumption DEF Owners
<1> DEFINE S == Children(c)
           n == Cardinality(S)
           q == psJobQueue
<1>1. /\ c \in Clients \cap Batch /\ at[c] = "run" /\ at[Main] = "serving" /\ c # Main
      /\ S \subseteq Jobs /\ c \notin S
      /\ \A j \in S : at[j] = "new" /\ j # Main
  BY DEF SubmitJobs, Serving, Children, Inv, Stages, BatchClients
<1>2. \E k \in Nat : aWT + k <= MaxThreads /\ k <= Startable(n) /\ Spawn(k)
  <2>1. n \in Nat
    BY FiniteSubsets, FS_CardinalityType
  <2>2. \E k \in Started(n) : Spawn(k)
    BY DEF SubmitJobs
  <2> HIDE DEF n, S
  <2>3. Startable(n) \in Nat /\ aWT + Startable(n) <= MaxThreads /\ aWT \in Nat
    BY <2>1 DEF Inv, TypeOK, Startable
  <2>4. Started(n) \subseteq 0 .. Startable(n)
    BY <2>3 DEF Started
  <2> QED
    BY <2>2, <2>3, <2>4
<1>3. PICK p \in Listings(S) : psJobQueue' = p \o q
  BY DEF SubmitJobs
<1>4. /\ nPendingJobs' = nPendingJobs + n /\ wakes' = [wakes EXCEPT ![c] = n] /\ m_mutex' = TRUE
      /\ at' = [o \in DOMAIN at |-> IF o \in S THEN "submitted"
                                    ELSE IF o = c THEN "wake" ELSE at[o]]
      /\ UNCHANGED <<faults, eager, waiting, maxThreads, eState, wtMutex, sleepers,
                     cur, target, left, job, thread, joined>>
  BY DEF SubmitJobs
<1>5. /\ p \in Seq(Jobs) /\ Len(p) = n /\ n \in Nat
      /\ \A k, l \in DOMAIN p : p[k] = p[l] => k = l
      /\ \A k \in DOMAIN p : p[k] \in S
      /\ \A j \in S : \E k \in DOMAIN p : p[k] = j
  BY <1>1, ListingFacts
<1> DEFINE r == p \o q
<1>6. q \in Seq(Jobs) /\ r \in Seq(Jobs) /\ Len(r) = n + Len(q) /\ psJobQueue' = r
  <2>1. q \in Seq(Jobs)
    BY DEF Inv, TypeOK
  <2> HIDE DEF q, n
  <2> QED
    BY <1>3, <1>5, <2>1, ConcatFacts
<1>7. /\ \A k \in DOMAIN q : at[q[k]] = "submitted" /\ q[k] \in Jobs
      /\ \A k, l \in DOMAIN q : q[k] = q[l] => k = l
  BY <1>6 DEF Inv, JobsAccounted
<1>8. \A k, l \in DOMAIN r : r[k] = r[l] => k = l
  <2>1. \A k \in DOMAIN p, l \in DOMAIN q : p[k] # q[l]
    BY <1>1, <1>5, <1>7
  <2> HIDE DEF S, q, n
  <2> QED
    BY <1>5, <1>6, <1>7, <2>1, DistinctConcat
<1>9. /\ \A k \in DOMAIN r : r[k] \in S \/ \E l \in DOMAIN q : r[k] = q[l]
      /\ \A k \in DOMAIN q : \E l \in DOMAIN r : r[l] = q[k]
      /\ \A j \in S : \E l \in DOMAIN r : r[l] = j
  <2> HIDE DEF S, q, n, r
  <2>1. /\ DOMAIN r = 1 .. (Len(p) + Len(q)) /\ DOMAIN p = 1 .. Len(p) /\ DOMAIN q = 1 .. Len(q)
        /\ Len(p) \in Nat /\ Len(q) \in Nat
        /\ \A k \in DOMAIN p : r[k] = p[k]
        /\ \A k \in DOMAIN q : r[Len(p) + k] = q[k]
        /\ \A k \in DOMAIN r :
             \/ k \in DOMAIN p /\ r[k] = p[k]
             \/ k - Len(p) \in DOMAIN q /\ r[k] = q[k - Len(p)]
    BY <1>5, <1>6, ConcatFacts DEF r
  <2>2. \A k \in DOMAIN q : Len(p) + k \in DOMAIN r
    BY <2>1
  <2>3. \A k \in DOMAIN p : k \in DOMAIN r
    BY <2>1
  <2> QED
    BY <1>5, <2>1, <2>2, <2>3
<1>10. /\ Busy' = Busy /\ aWT' \in 0 .. MaxThreads /\ aWT' >= aWT
       /\ wpc' \in [Workers -> {"none", "get", "marked", "drowsy", "asleep", "busy", "exited"}]
       /\ \A w \in Workers : w > aWT' => wpc'[w] = "none"
  <2>1. /\ aWT \in 0 .. MaxThreads
        /\ wpc \in [Workers -> {"none", "get", "marked", "drowsy", "asleep", "busy", "exited"}]
        /\ \A w \in Workers : w > aWT => wpc[w] = "none"
    BY DEF Inv, TypeOK, ThreadsStarted
  <2>2. PICK k \in Nat : aWT + k <= MaxThreads /\ Spawn(k)
    BY <1>2
  <2>3. /\ aWT' = aWT + k
        /\ wpc' = [w \in Workers |-> IF aWT < w /\ w <= aWT + k THEN "get" ELSE wpc[w]]
    BY <2>2 DEF Spawn
  <2>4. wpc' \in [Workers -> {"none", "get", "marked", "drowsy", "asleep", "busy", "exited"}]
    BY <2>1, <2>3
  <2>5. Busy' = Busy
    BY <2>1, <2>3 DEF Busy, Workers
  <2>6. \A w \in Workers : w > aWT' => wpc'[w] = "none"
    BY <2>1, <2>2, <2>3 DEF Workers
  <2> QED
    BY <2>1, <2>2, <2>3, <2>4, <2>5, <2>6
<1> HIDE DEF S, n, q, r
<1>11. /\ \A j \in S : Over(j) /\ at[j] = "new" /\ at'[j] = "submitted" /\ ~Over(j)' /\ ~Queued(j)
       /\ \A j \in S : \A w \in Busy : job[w] # j
       /\ \A j \in Jobs \ S : at'[j] = at[j] /\ (Over(j)' <=> Over(j)) /\ (Alive(j)' <=> Alive(j))
  <2>1. DOMAIN at = Owners \cup {Main}
    BY DEF Inv, TypeOK
  <2>2. \A j \in S : ~Queued(j)
    BY <1>1, <1>7 DEF Queued, q
  <2>3. \A j \in S : \A w \in Busy : job[w] # j
    BY <1>1 DEF Inv, JobsAccounted, Alive
  <2> QED
    BY <1>1, <1>4, <2>1, <2>2, <2>3 DEF Over, Alive
<1>12. /\ \A k \in Jobs : Queued(k)' => k \in S \/ Queued(k)
       /\ \A k \in Jobs : Queued(k) \/ k \in S => Queued(k)'
  BY <1>6, <1>9 DEF Queued, q
<1>13. \A o : Children(o)' = Children(o) /\ Children(o) \subseteq Jobs
  BY DEF Children
<1>14. TypeOK'
  <2>1. at' \in [Owners \cup {Main} -> {"new", "submitted", "run", "submit", "reserved", "handover", "notify",
               "sync", "wake", "relock", "poolwait", "ended", "dropped", "done",
               "setup", "serving", "stop", "join", "joining"}]
    BY <1>4 DEF Inv, TypeOK
  <2>2. wakes' \in [Owners -> Nat] /\ nPendingJobs' \in Nat
    BY <1>4, <1>5 DEF Inv, TypeOK
  <2>3. psJobQueue' \in Seq(Jobs)
    BY <1>3, <1>6 DEF r
  <2> QED
    BY <1>4, <1>10, <2>1, <2>2, <2>3 DEF Inv, TypeOK, waiting
<1>15. Places'
  BY <1>1, <1>4 DEF Inv, TypeOK, Places
<1>16. ThreadsStarted'
  <2>1. at'[Main] = "serving"
    BY <1>1, <1>4 DEF Inv, TypeOK
  <2> QED
    BY <1>10, <2>1 DEF ThreadsStarted
<1>17. JobsAccounted'
  <2>1. \A k \in DOMAIN r : at'[r[k]] = "submitted"
    <3>1. \A l \in DOMAIN q : at'[q[l]] = "submitted"
      BY <1>7, <1>11
    <3> QED
      BY <1>9, <1>11, <3>1
  <2>2. nPendingJobs + n = Len(r) + Cardinality(Busy)
    <3>1. nPendingJobs = Len(q) + Cardinality(Busy)
      BY DEF Inv, JobsAccounted, q
    <3>2. Len(q) \in Nat /\ Cardinality(Busy) \in Nat
      BY <1>6, FiniteSubsets, FS_CardinalityType
    <3> QED
      BY <1>5, <1>6, <3>1, <3>2
  <2>3. \A w \in Busy : job[w] \in Jobs \ S
    BY <1>11 DEF Inv, JobsAccounted
  <2>4. \A w \in Busy : /\ job[w] \in Jobs /\ thread[job[w]] = w
                        /\ Alive(job[w]) \/ at[job[w]] = "ended"
    BY DEF Inv, JobsAccounted
  <2>5. \A w \in Busy : at'[job[w]] = at[job[w]]
    BY <1>11, <2>3
  <2>6. (\A w \in Busy : /\ job[w] \in Jobs /\ thread[job[w]] = w
                         /\ Alive(job[w]) \/ at[job[w]] = "ended")'
    BY <1>4, <1>10, <2>4, <2>5 DEF Alive
  <2>7. (nPendingJobs = Len(psJobQueue) + Cardinality(Busy))'
    BY <1>4, <1>6, <1>10, <2>2
  <2>8. /\ (\A k, l \in DOMAIN psJobQueue : psJobQueue[k] = psJobQueue[l] => k = l)'
        /\ (\A k \in DOMAIN psJobQueue : at[psJobQueue[k]] = "submitted")'
    BY <1>6, <1>8, <2>1
  <2> QED
    BY <2>6, <2>7, <2>8 DEF JobsAccounted
<1>18. Nested'
  <2> SUFFICES ASSUME NEW j \in Jobs, at'[j] \notin {"new", "ended", "dropped"}
               PROVE  Running(Parent[j])'
    BY DEF Nested
  <2>1. at'[c] = "wake"
    BY <1>1, <1>4 DEF Inv, TypeOK
  <2>2. CASE j \in S
    BY <2>1, <2>2 DEF S, Children, Running
  <2>3. CASE j \notin S
    <3>1. Running(Parent[j]) /\ Parent[j] \in Owners
      BY <1>11, <2>3 DEF Inv, Stages, Nested
    <3> QED
      BY <1>1, <1>4, <3>1 DEF Inv, TypeOK, Running
  <2> QED
    BY <2>2, <2>3
<1>19. InHand'
  <2> SUFFICES ASSUME NEW o \in Owners, at'[o] \in {"submit", "reserved"}
               PROVE  /\ cur[o] \in Children(o) /\ at'[cur[o]] = "submitted"
                      /\ ~\E k \in DOMAIN psJobQueue' : psJobQueue'[k] = cur[o]
    BY <1>4, <1>13 DEF InHand, Queued
  <2>1. at[o] \in {"submit", "reserved"}
    BY <1>4 DEF Inv, TypeOK
  <2>2. cur[o] \in Children(o) /\ at[cur[o]] = "submitted" /\ ~Queued(cur[o])
    BY <2>1 DEF Inv, Stages, InHand
  <2>3. cur[o] \in Jobs \ S
    BY <1>1, <1>13, <2>2
  <2> PICK x \in Jobs \ S : x = cur[o]
    BY <2>3
  <2>4. ~Queued(x)'
    BY <1>12, <2>2
  <2>5. ~\E k \in DOMAIN psJobQueue' : psJobQueue'[k] = x
    BY <2>4 DEF Queued
  <2> QED
    BY <1>11, <2>2, <2>5
<1>20. Counting'
  <2>1. \A o \in Owners \ {c} : Outstanding(o)' = Outstanding(o)
    <3> SUFFICES ASSUME NEW o \in Owners \ {c} PROVE Outstanding(o)' = Outstanding(o)
      OBVIOUS
    <3>1. \A k \in Children(o) : k \in Jobs \ S
      BY DEF Children, S
    <3> QED
      BY <1>11, <1>13, <3>1 DEF Outstanding
  <2> QED
    BY <1>1, <1>4, <2>1 DEF Inv, Stages, Counting
<1>21. BatchJobs'
  <2>1. \A p_1 \in Jobs \cap Batch : at[p_1] = "sync" => at'[p_1] = "sync"
    BY <1>1, <1>4 DEF Inv, TypeOK
  <2>2. \A p_1 \in Jobs : \A k \in Children(p_1) : k \in Jobs \ S
    BY <1>1 DEF Children, S
  <2> QED
    BY <1>4, <1>11, <1>13, <2>1, <2>2 DEF Inv, Stages, BatchJobs
<1>22. BatchClients'
  <2> SUFFICES ASSUME NEW d \in Clients \cap Batch, NEW k \in Children(d)
               PROVE  /\ at'[d] = "run" => at'[k] = "new"
                      /\ \/ Over(k)'
                         \/ at'[k] = "submitted" /\ Queued(k)'
                         \/ Alive(k)' /\ \E w \in Busy : job[w] = k
    BY <1>4, <1>10, <1>13 DEF BatchClients
  <2>1. k \in Jobs
    BY <1>13
  <2>2. CASE k \in S
    <3>1. d = c
      BY <2>2 DEF S, Children
    <3>2. at'[c] = "wake"
      BY <1>1, <1>4 DEF Inv, TypeOK
    <3> QED
      BY <1>11, <1>12, <2>1, <2>2, <3>1, <3>2
  <2>3. CASE k \notin S
    <3>1. d # c
      BY <2>3 DEF S
    <3>2. at'[d] = at[d]
      BY <1>1, <1>4, <3>1 DEF Inv, TypeOK
    <3> QED
      BY <1>11, <1>12, <2>1, <2>3, <3>2 DEF Inv, Stages, BatchClients
  <2> QED
    BY <2>2, <2>3
<1> QED
  BY <1>14, <1>15, <1>16, <1>17, <1>18, <1>19, <1>20, <1>21, <1>22 DEF Inv, Stages

LEMMA GetJobStep ==
  ASSUME Inv, NEW w \in Workers, GetJob(w)
  PROVE  Inv'
<1> USE ThreadsAssumption DEF Owners
<1> DEFINE q == psJobQueue
<1>0. q \in Seq(Jobs) /\ q # <<>>
  BY DEF GetJob, Inv, TypeOK
<1> PICK j \in Jobs : j = Head(q)
  BY <1>0, TailFacts
<1>1. /\ q \in Seq(Jobs) /\ q # <<>> /\ wpc[w] = "get"
      /\ psJobQueue' = Tail(q) /\ UNCHANGED <<faults, eager, nPendingJobs, waiting, threads,
                                              locks, sleepers, cur, target, left, wakes, joined>>
      /\ job' = [job EXCEPT ![w] = j] /\ thread' = [thread EXCEPT ![j] = w]
      /\ at' = [at EXCEPT ![j] = "run"] /\ wpc' = [wpc EXCEPT ![w] = "busy"]
  BY <1>0 DEF GetJob, Goto, WithoutTopJob
<1>2. /\ Tail(q) \in Seq(Jobs) /\ Len(Tail(q)) = Len(q) - 1 /\ Len(q) \in Nat
      /\ 1 \in DOMAIN q /\ j = q[1] /\ j \in Jobs
      /\ \A k \in DOMAIN Tail(q) : k + 1 \in DOMAIN q /\ Tail(q)[k] = q[k + 1]
      /\ \A k \in DOMAIN q \ {1} : k - 1 \in DOMAIN Tail(q) /\ Tail(q)[k - 1] = q[k]
      /\ DOMAIN Tail(q) \subseteq Nat
      /\ \A k \in DOMAIN Tail(q) : k # 0
  BY <1>1, TailFacts
<1>3. /\ \A k \in DOMAIN q : at[q[k]] = "submitted" /\ q[k] \in Jobs
      /\ \A k, l \in DOMAIN q : q[k] = q[l] => k = l
      /\ at[j] = "submitted"
  BY <1>1, <1>2 DEF Inv, JobsAccounted
<1> HIDE DEF q
<1>4. /\ \A k, l \in DOMAIN Tail(q) : Tail(q)[k] = Tail(q)[l] => k = l
      /\ \A k \in DOMAIN Tail(q) : Tail(q)[k] # j /\ \E l \in DOMAIN q : Tail(q)[k] = q[l]
  BY <1>2, <1>3
<1>5. /\ \A k \in Jobs : Queued(k)' => Queued(k) /\ k # j
      /\ \A k \in Jobs : Queued(k) /\ k # j => Queued(k)'
  <2>1. \A k \in Jobs : (\E l \in DOMAIN Tail(q) : Tail(q)[l] = k)
                         <=> (\E l \in DOMAIN q : q[l] = k) /\ k # j
    BY <1>2, <1>4
  <2> QED
    BY <1>1, <2>1 DEF Queued, q
<1>6. \A k \in Jobs \ {j} : at'[k] = at[k] /\ (Over(k)' <=> Over(k)) /\ (Alive(k)' <=> Alive(k))
  <2>1. DOMAIN at = Owners \cup {Main}
    BY DEF Inv, TypeOK
  <2> QED
    BY <1>1, <2>1 DEF Over, Alive
<1>7. at'[j] = "run" /\ ~Over(j) /\ ~Over(j)' /\ Alive(j)' /\ j # Main
  BY <1>1, <1>2, <1>3 DEF Inv, TypeOK, Over, Alive
<1>8. w \notin Busy /\ Busy' = Busy \cup {w} /\ \A v \in Busy : job[v] # j /\ job[v] \in Jobs
  <2>1. w \notin Busy /\ Busy' = Busy \cup {w}
    BY <1>1 DEF Inv, TypeOK, Busy
  <2>2. \A v \in Busy : job[v] # j /\ job[v] \in Jobs
    BY <1>3 DEF Inv, JobsAccounted, Alive
  <2> QED
    BY <2>1, <2>2
<1>9. \A o : Children(o)' = Children(o) /\ Children(o) \subseteq Jobs
  BY DEF Children
<1>10. TypeOK'
  <2>1. at' \in [Owners \cup {Main} -> {"new", "submitted", "run", "submit", "reserved", "handover", "notify",
               "sync", "wake", "relock", "poolwait", "ended", "dropped", "done",
               "setup", "serving", "stop", "join", "joining"}]
    BY <1>1 DEF Inv, TypeOK
  <2>2. /\ job' \in [Workers -> Jobs \cup {NoJob}] /\ thread' \in [Jobs -> Workers \cup {0}]
    BY <1>1, <1>2 DEF Inv, TypeOK
  <2>3. wpc' \in [Workers -> {"none", "get", "marked", "drowsy", "asleep", "busy", "exited"}]
    BY <1>1 DEF Inv, TypeOK
  <2> QED
    BY <1>1, <1>2, <2>1, <2>2, <2>3 DEF Inv, TypeOK, waiting, threads, locks
<1>11. Places'
  BY <1>1, <1>2, <1>3 DEF Inv, TypeOK, Places
<1>12. ThreadsStarted'
  BY <1>1, <1>7 DEF Inv, TypeOK, ThreadsStarted, threads
<1>13. JobsAccounted'
  <2>1. (\A v \in Busy : job[v] \in Jobs /\ thread[job[v]] = v /\ (Alive(job[v]) \/ at[job[v]] = "ended"))'
    <3> SUFFICES ASSUME NEW v \in Busy'
                 PROVE  /\ job'[v] \in Jobs /\ thread'[job'[v]] = v
                        /\ \/ at'[job'[v]] \notin {"new", "submitted", "ended", "dropped"}
                           \/ at'[job'[v]] = "ended"
      BY DEF Alive
    <3>1. CASE v = w
      BY <1>1, <1>2, <1>7, <3>1 DEF Inv, TypeOK
    <3>2. CASE v # w
      <4>1. v \in Busy /\ v \in Workers /\ job'[v] = job[v]
        BY <1>1, <1>8, <3>2 DEF Inv, TypeOK, Busy
      <4>2. /\ job[v] \in Jobs \ {j} /\ thread[job[v]] = v
            /\ \/ at[job[v]] \notin {"new", "submitted", "ended", "dropped"}
               \/ at[job[v]] = "ended"
        BY <1>8, <4>1 DEF Inv, JobsAccounted, Alive
      <4>3. thread'[job[v]] = thread[job[v]] /\ at'[job[v]] = at[job[v]]
        BY <1>1, <1>6, <4>2 DEF Inv, TypeOK
      <4> QED
        BY <4>1, <4>2, <4>3
    <3> QED
      BY <3>1, <3>2
  <2>2. (nPendingJobs = Len(psJobQueue) + Cardinality(Busy))'
    <3>1. nPendingJobs = Len(q) + Cardinality(Busy) /\ nPendingJobs' = nPendingJobs
      BY <1>1 DEF Inv, JobsAccounted, q
    <3>2. Cardinality(Busy') = Cardinality(Busy) + 1 /\ Cardinality(Busy) \in Nat
      BY <1>8, FiniteSubsets, FS_AddElement, FS_CardinalityType
    <3> QED
      BY <1>1, <1>2, <3>1, <3>2
  <2>3. (\A k, l \in DOMAIN psJobQueue : psJobQueue[k] = psJobQueue[l] => k = l)'
    BY <1>1, <1>4
  <2>4. (\A k \in DOMAIN psJobQueue : at[psJobQueue[k]] = "submitted")'
    BY <1>1, <1>3, <1>4, <1>6
  <2> QED
    BY <2>1, <2>2, <2>3, <2>4 DEF JobsAccounted
<1>14. Nested'
  <2> SUFFICES ASSUME NEW k \in Jobs, at'[k] \notin {"new", "ended", "dropped"}
               PROVE  Running(Parent[k])'
    BY DEF Nested
  <2>1. Running(Parent[k]) /\ Parent[k] \in Owners
    BY <1>2, <1>3, <1>6 DEF Inv, Stages, Nested
  <2> QED
    BY <1>1, <2>1 DEF Inv, TypeOK, Running
<1>15. InHand'
  <2> SUFFICES ASSUME NEW o \in Owners, at'[o] \in {"submit", "reserved"}
               PROVE  /\ cur[o] \in Children(o) /\ at'[cur[o]] = "submitted"
                      /\ ~\E k \in DOMAIN psJobQueue' : psJobQueue'[k] = cur[o]
    BY <1>1, <1>9 DEF InHand, Queued
  <2>1. at[o] \in {"submit", "reserved"}
    BY <1>1 DEF Inv, TypeOK
  <2>2. cur[o] \in Children(o) /\ at[cur[o]] = "submitted" /\ ~Queued(cur[o])
    BY <2>1 DEF Inv, Stages, InHand
  <2>3. Queued(j)
    BY <1>2 DEF Queued, q
  <2> PICK x \in Jobs : x = cur[o]
    BY <1>9, <2>2
  <2>4. ~Queued(x)' /\ x # j
    BY <1>5, <2>2, <2>3
  <2>5. ~\E k \in DOMAIN psJobQueue' : psJobQueue'[k] = x
    BY <2>4 DEF Queued
  <2> QED
    BY <1>6, <2>2, <2>4, <2>5
<1>16. Counting'
  <2>1. \A o : Outstanding(o)' = Outstanding(o)
    BY <1>6, <1>7, <1>9 DEF Outstanding
  <2> QED
    BY <1>1, <2>1 DEF Inv, Stages, Counting
<1>17. BatchJobs'
  <2>1. \A o \in Jobs \cap Batch : at[o] = "sync" => at'[o] = "sync"
    BY <1>1, <1>3 DEF Inv, TypeOK
  <2>2. \A o \in Jobs \cap Batch : \A k \in Children(o) : k # j
    BY <1>3, <1>7 DEF Inv, Stages, BatchJobs, Alive
  <2> QED
    BY <1>1, <1>6, <1>9, <2>1, <2>2 DEF Inv, Stages, BatchJobs
<1>18. BatchClients'
  <2> SUFFICES ASSUME NEW d \in Clients \cap Batch, NEW k \in Children(d)
               PROVE  /\ at'[d] = "run" => at'[k] = "new"
                      /\ \/ Over(k)'
                         \/ at'[k] = "submitted" /\ Queued(k)'
                         \/ Alive(k)' /\ \E v \in Busy' : job'[v] = k
    BY <1>9 DEF BatchClients
  <2>1. k \in Jobs /\ at'[d] = at[d]
    BY <1>1, <1>2, <1>9 DEF Inv, TypeOK
  <2>2. \A v \in Busy : job'[v] = job[v] /\ v \in Busy'
    BY <1>1, <1>8 DEF Inv, TypeOK
  <2>3. w \in Busy' /\ job'[w] = j
    BY <1>1, <1>8 DEF Inv, TypeOK
  <2>4. CASE k = j
    <3>1. at[d] # "run"
      BY <1>3, <2>4 DEF Inv, Stages, BatchClients
    <3> QED
      BY <1>7, <2>1, <2>3, <2>4, <3>1
  <2>5. CASE k # j
    <3>1. /\ at[d] = "run" => at[k] = "new"
          /\ \/ Over(k)
             \/ at[k] = "submitted" /\ Queued(k)
             \/ Alive(k) /\ \E v \in Busy : job[v] = k
      BY DEF Inv, Stages, BatchClients
    <3> QED
      BY <1>5, <1>6, <2>1, <2>2, <2>5, <3>1
  <2> QED
    BY <2>4, <2>5
<1> QED
  BY <1>10, <1>11, <1>12, <1>13, <1>14, <1>15, <1>16, <1>17, <1>18 DEF Inv, Stages

LEMMA DeclareJobFinishedStep ==
  ASSUME Inv, NEW w \in Workers, DeclareJobFinished(w)
  PROVE  Inv'
<1> USE ThreadsAssumption DEF Owners
<1>1. /\ w \in Busy /\ at[job[w]] = "ended"
      /\ nPendingJobs' = nPendingJobs - 1
      /\ wpc' = [wpc EXCEPT ![w] = "get"] /\ job' = [job EXCEPT ![w] = NoJob]
      /\ UNCHANGED <<faults, eager, psJobQueue, waiting, threads, locks, at, cur, target,
                     left, wakes, thread, joined>>
  BY DEF DeclareJobFinished, Busy, owner
<1>2. /\ Busy' = Busy \ {w}
      /\ \A v \in Busy' : v \in Busy /\ v # w /\ job'[v] = job[v]
      /\ Cardinality(Busy') = Cardinality(Busy) - 1 /\ Cardinality(Busy) - 1 \in Nat
  <2>1. Busy' = Busy \ {w}
    BY <1>1 DEF Inv, TypeOK, Busy
  <2>2. Cardinality(Busy \ {w}) = Cardinality(Busy) - 1 /\ Cardinality(Busy \ {w}) \in Nat
    BY <1>1, FiniteSubsets, FS_RemoveElement, FS_CardinalityType
  <2>3. \A v \in Busy' : v \in Busy /\ v # w /\ job'[v] = job[v]
    BY <1>1, <2>1 DEF Inv, TypeOK, Busy
  <2> QED
    BY <2>1, <2>2, <2>3
<1>3. nPendingJobs' = Len(psJobQueue) + Cardinality(Busy') /\ nPendingJobs' \in Nat
  <2>1. nPendingJobs = Len(psJobQueue) + Cardinality(Busy) /\ Len(psJobQueue) \in Nat
        /\ Cardinality(Busy) \in Nat
    BY FiniteSubsets, FS_CardinalityType DEF Inv, TypeOK, JobsAccounted
  <2> QED
    BY <1>1, <1>2, <2>1
<1>4. TypeOK'
  <2>1. sleepers' \subseteq Owners \cup {Main}
    BY DEF Inv, TypeOK, DeclareJobFinished, NotifyOne
  <2>2. job' \in [Workers -> Jobs \cup {NoJob}]
    BY <1>1 DEF Inv, TypeOK
  <2>3. wpc' \in [Workers -> {"none", "get", "marked", "drowsy", "asleep", "busy", "exited"}]
    BY <1>1 DEF Inv, TypeOK
  <2> QED
    BY <1>1, <1>3, <2>1, <2>2, <2>3 DEF Inv, TypeOK, waiting, threads, locks
<1>5. Places' /\ ThreadsStarted'
  BY <1>1 DEF Inv, TypeOK, Places, ThreadsStarted, Busy, threads
<1>6. JobsAccounted'
  <2>1. \A v \in Busy : job[v] \in Jobs /\ thread[job[v]] = v /\ (Alive(job[v]) \/ at[job[v]] = "ended")
    BY DEF Inv, JobsAccounted
  <2>2. (\A v \in Busy : job[v] \in Jobs /\ thread[job[v]] = v /\ (Alive(job[v]) \/ at[job[v]] = "ended"))'
    BY <1>1, <1>2, <2>1 DEF Alive
  <2>3. (nPendingJobs = Len(psJobQueue) + Cardinality(Busy))'
    BY <1>1, <1>3
  <2>4. /\ (\A k, l \in DOMAIN psJobQueue : psJobQueue[k] = psJobQueue[l] => k = l)'
        /\ (\A k \in DOMAIN psJobQueue : at[psJobQueue[k]] = "submitted")'
    BY <1>1 DEF Inv, JobsAccounted
  <2> QED
    BY <2>2, <2>3, <2>4 DEF JobsAccounted
<1>7. Nested' /\ InHand' /\ Counting' /\ BatchJobs'
  BY <1>1 DEF Inv, Stages, Nested, InHand, Counting, BatchJobs, Running, Queued, Children,
              Outstanding, Over, Alive
<1>8. BatchClients'
  <2> SUFFICES ASSUME NEW d \in Clients \cap Batch, NEW k \in Children(d)
               PROVE  /\ at[d] = "run" => at[k] = "new"
                      /\ \/ Over(k)
                         \/ at[k] = "submitted" /\ Queued(k)
                         \/ Alive(k) /\ \E v \in Busy' : job'[v] = k
    BY <1>1 DEF BatchClients, Children, Over, Queued, Alive
  <2>1. /\ at[d] = "run" => at[k] = "new"
        /\ \/ Over(k)
           \/ at[k] = "submitted" /\ Queued(k)
           \/ Alive(k) /\ \E v \in Busy : job[v] = k
    BY DEF Inv, Stages, BatchClients
  <2>2. ASSUME NEW v \in Busy, job[v] = k, Alive(k) PROVE v \in Busy' /\ job'[v] = k
    <3>1. v # w
      BY <1>1, <2>2 DEF Alive
    <3> QED
      BY <1>2, <2>2, <3>1
  <2> QED
    BY <2>1, <2>2
<1> QED
  BY <1>4, <1>5, <1>6, <1>7, <1>8 DEF Inv, Stages

LEMMA InvStep == Inv /\ [Next]_vars => Inv'
<1> SUFFICES ASSUME Inv, [Next]_vars PROVE Inv'
  OBVIOUS
<1>1. CASE MainStep \/ \E n \in Workers : Resize(n)
  BY <1>1, MainSteps
<1>2. ASSUME NEW o \in Owners, OwnerStep(o) PROVE Inv'
  BY <1>2, QueueSubmitStep, RunSteps, OwnerSteps, SubmitFailsStep, EnqueueStep,
     SubmitJobsStep, JobReturnsStep DEF OwnerStep
<1>3. ASSUME NEW w \in Workers, WorkerStep(w) \/ SpuriousWakeup(w) PROVE Inv'
  BY <1>3, WorkerSteps, GetJobStep, DeclareJobFinishedStep DEF WorkerStep
<1>4. CASE UNCHANGED vars
  BY <1>4 DEF vars, jobs, waiting, threads, locks, owner, worker, Inv, TypeOK, Places,
              ThreadsStarted, JobsAccounted, Stages, Nested, InHand, Counting, BatchJobs,
              BatchClients, Running, Queued, Children, Outstanding, Over, Alive, Busy
<1> QED
  BY <1>1, <1>2, <1>3, <1>4 DEF Next

LEMMA PoolInvariant == Spec => []Inv
BY InvInit, InvStep, PTL DEF Spec

(***************************************************************************)
(* The variables have their types: no count of the pool or of a queue      *)
(* drops below zero, whatever fails (cpl_worker_thread_pool.h:48-140).     *)
(***************************************************************************)
THEOREM PoolTypes == Spec => []TypeOK
<1>1. Inv => TypeOK
  BY DEF Inv
<1> QED
  BY <1>1, PoolInvariant, PTL

(***************************************************************************)
(* A job is in the list once or with one worker, and nPendingJobs counts   *)
(* exactly these (cpl_worker_thread_pool.cpp:211-213, 320-322, 511-516,    *)
(* 532-544).                                                               *)
(***************************************************************************)
THEOREM PoolJobsAccounted == Spec => []JobsAccounted
<1>1. Inv => JobsAccounted
  BY DEF Inv
<1> QED
  BY <1>1, PoolInvariant, PTL
-----------------------------------------------------------------------------
(***************************************************************************)
(* The pool implements ForkJoin: each step is one of ForkJoin or none.     *)
(***************************************************************************)
LEMMA NowFacts ==
  \A o : /\ at[o] = "new" <=> Now(o) = "new"
         /\ at[o] = "submitted" <=> Now(o) = "ready"
         /\ at[o] = "dropped" <=> Now(o) = "lost"
         /\ at[o] \in {"ended", "done"} <=> Now(o) = "ended"
         /\ Now(o) = "running" <=>
              at[o] \notin {"new", "submitted", "dropped", "ended", "done"}
         /\ Running(o) => Now(o) = "running"
BY DEF Now, Running

LEMMA NowLater == \A o : at'[o] = at[o] => Now(o)' = Now(o)
BY DEF Now

LEMMA ForkIsStep ==
  ASSUME NEW o \in Owners, Now(o) = "running", NEW S \in SUBSET Jobs,
         \A j \in S : Parent[j] = o /\ Now(j) = "new",
         \A p \in Owners : Now(p)' = IF p \in S THEN "ready" ELSE Now(p)
  PROVE  Promise!FJNext
<1>1. Image[o] = "running" /\ DOMAIN Image = Owners
  BY DEF Image
<1>2. S \in SUBSET {j \in Promise!Below(o) : Image[j] = "new"}
  BY DEF Image, Owners, Promise!Below
<1>3. Image' = [p \in DOMAIN Image |-> IF p \in S THEN "ready" ELSE Image[p]]
  BY DEF Image
<1>4. Promise!Fork(o)
  BY <1>1, <1>2, <1>3 DEF Promise!Fork, Image, Now
<1> QED
  BY <1>4 DEF Promise!FJNext, Owners

LEMMA BeginIsStep ==
  ASSUME NEW j \in Jobs, Now(j) \in {"new", "ready"}, Parent[j] \in Owners,
         Now(Parent[j]) = "running",
         \A p \in Owners : Now(p)' = IF p = j THEN "running" ELSE Now(p)
  PROVE  Promise!FJNext
<1>1. Image[j] \in {"new", "ready"} /\ Image[Parent[j]] = "running"
  BY DEF Image, Owners
<1>2. Image' = [Image EXCEPT ![j] = "running"]
  BY DEF Image
<1>3. Promise!Begin(j)
  BY <1>1, <1>2 DEF Promise!Begin, Image, Now
<1> QED
  BY <1>3 DEF Promise!FJNext

LEMMA LoseIsStep ==
  ASSUME NEW j \in Jobs, Now(j) = "ready",
         \A p \in Owners : Now(p)' = IF p = j THEN "lost" ELSE Now(p)
  PROVE  Promise!FJNext
<1>1. Image[j] = "ready"
  BY DEF Image, Owners
<1>2. Image' = [Image EXCEPT ![j] = "lost"]
  BY DEF Image
<1>3. Promise!Lose(j)
  BY <1>1, <1>2 DEF Promise!Lose, Image, Now
<1> QED
  BY <1>3 DEF Promise!FJNext

LEMMA EndIsStep ==
  ASSUME NEW o \in Owners, Now(o) = "running",
         \A j \in Children(o) : Now(j) \in {"new", "ended"},
         \A p \in Owners : Now(p)' = IF p = o THEN "ended" ELSE Now(p)
  PROVE  Promise!FJNext
<1>1. Image[o] = "running"
  BY DEF Image
<1>2. \A j \in Promise!Below(o) : Image[j] \in {"new", "ended"}
  BY DEF Image, Owners, Promise!Below, Children
<1>3. Image' = [Image EXCEPT ![o] = "ended"]
  BY DEF Image
<1>4. Promise!End(o)
  BY <1>1, <1>2, <1>3 DEF Promise!End, Image, Now
<1> QED
  BY <1>4 DEF Promise!FJNext, Owners

LEMMA AbandonIsStep ==
  ASSUME \A j \in Jobs : Now(j) = "new",
         \A p \in Owners : Now(p)' = IF p \in Clients THEN "ended" ELSE Now(p)
  PROVE  Promise!FJNext
<1>1. \A j \in Jobs : Image[j] = "new"
  BY DEF Image, Owners
<1>2. DOMAIN Image = Owners /\ Image' = [p \in DOMAIN Image |-> IF p \in Clients THEN "ended" ELSE Image[p]]
  BY DEF Image
<1>3. Promise!Abandon
  BY <1>1, <1>2 DEF Promise!Abandon, Image, Now
<1> QED
  BY <1>3 DEF Promise!FJNext

LEMMA ImageInit == Init => Promise!FJInit
BY ThreadsAssumption DEF Init, Promise!FJInit, Owners, Image, Now

(* The steps of the owner of the pool: nothing, or a Setup that failed.    *)
LEMMA MainImage ==
  ASSUME Inv, MainStep \/ \E n \in Workers : Resize(n)
  PROVE  Promise!FJNext \/ \A p \in Owners : Now(p)' = Now(p)
<1> USE ThreadsAssumption DEF Owners
<1>1. CASE \A p \in Owners : at'[p] = at[p]
  BY <1>1, NowLater
<1>2. CASE at[Main] = "setup" /\ \E where \in {"setup", "serving"} : Abandon(where)
  <2>1. /\ \A j \in Jobs : Now(j) = "new"
        /\ \A p \in Owners : at'[p] = IF p \in Clients THEN "done" ELSE at[p]
    BY <1>2, NowFacts DEF Inv, TypeOK, Places, Abandon
  <2>2. \A p \in Owners : Now(p)' = IF p \in Clients THEN "ended" ELSE Now(p)
    BY <2>1, NowLater DEF Now
  <2> QED
    BY <2>1, <2>2, AbandonIsStep
<1>3. \/ \A p \in Owners : at'[p] = at[p]
      \/ at[Main] = "setup" /\ \E where \in {"setup", "serving"} : Abandon(where)
  <2>1. CASE SetupLazily
    BY <2>1 DEF SetupLazily, Goto, Inv, TypeOK
  <2>2. CASE SetupThread
    BY <2>2 DEF SetupThread, owner
  <2>3. CASE SetupFails
    BY <2>3 DEF SetupFails
  <2>4. CASE SetupWait
    BY <2>4 DEF SetupWait, Goto, Inv, TypeOK
  <2>5. CASE DestroyWait
    BY <2>5 DEF DestroyWait, WaitCompletion, Goto, Inv, TypeOK
  <2>6. CASE Stop \/ NotifyStop \/ Join
    BY <2>6 DEF Stop, NotifyStop, Join, Goto, Inv, TypeOK
  <2>7. CASE \E n \in Workers : Resize(n)
    BY <2>7 DEF Resize, owner
  <2> QED
    BY <2>1, <2>2, <2>3, <2>4, <2>5, <2>6, <2>7 DEF MainStep, SetupStep
<1> QED
  BY <1>1, <1>2, <1>3

(* An owner that goes from one place where it runs to another.             *)
LEMMA RunsOn ==
  ASSUME NEW o \in Owners, Running(o), Running(o)', \A p \in Owners \ {o} : at'[p] = at[p]
  PROVE  \A p \in Owners : Now(p)' = Now(p)
<1>1. Now(o)' = "running" /\ Now(o) = "running"
  BY DEF Now, Running
<1>2. \A p \in Owners \ {o} : Now(p)' = Now(p)
  BY NowLater
<1> QED
  BY <1>1, <1>2

LEMMA Ends ==
  ASSUME NEW o \in Owners, Running(o), at'[o] \in {"ended", "done"},
         \A j \in Children(o) : Over(j), \A p \in Owners \ {o} : at'[p] = at[p]
  PROVE  Promise!FJNext
<1>1. Now(o) = "running" /\ Now(o)' = "ended"
  BY DEF Now, Running
<1>2. \A j \in Children(o) : Now(j) \in {"new", "ended"}
  BY DEF Over, Now
<1>3. \A p \in Owners \ {o} : Now(p)' = Now(p)
  BY NowLater
<1> QED
  BY <1>1, <1>2, <1>3, EndIsStep

LEMMA OwnerImage ==
  ASSUME Inv, NEW o \in Owners, OwnerStep(o)
  PROVE  Promise!FJNext \/ \A p \in Owners : Now(p)' = Now(p)
<1> USE ThreadsAssumption DEF Owners
<1>1. ASSUME NEW j \in Jobs, QueueSubmit(o, j)
      PROVE  Promise!FJNext
  <2>1. /\ at[o] = "run" /\ at[j] = "new" /\ Parent[j] = o /\ o # j
        /\ at' = [at EXCEPT ![o] = "submit", ![j] = "submitted"]
    BY <1>1 DEF QueueSubmit, Serving, Unsubmitted, Children
  <2>2. /\ at'[o] = "submit" /\ at'[j] = "submitted"
        /\ \A p \in Owners \ {o, j} : at'[p] = at[p]
    BY <2>1 DEF Inv, TypeOK
  <2>3. /\ Now(o) = "running" /\ Now(o)' = "running" /\ Now(j) = "new" /\ Now(j)' = "ready"
        /\ \A p \in Owners \ {o, j} : Now(p)' = Now(p)
    BY <2>1, <2>2, NowLater DEF Now
  <2> DEFINE S == {j}
  <2>4. /\ S \in SUBSET Jobs /\ \A k \in S : Parent[k] = o /\ Now(k) = "new"
        /\ \A p \in Owners : Now(p)' = IF p \in S THEN "ready" ELSE Now(p)
    BY <2>1, <2>3
  <2> HIDE DEF S
  <2> QED
    BY <2>3, <2>4, ForkIsStep
<1>2. CASE RunSynchronously(o) \/ \E j \in Jobs : RunBatchHere(o, j)
  <2>1. PICK j \in Jobs : /\ Parent[j] = o /\ Running(o) /\ at[j] \in {"new", "submitted"}
                          /\ at' = [at EXCEPT ![o] = "sync", ![j] = "run"]
    <3>1. CASE RunSynchronously(o)
      <4>1. cur[o] \in Children(o) /\ at[cur[o]] = "submitted"
        BY <3>1 DEF RunSynchronously, Inv, Stages, InHand
      <4> QED
        BY <3>1, <4>1 DEF RunSynchronously, RunHere, Children, Running
    <3>2. CASE \E j \in Jobs : RunBatchHere(o, j)
      BY <3>2 DEF RunBatchHere, RunHere, Unsubmitted, Children, Running
    <3> QED
      BY <1>2, <3>1, <3>2
  <2>2. o # j /\ at'[o] = "sync" /\ at'[j] = "run" /\ \A p \in Owners \ {o, j} : at'[p] = at[p]
    BY <2>1 DEF Inv, TypeOK, Running
  <2>3. /\ Now(o) = "running" /\ Now(o)' = "running" /\ Now(j) \in {"new", "ready"}
        /\ Now(j)' = "running"
        /\ \A p \in Owners \ {o, j} : Now(p)' = Now(p)
    BY <2>1, <2>2, NowLater DEF Now, Running
  <2>4. \A p \in Owners : Now(p)' = IF p = j THEN "running" ELSE Now(p)
    BY <2>3
  <2> QED
    BY <2>1, <2>3, <2>4, BeginIsStep
<1>3. CASE SubmitFails(o)
  <2>1. PICK j \in Jobs : j = cur[o] /\ Parent[j] = o /\ at[j] = "submitted"
    BY <1>3 DEF SubmitFails, ReadyToQueue, Inv, Stages, InHand, Children
  <2>2. Running(o) /\ o # j /\ at' = [at EXCEPT ![o] = "run", ![j] = "dropped"]
    BY <1>3, <2>1 DEF SubmitFails, ReadyToQueue, Running
  <2>3. at'[o] = "run" /\ at'[j] = "dropped" /\ \A p \in Owners \ {o, j} : at'[p] = at[p]
    BY <2>2 DEF Inv, TypeOK
  <2>4. /\ Now(o) = "running" /\ Now(o)' = "running" /\ Now(j) = "ready" /\ Now(j)' = "lost"
        /\ \A p \in Owners \ {o, j} : Now(p)' = Now(p)
    BY <2>1, <2>2, <2>3, NowLater DEF Now, Running
  <2>5. \A p \in Owners : Now(p)' = IF p = j THEN "lost" ELSE Now(p)
    BY <2>4
  <2> QED
    BY <2>4, <2>5, LoseIsStep
<1>4. CASE SubmitJobs(o)
  <2> DEFINE S == Children(o)
  <2>1. /\ o \in Clients \cap Batch /\ at[o] = "run" /\ o \notin S /\ S \in SUBSET Jobs
        /\ \A j \in S : at[j] = "new" /\ Parent[j] = o
    BY <1>4 DEF SubmitJobs, Serving, Children, Inv, Stages, BatchClients
  <2>2. /\ at'[o] = "wake" /\ \A j \in S : at'[j] = "submitted"
        /\ \A p \in Owners \ S : p # o => at'[p] = at[p]
    BY <1>4, <2>1 DEF SubmitJobs, Inv, TypeOK
  <2> HIDE DEF S
  <2>3. /\ Now(o) = "running" /\ Now(o)' = "running"
        /\ \A j \in S : Now(j) = "new" /\ Now(j)' = "ready"
        /\ \A p \in Owners \ S : p # o => Now(p)' = Now(p)
    BY <2>1, <2>2, NowLater DEF Now
  <2>4. \A p \in Owners : Now(p)' = IF p \in S THEN "ready" ELSE Now(p)
    BY <2>3
  <2> QED
    BY <2>1, <2>3, <2>4, ForkIsStep
<1>5. CASE QueueWait(o)
  <2>1. Running(o) /\ at' = [at EXCEPT ![o] = "done"] /\ o \notin Batch /\ QueueDone(o)
    BY <1>5 DEF QueueWait, Goto, Serving, Running
  <2>2. at'[o] = "done" /\ \A p \in Owners \ {o} : at'[p] = at[p]
    BY <2>1 DEF Inv, TypeOK
  <2> QED
    BY <2>1, <2>2, QueueIsDone, Ends
<1>6. CASE JobReturns(o)
  <2>1. Running(o) /\ at' = [at EXCEPT ![o] = "ended"] /\ o \in Jobs /\ QueueDone(o) /\ at[o] = "run"
    BY <1>6 DEF JobReturns, Goto, Submitted, Running
  <2>2. at'[o] = "ended" /\ \A p \in Owners \ {o} : at'[p] = at[p]
    BY <2>1 DEF Inv, TypeOK
  <2>3. \A k \in Children(o) : Over(k)
    BY <2>1, QueueIsDone DEF Inv, Stages, BatchJobs
  <2> QED
    BY <2>1, <2>2, <2>3, Ends
<1>7. CASE PoolWait(o)
  <2>1. o \in Clients \cap Batch /\ Running(o)
    BY <1>7 DEF PoolWait, Inv, Places, Running
  <2>2. CASE nPendingJobs > 0
    BY <1>7, <2>2, NowLater DEF PoolWait, WaitCompletion
  <2>3. CASE ~(nPendingJobs > 0)
    <3>1. at' = [at EXCEPT ![o] = "done"]
      BY <1>7, <2>3 DEF PoolWait, WaitCompletion, Goto
    <3>2. at'[o] = "done" /\ \A p \in Owners \ {o} : at'[p] = at[p]
      BY <3>1 DEF Inv, TypeOK
    <3>3. \A j \in Children(o) : Over(j)
      BY <2>1, <2>3, PoolDone DEF Inv, TypeOK
    <3> QED
      BY <2>1, <3>2, <3>3, Ends
  <2> QED
    BY <2>2, <2>3
<1>8. CASE \/ Reserve(o) \/ RunReturns(o) \/ TakeWorkerMutex(o) \/ NotifyWorker(o)
           \/ SubmitJobsFails(o) \/ WakeNext(o) \/ Relock(o) \/ WakeDone(o) \/ Enqueue(o)
  <2>1. Running(o)
    BY <1>8 DEF Reserve, RunReturns, TakeWorkerMutex, NotifyWorker, SubmitJobsFails, WakeNext,
                Relock, WakeDone, Enqueue, ReadyToQueue, Serving, Running
  <2>2. \E where \in {"run", "reserved", "notify", "relock", "poolwait", "wake", "handover"} :
          at' = [at EXCEPT ![o] = where]
    <3>1. CASE Reserve(o) \/ RunReturns(o) \/ TakeWorkerMutex(o) \/ NotifyWorker(o)
      BY <3>1 DEF Reserve, RunReturns, TakeWorkerMutex, NotifyWorker, Goto
    <3>2. CASE SubmitJobsFails(o) \/ Relock(o) \/ WakeDone(o)
      BY <3>2 DEF SubmitJobsFails, Relock, WakeDone, Goto
    <3>3. CASE WakeNext(o)
      BY <3>3 DEF WakeNext, Unlink, Goto
    <3>4. CASE Enqueue(o)
      BY <3>4 DEF Enqueue, Unlink, Goto
    <3> QED
      BY <1>8, <3>1, <3>2, <3>3, <3>4
  <2>3. Running(o)' /\ \A p \in Owners \ {o} : at'[p] = at[p]
    BY <2>2 DEF Inv, TypeOK, Running
  <2> QED
    BY <2>1, <2>3, RunsOn
<1> QED
  BY <1>1, <1>2, <1>3, <1>4, <1>5, <1>6, <1>7, <1>8 DEF OwnerStep

LEMMA WorkerImage ==
  ASSUME Inv, NEW w \in Workers, WorkerStep(w) \/ SpuriousWakeup(w)
  PROVE  Promise!FJNext \/ \A p \in Owners : Now(p)' = Now(p)
<1> USE ThreadsAssumption DEF Owners
<1>1. CASE GetJob(w)
  <2>1. psJobQueue \in Seq(Jobs) /\ psJobQueue # <<>>
    BY <1>1 DEF GetJob, Inv, TypeOK
  <2>2. PICK j \in Jobs : j = Head(psJobQueue) /\ at[j] = "submitted"
    BY <2>1, TailFacts DEF Inv, JobsAccounted
  <2>3. at' = [at EXCEPT ![j] = "run"]
    BY <1>1, <2>2 DEF GetJob, Goto
  <2>4. at'[j] = "run" /\ \A p \in Owners \ {j} : at'[p] = at[p]
    BY <2>3 DEF Inv, TypeOK
  <2>5. Parent[j] \in Owners /\ Now(Parent[j]) = "running"
    BY <2>2, NowFacts DEF Inv, Stages, Nested
  <2>6. Now(j) = "ready" /\ Now(j)' = "running" /\ \A p \in Owners \ {j} : Now(p)' = Now(p)
    BY <2>2, <2>4, NowLater DEF Now
  <2>7. \A p \in Owners : Now(p)' = IF p = j THEN "running" ELSE Now(p)
    BY <2>6
  <2> QED
    BY <2>5, <2>6, <2>7, BeginIsStep
<1>2. CASE ~GetJob(w)
  <2>1. at' = at
    BY <1>2 DEF WorkerStep, StopWorker, MarkAsWaiting, MarkFails, TakeOwnMutex, Sleep,
                DeclareJobFinished, SpuriousWakeup, owner
  <2> QED
    BY <2>1, NowLater
<1> QED
  BY <1>1, <1>2

LEMMA ImageStep == Inv /\ [Next]_vars => [Promise!FJNext]_Image
<1> SUFFICES ASSUME Inv, [Next]_vars PROVE [Promise!FJNext]_Image
  OBVIOUS
<1>1. Promise!FJNext \/ \A p \in Owners : Now(p)' = Now(p)
  <2>1. CASE UNCHANGED vars
    BY <2>1, NowLater DEF vars, owner
  <2>2. CASE Next
    BY <2>1, <2>2, MainImage, OwnerImage, WorkerImage DEF Next
  <2> QED
    BY <2>1, <2>2
<1> QED
  BY <1>1 DEF Image

(***************************************************************************)
(* The pool implements ForkJoin: no wait for a queue or for the pool, and  *)
(* no synchronous call, returns before every job below it has ended, with  *)
(* any faults (cpl_worker_thread_pool.cpp:394-398, 634-638, 692-696).      *)
(***************************************************************************)
THEOREM PoolIsForkJoin == Spec => ImplementsForkJoin
<1>1. Inv /\ [Next]_vars => [Promise!FJNext]_Image
  BY ImageStep
<1>2. Spec => Promise!FJInit /\ [][Promise!FJNext]_Image
  BY <1>1, ImageInit, PoolInvariant, PTL DEF Spec
<1> QED
  BY <1>2 DEF ImplementsForkJoin, Promise!FJSpec
-----------------------------------------------------------------------------
(***************************************************************************)
(* The waiting list and the wake-ups.                                      *)
(***************************************************************************)
InList(w) == \E k \in DOMAIN psWaiting : psWaiting[k] = w
Reserved == {o \in Jobs : at[o] = "reserved"}

(* The two halves of WaitingAccounted. *)
ListOK ==
  /\ \A k, l \in DOMAIN psWaiting : psWaiting[k] = psWaiting[l] => k = l
  /\ \A w \in Workers :
       /\ InList(w) => marked[w]
       /\ marked[w] => InList(w) \/ (wpc[w] = "exited" /\ "alloc" \in faults)
CountOK == "alloc" \notin faults => nWaiting = Len(psWaiting) - Cardinality(Reserved)

(* Who holds the mutex of the pool, and that of a worker: one thread each. *)
PoolMutex ==
  /\ \A o \in Owners : at[o] \in {"handover", "wake"} => m_mutex
  /\ \A w \in Workers : wpc[w] = "marked" => m_mutex
  /\ \A o, p \in Owners :
       at[o] \in {"handover", "wake"} /\ at[p] \in {"handover", "wake"} => o = p
  /\ \A o \in Owners, w \in Workers : ~(at[o] \in {"handover", "wake"} /\ wpc[w] = "marked")
  /\ \A v, w \in Workers : wpc[v] = "marked" /\ wpc[w] = "marked" => v = w
WorkerMutex ==
  /\ \A o \in Owners : at[o] \in {"handover", "notify"} => target[o] \in Workers
  /\ \A w \in Workers : wpc[w] = "drowsy" => wtMutex[w]
  /\ \A o \in Owners : at[o] = "notify" => wtMutex[target[o]] /\ wpc[target[o]] # "drowsy"
  /\ \A o, p \in Owners :
       at[o] = "notify" /\ at[p] = "notify" /\ target[o] = target[p] => o = p

(* Between its entry in the list and its wait a worker can be unlinked,    *)
(* but not notified: whoever unlinks it needs its mutex to notify it.      *)
Awaited ==
  \A w \in Workers :
    /\ wpc[w] = "marked" => marked[w]
    /\ wpc[w] = "drowsy" => \/ marked[w]
                            \/ \E o \in Owners : at[o] = "handover" /\ target[o] = w
    /\ wpc[w] = "asleep" => marked[w] \/ Coming(w)

(* Once the pool is stopped nobody goes to sleep but those who hold their  *)
(* own mutex on the way to it, and for these the destructor waits.         *)
Stopping ==
  /\ at[Main] \in {"join", "joining"} => /\ eState = "stop"
                                         /\ \A w \in Workers : wpc[w] # "marked"
  /\ at[Main] = "joining" => wpc[joined + 1] \notin {"drowsy", "asleep"}
  /\ \A w \in Workers : w <= joined => wpc[w] = "exited"

WakeInv == ListOK /\ CountOK /\ PoolMutex /\ WorkerMutex /\ Awaited /\ Stopping
-----------------------------------------------------------------------------
(* The steps that touch neither the list nor a mutex, and take nobody to   *)
(* or from a place the invariant is about.                                 *)
Calm ==
  /\ UNCHANGED <<faults, eState, psWaiting, nWaiting, marked, m_mutex, wtMutex, target, joined>>
  /\ \A o \in Owners \cup {Main} :
       at'[o] = at[o] \/ {at[o], at'[o]} \cap {"reserved", "handover", "notify", "wake",
                                             "join", "joining"} = {}
  /\ \A w \in Workers :
       wpc'[w] = wpc[w] \/ {wpc[w], wpc'[w]} \cap {"marked", "drowsy", "asleep", "exited"} = {}

LEMMA CalmStep ==
  ASSUME Inv, WakeInv, Calm
  PROVE  WakeInv'
<1>1. ListOK'
  BY DEF Calm, WakeInv, ListOK, InList
<1>2. CountOK'
  <2>1. Reserved' = Reserved
    BY DEF Calm, Reserved, Owners
  <2> QED
    BY <2>1 DEF Calm, WakeInv, CountOK
<1>3. PoolMutex'
  BY DEF Calm, WakeInv, PoolMutex
<1>4. WorkerMutex'
  <2>1. \A o \in Owners : at[o] \in {"handover", "notify"} => target[o] \in Workers
    BY DEF WakeInv, WorkerMutex
  <2> QED
    BY <2>1 DEF Calm, WakeInv, WorkerMutex
<1>5. Awaited'
  BY DEF Calm, WakeInv, Awaited, Coming
<1>6. Stopping'
  <2>1. at[Main] = "joining" => joined + 1 \in Workers
    BY ThreadsAssumption DEF Inv, TypeOK, ThreadsStarted, Workers
  <2> QED
    BY <2>1 DEF Calm, WakeInv, Stopping
<1> QED
  BY <1>1, <1>2, <1>3, <1>4, <1>5, <1>6 DEF WakeInv

LEMMA WakeInvInit == Init => WakeInv
<1> SUFFICES ASSUME Init PROVE WakeInv
  OBVIOUS
<1> USE ThreadsAssumption
<1>1. Reserved = {}
  BY DEF Init, Reserved, Owners
<1>2. CountOK
  BY <1>1, FS_EmptySet DEF Init, CountOK
<1>3. ListOK /\ PoolMutex /\ WorkerMutex /\ Awaited /\ Stopping
  BY DEF Init, ListOK, InList, PoolMutex, WorkerMutex, Awaited, Stopping, Owners, Workers
<1> QED
  BY <1>2, <1>3 DEF WakeInv
-----------------------------------------------------------------------------
LEMMA CalmOwner ==
  ASSUME Inv, NEW o \in Owners,
         \/ \E j \in Jobs : QueueSubmit(o, j) \/ RunBatchHere(o, j)
         \/ RunSynchronously(o) \/ RunReturns(o) \/ SubmitJobsFails(o)
         \/ PoolWait(o) \/ QueueWait(o) \/ JobReturns(o)
  PROVE  Calm
<1> USE ThreadsAssumption DEF Owners
<1>0. /\ at[o] = "submit" => cur[o] \in Jobs /\ at[cur[o]] = "submitted"
      /\ \A c \in Owners : Children(c) \subseteq Jobs
  BY DEF Inv, Stages, InHand, Children
<1>1. CASE \E j \in Jobs : QueueSubmit(o, j)
  BY <1>0, <1>1 DEF Inv, TypeOK, Calm, QueueSubmit, Unsubmitted, Serving, jobs, waiting, threads, locks, owner, worker
<1>2. CASE \E j \in Jobs : RunBatchHere(o, j)
  BY <1>0, <1>2 DEF Inv, TypeOK, Calm, RunBatchHere, RunHere, Unsubmitted, jobs, waiting, threads, locks, owner, worker
<1>3. CASE RunSynchronously(o)
  BY <1>0, <1>3 DEF Inv, TypeOK, Calm, RunSynchronously, RunHere, jobs, waiting, threads, locks, owner, worker
<1>4. CASE RunReturns(o)
  BY <1>0, <1>4 DEF Inv, TypeOK, Calm, RunReturns, Goto, jobs, waiting, threads, locks, owner, worker
<1>5. CASE SubmitJobsFails(o)
  BY <1>0, <1>5 DEF Inv, TypeOK, Calm, SubmitJobsFails, Serving, Goto, jobs, waiting, threads, locks, owner, worker
<1>6. CASE PoolWait(o)
  BY <1>0, <1>6 DEF Inv, TypeOK, Calm, PoolWait, WaitCompletion, Goto, jobs, waiting, threads, locks, owner, worker
<1>7. CASE QueueWait(o)
  BY <1>0, <1>7 DEF Inv, TypeOK, Calm, QueueWait, Serving, Submitted, Goto, jobs, waiting, threads, locks, owner, worker
<1>8. CASE JobReturns(o)
  BY <1>0, <1>8 DEF Inv, TypeOK, Calm, JobReturns, Submitted, Goto, jobs, waiting, threads, locks, owner, worker
<1> QED
  BY <1>1, <1>2, <1>3, <1>4, <1>5, <1>6, <1>7, <1>8

LEMMA CalmOthers ==
  ASSUME Inv,
         \/ SetupStep \/ DestroyWait \/ \E n \in Workers : Resize(n)
         \/ \E w \in Workers : GetJob(w) \/ DeclareJobFinished(w)
         \/ UNCHANGED vars
  PROVE  Calm
<1> USE ThreadsAssumption DEF Owners
<1>1. CASE SetupLazily
  BY <1>1 DEF Inv, TypeOK, Calm, SetupLazily, Goto, jobs, waiting, threads, locks, owner, worker
<1>2. CASE SetupThread
  BY <1>2 DEF Inv, TypeOK, Calm, SetupThread, Spawn, ThreadsStarted, jobs, waiting, threads, locks, owner, worker
<1>3. CASE SetupFails
  BY <1>3 DEF Inv, TypeOK, Calm, SetupFails, Abandon, Places, jobs, waiting, threads, locks, owner, worker
<1>4. CASE SetupWait
  BY <1>4 DEF Inv, TypeOK, Calm, SetupWait, Abandon, Goto, Places, jobs, waiting, threads, locks, owner, worker
<1>5. CASE DestroyWait
  BY <1>5 DEF Inv, TypeOK, Calm, DestroyWait, WaitCompletion, Goto, jobs, waiting, threads, locks, owner, worker
<1>6. CASE \E n \in Workers : Resize(n)
  BY <1>6 DEF Inv, TypeOK, Calm, Resize, jobs, waiting, threads, locks, owner, worker
<1>7. CASE \E w \in Workers : GetJob(w)
  BY <1>7, TailFacts DEF Inv, TypeOK, Calm, GetJob, Goto, JobsAccounted, jobs, waiting, threads, locks, owner, worker
<1>8. CASE \E w \in Workers : DeclareJobFinished(w)
  BY <1>8 DEF Inv, TypeOK, Calm, DeclareJobFinished, jobs, waiting, threads, locks, owner, worker
<1>9. CASE UNCHANGED vars
  BY <1>9 DEF Inv, TypeOK, Calm, vars, jobs, waiting, threads, locks, owner, worker
<1> QED
  BY <1>1, <1>2, <1>3, <1>4, <1>5, <1>6, <1>7, <1>8, <1>9 DEF SetupStep

LEMMA ReserveWakes ==
  ASSUME Inv, WakeInv, NEW o \in Owners, Reserve(o)
  PROVE  WakeInv'
<1> USE ThreadsAssumption DEF Owners
<1>0. joined \in Nat /\ Len(psWaiting) \in Nat
  BY DEF Inv, TypeOK
<1>1. ListOK'
  BY DEF Inv, TypeOK, WakeInv, ListOK, InList, Reserve, Goto, jobs, waiting, threads, locks, owner, worker
<1>2. CountOK'
  <2>1. Reserved' = Reserved \cup {o} /\ o \notin Reserved
    BY DEF Inv, TypeOK, Reserved, Reserve, Goto, jobs, waiting, threads, locks, owner, worker
  <2>2. IsFiniteSet(Reserved) /\ Cardinality(Reserved) \in Nat
    BY FS_Subset, FS_CardinalityType DEF Reserved
  <2>3. Cardinality(Reserved') = Cardinality(Reserved) + 1
    BY <2>1, <2>2, FS_AddElement
  <2> QED
    BY <1>0, <2>2, <2>3 DEF Inv, TypeOK, WakeInv, CountOK, Reserve, Goto, jobs, waiting, threads, locks, owner, worker
<1>3. PoolMutex'
  BY <1>0 DEF Inv, TypeOK, Places, WakeInv, PoolMutex, Reserve, Goto, jobs, waiting, threads, locks, owner, worker
<1>4. WorkerMutex'
  BY <1>0 DEF Inv, TypeOK, Places, WakeInv, WorkerMutex, PoolMutex, Reserve, Goto, jobs, waiting, threads, locks, owner, worker
<1>5. Awaited'
  BY <1>0 DEF Inv, TypeOK, Places, WakeInv, Awaited, Coming, PoolMutex, WorkerMutex, Reserve, Goto, jobs, waiting, threads, locks, owner, worker
<1>6. Stopping'
  BY <1>0 DEF Inv, TypeOK, Places, WakeInv, Stopping, WorkerMutex, PoolMutex, ThreadsStarted, Reserve, Goto, jobs, waiting, threads, locks, owner, worker
<1> QED
  BY <1>1, <1>2, <1>3, <1>4, <1>5, <1>6 DEF WakeInv

LEMMA SubmitFailsWakes ==
  ASSUME Inv, WakeInv, NEW o \in Owners, SubmitFails(o)
  PROVE  WakeInv'
<1> USE ThreadsAssumption DEF Owners
<1>0. joined \in Nat /\ Len(psWaiting) \in Nat
  BY DEF Inv, TypeOK
<1>1. ListOK'
  BY DEF Inv, TypeOK, WakeInv, ListOK, InList, SubmitFails, ReadyToQueue, Reservation, jobs, waiting, threads, locks, owner, worker
<1>2. CountOK'
  <2>2. IsFiniteSet(Reserved) /\ Cardinality(Reserved) \in Nat
    BY FS_Subset, FS_CardinalityType DEF Reserved
  <2>3. Cardinality(Reserved') = Cardinality(Reserved) - Reservation(o)
    <3>1. Reserved' = Reserved \ {o} /\ (at[o] = "reserved" <=> o \in Reserved)
      BY DEF Inv, TypeOK, Places, Stages, InHand, Children, Reserved, SubmitFails, ReadyToQueue, Reservation, jobs, waiting, threads, locks, owner, worker
    <3> QED
      <4>1. Cardinality(Reserved \ {o}) = IF o \in Reserved THEN Cardinality(Reserved) - 1
                                          ELSE Cardinality(Reserved)
        BY <2>2, FS_RemoveElement
      <4> QED
        BY <2>2, <3>1, <4>1 DEF Reservation
  <2> QED
    BY <1>0, <2>2, <2>3 DEF Inv, TypeOK, WakeInv, CountOK, SubmitFails, ReadyToQueue, Reservation, jobs, waiting, threads, locks, owner, worker
<1>3. PoolMutex'
  BY <1>0 DEF Inv, TypeOK, Places, WakeInv, PoolMutex, SubmitFails, ReadyToQueue, Reservation, jobs, waiting, threads, locks, owner, worker
<1>4. WorkerMutex'
  BY <1>0 DEF Inv, TypeOK, Places, WakeInv, WorkerMutex, PoolMutex, SubmitFails, ReadyToQueue, Reservation, jobs, waiting, threads, locks, owner, worker
<1>5. Awaited'
  <2>1. /\ marked' = marked /\ target' = target
        /\ \A p \in Owners : at[p] = "handover" => at'[p] \in {"handover", "notify"}
        /\ \A p \in Owners : at[p] = "notify" => at'[p] = "notify"
        /\ \A w \in Workers : wpc'[w] = wpc[w]
    BY DEF Inv, TypeOK, Stages, InHand, SubmitFails, ReadyToQueue, Children, jobs, waiting, threads, locks, owner, worker
  <2>2. \A w \in Workers : Coming(w) => Coming(w)'
    BY <2>1 DEF Coming
  <2>3. \A w \in Workers : wpc[w] = "drowsy" /\
          (\E p \in Owners : at[p] = "handover" /\ target[p] = w) =>
          (\E p \in Owners : at'[p] = "handover" /\ target'[p] = w)
    BY <2>1 DEF Inv, TypeOK, Stages, InHand, SubmitFails, ReadyToQueue, Children, jobs, waiting, threads, locks, owner, worker
  <2> QED
    BY <2>1, <2>2, <2>3 DEF WakeInv, Awaited
<1>6. Stopping'
  BY <1>0 DEF Inv, TypeOK, Places, WakeInv, Stopping, WorkerMutex, PoolMutex, ThreadsStarted, SubmitFails, ReadyToQueue, Reservation, jobs, waiting, threads, locks, owner, worker
<1> QED
  BY <1>1, <1>2, <1>3, <1>4, <1>5, <1>6 DEF WakeInv

LEMMA TakeWorkerMutexWakes ==
  ASSUME Inv, WakeInv, NEW o \in Owners, TakeWorkerMutex(o)
  PROVE  WakeInv'
<1> USE ThreadsAssumption DEF Owners
<1>0. joined \in Nat /\ Len(psWaiting) \in Nat
  BY DEF Inv, TypeOK
<1>1. ListOK'
  BY DEF Inv, TypeOK, WakeInv, ListOK, InList, TakeWorkerMutex, Goto, jobs, waiting, threads, locks, owner, worker
<1>2. CountOK'
  <2>1. Reserved' = Reserved
    BY DEF Inv, TypeOK, Places, Reserved, TakeWorkerMutex, Goto, jobs, waiting, threads, locks, owner, worker
  <2> QED
    BY <2>1 DEF WakeInv, CountOK, TakeWorkerMutex, Goto, jobs, waiting, threads, locks, owner, worker
<1>3. PoolMutex'
  BY <1>0 DEF Inv, TypeOK, Places, WakeInv, PoolMutex, TakeWorkerMutex, Goto, jobs, waiting, threads, locks, owner, worker
<1>4. WorkerMutex'
  BY <1>0 DEF Inv, TypeOK, Places, WakeInv, WorkerMutex, PoolMutex, TakeWorkerMutex, Goto, jobs, waiting, threads, locks, owner, worker
<1>5. Awaited'
  <2>1. /\ marked' = marked /\ target' = target
        /\ \A p \in Owners : at[p] = "handover" => at'[p] \in {"handover", "notify"}
        /\ \A p \in Owners : at[p] = "notify" => at'[p] = "notify"
        /\ \A w \in Workers : wpc'[w] = wpc[w]
    BY DEF Inv, TypeOK, Stages, InHand, TakeWorkerMutex, Goto, jobs, waiting, threads, locks, owner, worker
  <2>2. \A w \in Workers : Coming(w) => Coming(w)'
    BY <2>1 DEF Coming
  <2>3. \A w \in Workers : wpc[w] = "drowsy" /\
          (\E p \in Owners : at[p] = "handover" /\ target[p] = w) =>
          (\E p \in Owners : at'[p] = "handover" /\ target'[p] = w)
    BY <2>1 DEF Inv, TypeOK, WakeInv, WorkerMutex, TakeWorkerMutex, Goto, locks, owner, worker
  <2> QED
    BY <2>1, <2>2, <2>3 DEF WakeInv, Awaited
<1>6. Stopping'
  BY <1>0 DEF Inv, TypeOK, Places, WakeInv, Stopping, WorkerMutex, PoolMutex, ThreadsStarted, TakeWorkerMutex, Goto, jobs, waiting, threads, locks, owner, worker
<1> QED
  BY <1>1, <1>2, <1>3, <1>4, <1>5, <1>6 DEF WakeInv

LEMMA NotifyWorkerWakes ==
  ASSUME Inv, WakeInv, NEW o \in Owners, NotifyWorker(o)
  PROVE  WakeInv'
<1> USE ThreadsAssumption DEF Owners
<1>0. joined \in Nat /\ Len(psWaiting) \in Nat
  BY DEF Inv, TypeOK
<1>1. ListOK'
  BY DEF Inv, TypeOK, WakeInv, ListOK, InList, NotifyWorker, Goto, Wake, jobs, waiting, threads, locks, owner, worker
<1>2. CountOK'
  <2>1. Reserved' = Reserved
    BY DEF Inv, TypeOK, Places, Reserved, NotifyWorker, Goto, Wake, jobs, waiting, threads, locks, owner, worker
  <2> QED
    BY <2>1 DEF WakeInv, CountOK, NotifyWorker, Goto, Wake, jobs, waiting, threads, locks, owner, worker
<1>3. PoolMutex'
  BY <1>0 DEF Inv, TypeOK, Places, WakeInv, PoolMutex, NotifyWorker, Goto, Wake, jobs, waiting, threads, locks, owner, worker
<1>4. WorkerMutex'
  BY <1>0 DEF Inv, TypeOK, Places, WakeInv, WorkerMutex, PoolMutex, NotifyWorker, Goto, Wake, jobs, waiting, threads, locks, owner, worker
<1>5. Awaited'
  BY <1>0 DEF Inv, TypeOK, Places, WakeInv, Awaited, Coming, PoolMutex, WorkerMutex, NotifyWorker, Goto, Wake, jobs, waiting, threads, locks, owner, worker
<1>6. Stopping'
  BY <1>0 DEF Inv, TypeOK, Places, WakeInv, Stopping, WorkerMutex, PoolMutex, ThreadsStarted, NotifyWorker, Goto, Wake, jobs, waiting, threads, locks, owner, worker
<1> QED
  BY <1>1, <1>2, <1>3, <1>4, <1>5, <1>6 DEF WakeInv

LEMMA SubmitJobsWakes ==
  ASSUME Inv, WakeInv, NEW o \in Owners, SubmitJobs(o)
  PROVE  WakeInv'
<1> USE ThreadsAssumption DEF Owners
<1>a. /\ at[o] = "run" /\ at'[o] = "wake" /\ ~m_mutex /\ m_mutex'
      /\ UNCHANGED <<faults, psWaiting, nWaiting, marked, eState, wtMutex, target, joined>>
  BY DEF Inv, TypeOK, Places, Children, Serving, SubmitJobs, waiting
<1>b. \A p \in Owners \cup {Main} :
        \/ at'[p] = at[p]
        \/ at[p] = "new" /\ at'[p] = "submitted"
        \/ p = o
  <2>1. o \in Clients \cap Batch
    BY DEF SubmitJobs
  <2>2. \A j \in Children(o) : at[j] = "new"
    BY <1>a, <2>1 DEF Inv, Stages, BatchClients
  <2>3. at' = [p \in DOMAIN at |-> IF p \in Children(o) THEN "submitted"
                                    ELSE IF p = o THEN "wake" ELSE at[p]]
    BY DEF SubmitJobs
  <2>4. DOMAIN at = Owners \cup {Main}
    BY DEF Inv, TypeOK
  <2>5. \A p \in Owners \cup {Main} :
          at'[p] = IF p \in Children(o) THEN "submitted" ELSE IF p = o THEN "wake" ELSE at[p]
    BY <2>3, <2>4
  <2> QED
    BY <2>2, <2>5
<1>c. \A w \in Workers : wpc'[w] = wpc[w] \/ (wpc[w] = "none" /\ wpc'[w] = "get")
  <2>1. PICK k \in Started(Cardinality(Children(o))) : Spawn(k)
    BY DEF SubmitJobs
  <2> QED
    BY <2>1 DEF Inv, TypeOK, ThreadsStarted, Spawn, Workers
<1>1. ListOK'
  BY <1>a, <1>c DEF WakeInv, ListOK, InList
<1>2. CountOK'
  <2>1. Reserved' = Reserved
    BY <1>a, <1>b DEF Reserved
  <2> QED
    BY <1>a, <2>1 DEF WakeInv, CountOK
<1>3. PoolMutex'
  BY <1>a, <1>b, <1>c DEF WakeInv, PoolMutex
<1>4. WorkerMutex'
  <2>1. \A p \in Owners : at[p] \in {"handover", "notify"} => target[p] \in Workers
    BY DEF WakeInv, WorkerMutex
  <2> QED
    BY <1>a, <1>b, <1>c, <2>1 DEF WakeInv, WorkerMutex
<1>5. Awaited'
  BY <1>a, <1>b, <1>c DEF WakeInv, Awaited, Coming
<1>6. Stopping'
  <2>1. at[Main] = "joining" => joined + 1 \in Workers
    BY DEF Inv, TypeOK, ThreadsStarted, Workers
  <2> QED
    BY <1>a, <1>b, <1>c, <2>1 DEF WakeInv, Stopping, Inv, Places
<1> QED
  BY <1>1, <1>2, <1>3, <1>4, <1>5, <1>6 DEF WakeInv

LEMMA RelockWakes ==
  ASSUME Inv, WakeInv, NEW o \in Owners, Relock(o)
  PROVE  WakeInv'
<1> USE ThreadsAssumption DEF Owners
<1>0. joined \in Nat /\ Len(psWaiting) \in Nat
  BY DEF Inv, TypeOK
<1>1. ListOK'
  BY DEF Inv, TypeOK, WakeInv, ListOK, InList, Relock, Goto, jobs, waiting, threads, locks, owner, worker
<1>2. CountOK'
  <2>1. Reserved' = Reserved
    BY DEF Inv, TypeOK, Places, Reserved, Relock, Goto, jobs, waiting, threads, locks, owner, worker
  <2> QED
    BY <2>1 DEF WakeInv, CountOK, Relock, Goto, jobs, waiting, threads, locks, owner, worker
<1>3. PoolMutex'
  BY <1>0 DEF Inv, TypeOK, Places, WakeInv, PoolMutex, Relock, Goto, jobs, waiting, threads, locks, owner, worker
<1>4. WorkerMutex'
  BY <1>0 DEF Inv, TypeOK, Places, WakeInv, WorkerMutex, PoolMutex, Relock, Goto, jobs, waiting, threads, locks, owner, worker
<1>5. Awaited'
  BY <1>0 DEF Inv, TypeOK, Places, WakeInv, Awaited, Coming, PoolMutex, WorkerMutex, Relock, Goto, jobs, waiting, threads, locks, owner, worker
<1>6. Stopping'
  BY <1>0 DEF Inv, TypeOK, Places, WakeInv, Stopping, WorkerMutex, PoolMutex, ThreadsStarted, Relock, Goto, jobs, waiting, threads, locks, owner, worker
<1> QED
  BY <1>1, <1>2, <1>3, <1>4, <1>5, <1>6 DEF WakeInv

LEMMA WakeDoneWakes ==
  ASSUME Inv, WakeInv, NEW o \in Owners, WakeDone(o)
  PROVE  WakeInv'
<1> USE ThreadsAssumption DEF Owners
<1>0. joined \in Nat /\ Len(psWaiting) \in Nat
  BY DEF Inv, TypeOK
<1>1. ListOK'
  BY DEF Inv, TypeOK, WakeInv, ListOK, InList, WakeDone, Goto, jobs, waiting, threads, locks, owner, worker
<1>2. CountOK'
  <2>1. Reserved' = Reserved
    BY DEF Inv, TypeOK, Places, Reserved, WakeDone, Goto, jobs, waiting, threads, locks, owner, worker
  <2> QED
    BY <2>1 DEF WakeInv, CountOK, WakeDone, Goto, jobs, waiting, threads, locks, owner, worker
<1>3. PoolMutex'
  BY <1>0 DEF Inv, TypeOK, Places, WakeInv, PoolMutex, WakeDone, Goto, jobs, waiting, threads, locks, owner, worker
<1>4. WorkerMutex'
  BY <1>0 DEF Inv, TypeOK, Places, WakeInv, WorkerMutex, PoolMutex, WakeDone, Goto, jobs, waiting, threads, locks, owner, worker
<1>5. Awaited'
  BY <1>0 DEF Inv, TypeOK, Places, WakeInv, Awaited, Coming, PoolMutex, WorkerMutex, WakeDone, Goto, jobs, waiting, threads, locks, owner, worker
<1>6. Stopping'
  BY <1>0 DEF Inv, TypeOK, Places, WakeInv, Stopping, WorkerMutex, PoolMutex, ThreadsStarted, WakeDone, Goto, jobs, waiting, threads, locks, owner, worker
<1> QED
  BY <1>1, <1>2, <1>3, <1>4, <1>5, <1>6 DEF WakeInv

LEMMA StopWorkerWakes ==
  ASSUME Inv, WakeInv, NEW w \in Workers, StopWorker(w)
  PROVE  WakeInv'
<1> USE ThreadsAssumption DEF Owners
<1>0. joined \in Nat /\ Len(psWaiting) \in Nat
  BY DEF Inv, TypeOK
<1>1. ListOK'
  BY DEF Inv, TypeOK, WakeInv, ListOK, InList, StopWorker, jobs, waiting, threads, locks, owner, worker
<1>2. CountOK'
  <2>1. Reserved' = Reserved
    BY DEF Inv, TypeOK, Places, Reserved, StopWorker, jobs, waiting, threads, locks, owner, worker
  <2> QED
    BY <2>1 DEF WakeInv, CountOK, StopWorker, jobs, waiting, threads, locks, owner, worker
<1>3. PoolMutex'
  BY <1>0 DEF Inv, TypeOK, Places, WakeInv, PoolMutex, StopWorker, jobs, waiting, threads, locks, owner, worker
<1>4. WorkerMutex'
  BY <1>0 DEF Inv, TypeOK, Places, WakeInv, WorkerMutex, PoolMutex, StopWorker, jobs, waiting, threads, locks, owner, worker
<1>5. Awaited'
  BY <1>0 DEF Inv, TypeOK, Places, WakeInv, Awaited, Coming, PoolMutex, WorkerMutex, StopWorker, jobs, waiting, threads, locks, owner, worker
<1>6. Stopping'
  BY <1>0 DEF Inv, TypeOK, Places, WakeInv, Stopping, WorkerMutex, PoolMutex, ThreadsStarted, StopWorker, jobs, waiting, threads, locks, owner, worker
<1> QED
  BY <1>1, <1>2, <1>3, <1>4, <1>5, <1>6 DEF WakeInv

LEMMA MarkFailsWakes ==
  ASSUME Inv, WakeInv, NEW w \in Workers, MarkFails(w)
  PROVE  WakeInv'
<1> USE ThreadsAssumption DEF Owners
<1>0. joined \in Nat /\ Len(psWaiting) \in Nat
  BY DEF Inv, TypeOK
<1>1. ListOK'
  BY DEF Inv, TypeOK, WakeInv, ListOK, InList, MarkFails, NothingToDo, jobs, waiting, threads, locks, owner, worker
<1>2. CountOK'
  BY DEF WakeInv, CountOK, MarkFails, NothingToDo, jobs, waiting, threads, locks, owner, worker
<1>3. PoolMutex'
  BY <1>0 DEF Inv, TypeOK, Places, WakeInv, PoolMutex, MarkFails, NothingToDo, jobs, waiting, threads, locks, owner, worker
<1>4. WorkerMutex'
  BY <1>0 DEF Inv, TypeOK, Places, WakeInv, WorkerMutex, PoolMutex, MarkFails, NothingToDo, jobs, waiting, threads, locks, owner, worker
<1>5. Awaited'
  BY <1>0 DEF Inv, TypeOK, Places, WakeInv, Awaited, Coming, PoolMutex, WorkerMutex, MarkFails, NothingToDo, jobs, waiting, threads, locks, owner, worker
<1>6. Stopping'
  BY <1>0 DEF Inv, TypeOK, Places, WakeInv, Stopping, WorkerMutex, PoolMutex, ThreadsStarted, MarkFails, NothingToDo, jobs, waiting, threads, locks, owner, worker
<1> QED
  BY <1>1, <1>2, <1>3, <1>4, <1>5, <1>6 DEF WakeInv

LEMMA TakeOwnMutexWakes ==
  ASSUME Inv, WakeInv, NEW w \in Workers, TakeOwnMutex(w)
  PROVE  WakeInv'
<1> USE ThreadsAssumption DEF Owners
<1>0. joined \in Nat /\ Len(psWaiting) \in Nat
  BY DEF Inv, TypeOK
<1>1. ListOK'
  BY DEF Inv, TypeOK, WakeInv, ListOK, InList, TakeOwnMutex, jobs, waiting, threads, locks, owner, worker
<1>2. CountOK'
  <2>1. Reserved' = Reserved
    BY DEF Inv, TypeOK, Places, Reserved, TakeOwnMutex, jobs, waiting, threads, locks, owner, worker
  <2> QED
    BY <2>1 DEF WakeInv, CountOK, TakeOwnMutex, jobs, waiting, threads, locks, owner, worker
<1>3. PoolMutex'
  BY <1>0 DEF Inv, TypeOK, Places, WakeInv, PoolMutex, TakeOwnMutex, jobs, waiting, threads, locks, owner, worker
<1>4. WorkerMutex'
  BY <1>0 DEF Inv, TypeOK, Places, WakeInv, WorkerMutex, PoolMutex, TakeOwnMutex, jobs, waiting, threads, locks, owner, worker
<1>5. Awaited'
  BY <1>0 DEF Inv, TypeOK, Places, WakeInv, Awaited, Coming, PoolMutex, WorkerMutex, TakeOwnMutex, jobs, waiting, threads, locks, owner, worker
<1>6. Stopping'
  BY <1>0 DEF Inv, TypeOK, Places, WakeInv, Stopping, WorkerMutex, PoolMutex, ThreadsStarted, TakeOwnMutex, jobs, waiting, threads, locks, owner, worker
<1> QED
  BY <1>1, <1>2, <1>3, <1>4, <1>5, <1>6 DEF WakeInv

LEMMA SleepWakes ==
  ASSUME Inv, WakeInv, NEW w \in Workers, Sleep(w)
  PROVE  WakeInv'
<1> USE ThreadsAssumption DEF Owners
<1>0. joined \in Nat /\ Len(psWaiting) \in Nat
  BY DEF Inv, TypeOK
<1>1. ListOK'
  BY DEF Inv, TypeOK, WakeInv, ListOK, InList, Sleep, jobs, waiting, threads, locks, owner, worker
<1>2. CountOK'
  <2>1. Reserved' = Reserved
    BY DEF Inv, TypeOK, Places, Reserved, Sleep, jobs, waiting, threads, locks, owner, worker
  <2> QED
    BY <2>1 DEF WakeInv, CountOK, Sleep, jobs, waiting, threads, locks, owner, worker
<1>3. PoolMutex'
  BY <1>0 DEF Inv, TypeOK, Places, WakeInv, PoolMutex, Sleep, jobs, waiting, threads, locks, owner, worker
<1>4. WorkerMutex'
  BY <1>0 DEF Inv, TypeOK, Places, WakeInv, WorkerMutex, PoolMutex, Sleep, jobs, waiting, threads, locks, owner, worker
<1>5. Awaited'
  <2>1. /\ marked' = marked /\ target' = target /\ at' = at
        /\ \A v \in Workers : wpc'[v] = wpc[v] \/ (v = w /\ wpc[v] = "drowsy" /\ wpc'[v] = "asleep")
    BY DEF Inv, TypeOK, Sleep, jobs, waiting, threads, locks, owner, worker
  <2>2. \A v \in Workers : Coming(v)' <=> Coming(v)
    BY <2>1 DEF Coming
  <2>3. \A v \in Workers : (\E p \in Owners : at[p] = "handover" /\ target[p] = v) => Coming(v)
    BY DEF Coming
  <2> QED
    BY <2>1, <2>2, <2>3 DEF WakeInv, Awaited
<1>6. Stopping'
  BY <1>0 DEF Inv, TypeOK, Places, WakeInv, Stopping, WorkerMutex, PoolMutex, ThreadsStarted, Sleep, jobs, waiting, threads, locks, owner, worker
<1> QED
  BY <1>1, <1>2, <1>3, <1>4, <1>5, <1>6 DEF WakeInv

LEMMA SpuriousWakeupWakes ==
  ASSUME Inv, WakeInv, NEW w \in Workers, SpuriousWakeup(w)
  PROVE  WakeInv'
<1> USE ThreadsAssumption DEF Owners
<1>0. joined \in Nat /\ Len(psWaiting) \in Nat
  BY DEF Inv, TypeOK
<1>1. ListOK'
  BY DEF Inv, TypeOK, WakeInv, ListOK, InList, SpuriousWakeup, Wake, jobs, waiting, threads, locks, owner, worker
<1>2. CountOK'
  <2>1. Reserved' = Reserved
    BY DEF Inv, TypeOK, Places, Reserved, SpuriousWakeup, Wake, jobs, waiting, threads, locks, owner, worker
  <2> QED
    BY <2>1 DEF WakeInv, CountOK, SpuriousWakeup, Wake, jobs, waiting, threads, locks, owner, worker
<1>3. PoolMutex'
  BY <1>0 DEF Inv, TypeOK, Places, WakeInv, PoolMutex, SpuriousWakeup, Wake, jobs, waiting, threads, locks, owner, worker
<1>4. WorkerMutex'
  BY <1>0 DEF Inv, TypeOK, Places, WakeInv, WorkerMutex, PoolMutex, SpuriousWakeup, Wake, jobs, waiting, threads, locks, owner, worker
<1>5. Awaited'
  BY <1>0 DEF Inv, TypeOK, Places, WakeInv, Awaited, Coming, PoolMutex, WorkerMutex, SpuriousWakeup, Wake, jobs, waiting, threads, locks, owner, worker
<1>6. Stopping'
  BY <1>0 DEF Inv, TypeOK, Places, WakeInv, Stopping, WorkerMutex, PoolMutex, ThreadsStarted, SpuriousWakeup, Wake, jobs, waiting, threads, locks, owner, worker
<1> QED
  BY <1>1, <1>2, <1>3, <1>4, <1>5, <1>6 DEF WakeInv

LEMMA StopWakes ==
  ASSUME Inv, WakeInv, Stop
  PROVE  WakeInv'
<1> USE ThreadsAssumption DEF Owners
<1>0. joined \in Nat /\ (at[Main] \in {"join", "joining"} /\ joined < aWT => joined + 1 \in Workers)
  BY DEF Inv, TypeOK, Workers
<1>1. ListOK'
  BY DEF Inv, TypeOK, WakeInv, ListOK, InList, Stop, Goto, jobs, waiting, threads, locks, owner, worker
<1>2. CountOK'
  <2>1. Reserved' = Reserved
    BY DEF Inv, TypeOK, Places, Reserved, Stop, Goto, jobs, waiting, threads, locks, owner, worker
  <2> QED
    BY <2>1 DEF WakeInv, CountOK, Stop, Goto, jobs, waiting, threads, locks, owner, worker
<1>3. PoolMutex'
  BY <1>0 DEF Inv, TypeOK, Places, WakeInv, PoolMutex, Stop, Goto, jobs, waiting, threads, locks, owner, worker
<1>4. WorkerMutex'
  BY <1>0 DEF Inv, TypeOK, Places, WakeInv, WorkerMutex, PoolMutex, Stop, Goto, jobs, waiting, threads, locks, owner, worker
<1>5. Awaited'
  BY <1>0 DEF Inv, TypeOK, Places, WakeInv, Awaited, Coming, PoolMutex, WorkerMutex, Stop, Goto, jobs, waiting, threads, locks, owner, worker
<1>6. Stopping'
  BY <1>0 DEF Inv, TypeOK, Places, WakeInv, Stopping, WorkerMutex, PoolMutex, ThreadsStarted, Stop, Goto, jobs, waiting, threads, locks, owner, worker
<1> QED
  BY <1>1, <1>2, <1>3, <1>4, <1>5, <1>6 DEF WakeInv

LEMMA NotifyStopWakes ==
  ASSUME Inv, WakeInv, NotifyStop
  PROVE  WakeInv'
<1> USE ThreadsAssumption DEF Owners
<1>0. joined \in Nat /\ (at[Main] \in {"join", "joining"} /\ joined < aWT => joined + 1 \in Workers)
  BY DEF Inv, TypeOK, Workers
<1>1. ListOK'
  BY DEF Inv, TypeOK, WakeInv, ListOK, InList, NotifyStop, Goto, Wake, MutexFree, jobs, waiting, threads, locks, owner, worker
<1>2. CountOK'
  <2>1. Reserved' = Reserved
    BY DEF Inv, TypeOK, Places, Reserved, NotifyStop, Goto, Wake, MutexFree, jobs, waiting, threads, locks, owner, worker
  <2> QED
    BY <2>1 DEF WakeInv, CountOK, NotifyStop, Goto, Wake, MutexFree, jobs, waiting, threads, locks, owner, worker
<1>3. PoolMutex'
  BY <1>0 DEF Inv, TypeOK, Places, WakeInv, PoolMutex, NotifyStop, Goto, Wake, MutexFree, jobs, waiting, threads, locks, owner, worker
<1>4. WorkerMutex'
  BY <1>0 DEF Inv, TypeOK, Places, WakeInv, WorkerMutex, PoolMutex, NotifyStop, Goto, Wake, MutexFree, jobs, waiting, threads, locks, owner, worker
<1>5. Awaited'
  <2>1. /\ marked' = marked /\ target' = target /\ \A p \in Owners : at'[p] = at[p]
        /\ \A v \in Workers : wpc'[v] = wpc[v] \/ wpc'[v] = "get"
    BY DEF Inv, TypeOK, NotifyStop, Goto, Wake, jobs, waiting, threads, locks, owner, worker
  <2>2. \A v \in Workers : Coming(v)' <=> Coming(v)
    BY <2>1 DEF Coming
  <2> QED
    BY <2>1, <2>2 DEF WakeInv, Awaited
<1>6. Stopping'
  BY <1>0 DEF Inv, TypeOK, Places, WakeInv, Stopping, WorkerMutex, PoolMutex, ThreadsStarted, NotifyStop, Goto, Wake, MutexFree, jobs, waiting, threads, locks, owner, worker
<1> QED
  BY <1>1, <1>2, <1>3, <1>4, <1>5, <1>6 DEF WakeInv

LEMMA JoinWakes ==
  ASSUME Inv, WakeInv, Join
  PROVE  WakeInv'
<1> USE ThreadsAssumption DEF Owners
<1>0. joined \in Nat /\ (at[Main] \in {"join", "joining"} /\ joined < aWT => joined + 1 \in Workers)
  BY DEF Inv, TypeOK, Workers
<1>1. ListOK'
  BY DEF Inv, TypeOK, WakeInv, ListOK, InList, Join, Goto, jobs, waiting, threads, locks, owner, worker
<1>2. CountOK'
  <2>1. Reserved' = Reserved
    BY DEF Inv, TypeOK, Places, Reserved, Join, Goto, jobs, waiting, threads, locks, owner, worker
  <2> QED
    BY <2>1 DEF WakeInv, CountOK, Join, Goto, jobs, waiting, threads, locks, owner, worker
<1>3. PoolMutex'
  BY <1>0 DEF Inv, TypeOK, Places, WakeInv, PoolMutex, Join, Goto, jobs, waiting, threads, locks, owner, worker
<1>4. WorkerMutex'
  BY <1>0 DEF Inv, TypeOK, Places, WakeInv, WorkerMutex, PoolMutex, Join, Goto, jobs, waiting, threads, locks, owner, worker
<1>5. Awaited'
  BY <1>0 DEF Inv, TypeOK, Places, WakeInv, Awaited, Coming, PoolMutex, WorkerMutex, Join, Goto, jobs, waiting, threads, locks, owner, worker
<1>6. Stopping'
  <2>1. /\ wpc' = wpc /\ eState' = eState /\ joined' = joined + 1
        /\ at'[Main] = "join" /\ at[Main] = "joining" /\ wpc[joined + 1] = "exited"
    BY DEF Inv, TypeOK, Join, Goto, jobs, waiting, threads, locks, owner, worker
  <2>2. \A v \in Workers : v <= joined + 1 => v <= joined \/ v = joined + 1
    BY <1>0 DEF Workers
  <2> QED
    BY <2>1, <2>2 DEF WakeInv, Stopping
<1> QED
  BY <1>1, <1>2, <1>3, <1>4, <1>5, <1>6 DEF WakeInv

LEMMA WaitingTail ==
  ASSUME NEW q \in Seq(Workers), q # <<>>,
         \A k, l \in DOMAIN q : q[k] = q[l] => k = l
  PROVE  /\ Tail(q) \in Seq(Workers) /\ Len(Tail(q)) = Len(q) - 1 /\ Head(q) \in Workers
         /\ \A k, l \in DOMAIN Tail(q) : Tail(q)[k] = Tail(q)[l] => k = l
         /\ \A w : (\E k \in DOMAIN Tail(q) : Tail(q)[k] = w)
                    <=> w # Head(q) /\ \E k \in DOMAIN q : q[k] = w
         /\ \E k \in DOMAIN q : q[k] = Head(q)
<1>1. /\ Tail(q) \in Seq(Workers) /\ Len(Tail(q)) = Len(q) - 1
      /\ Head(q) = q[1] /\ 1 \in DOMAIN q /\ Head(q) \in Workers
      /\ \A k \in DOMAIN Tail(q) : k + 1 \in DOMAIN q /\ Tail(q)[k] = q[k + 1]
      /\ \A k \in DOMAIN q \ {1} : k - 1 \in DOMAIN Tail(q) /\ Tail(q)[k - 1] = q[k]
      /\ \A k \in DOMAIN Tail(q) : k \in Int /\ k >= 1
  OBVIOUS
<1> DEFINE t == Tail(q)
<1>2. \A k \in DOMAIN t : k + 1 # 1
  BY <1>1
<1>3. \A k, l \in DOMAIN t : k + 1 = l + 1 => k = l
  BY <1>1
<1> HIDE DEF t
<1>4. \A k, l \in DOMAIN t : t[k] = t[l] => k = l
  BY <1>1, <1>3 DEF t
<1>5. \A w : (\E k \in DOMAIN t : t[k] = w) <=> w # Head(q) /\ \E k \in DOMAIN q : q[k] = w
  <2> SUFFICES ASSUME NEW w
               PROVE  /\ \A k \in DOMAIN t : t[k] = w => w # Head(q) /\ \E l \in DOMAIN q : q[l] = w
                      /\ \A k \in DOMAIN q : q[k] = w /\ w # Head(q) => \E l \in DOMAIN t : t[l] = w
    OBVIOUS
  <2>1. ASSUME NEW k \in DOMAIN t, t[k] = w PROVE w # Head(q) /\ \E l \in DOMAIN q : q[l] = w
    <3>1. k + 1 \in DOMAIN q /\ q[k + 1] = w /\ k + 1 # 1 /\ q[1] = Head(q) /\ 1 \in DOMAIN q
      BY <1>1, <1>2, <2>1 DEF t
    <3> QED
      BY <3>1
  <2>2. ASSUME NEW k \in DOMAIN q, q[k] = w, w # Head(q) PROVE \E l \in DOMAIN t : t[l] = w
    <3>1. k - 1 \in DOMAIN t /\ t[k - 1] = w
      BY <1>1, <2>2 DEF t
    <3> QED
      BY <3>1
  <2> QED
    BY <2>1, <2>2
<1> QED
  BY <1>1, <1>4, <1>5 DEF t

LEMMA WaitingPush ==
  ASSUME NEW q \in Seq(Workers), NEW v \in Workers,
         \A k, l \in DOMAIN q : q[k] = q[l] => k = l,
         ~ \E k \in DOMAIN q : q[k] = v
  PROVE  /\ Len(<<v>> \o q) = Len(q) + 1
         /\ \A k, l \in DOMAIN (<<v>> \o q) : (<<v>> \o q)[k] = (<<v>> \o q)[l] => k = l
         /\ \A w : (\E k \in DOMAIN (<<v>> \o q) : (<<v>> \o q)[k] = w)
                    <=> w = v \/ \E k \in DOMAIN q : q[k] = w
<1> DEFINE r == <<v>> \o q
<1>1. /\ Len(r) = Len(q) + 1 /\ r[1] = v /\ 1 \in DOMAIN r
      /\ \A k \in DOMAIN r : k \in Int /\ (k = 1 \/ (k - 1 \in DOMAIN q /\ r[k] = q[k - 1]))
      /\ \A k \in DOMAIN q : k + 1 \in DOMAIN r /\ r[k + 1] = q[k]
  OBVIOUS
<1> HIDE DEF r
<1>2. \A k, l \in DOMAIN r : r[k] = r[l] => k = l
  BY <1>1
<1>3. \A w : (\E k \in DOMAIN r : r[k] = w) <=> w = v \/ \E k \in DOMAIN q : q[k] = w
  <2> SUFFICES ASSUME NEW w
               PROVE  /\ \A k \in DOMAIN r : r[k] = w => w = v \/ \E l \in DOMAIN q : q[l] = w
                      /\ w = v => \E k \in DOMAIN r : r[k] = w
                      /\ \A l \in DOMAIN q : q[l] = w => \E k \in DOMAIN r : r[k] = w
    OBVIOUS
  <2>1. ASSUME NEW k \in DOMAIN r, r[k] = w PROVE w = v \/ \E l \in DOMAIN q : q[l] = w
    BY <1>1, <2>1
  <2>2. ASSUME NEW l \in DOMAIN q, q[l] = w PROVE \E k \in DOMAIN r : r[k] = w
    <3>1. l + 1 \in DOMAIN r /\ r[l + 1] = w
      BY <1>1, <2>2
    <3> QED
      BY <3>1
  <2> QED
    BY <1>1, <2>1, <2>2
<1> QED
  BY <1>1, <1>2, <1>3 DEF r

LEMMA MarkAsWaitingWakes ==
  ASSUME Inv, WakeInv, NEW w \in Workers, MarkAsWaiting(w)
  PROVE  WakeInv'
<1> USE ThreadsAssumption DEF Owners
<1>0. /\ ~m_mutex /\ m_mutex' /\ eState # "stop" /\ wpc[w] = "get"
      /\ wpc' = [wpc EXCEPT ![w] = "marked"]
      /\ UNCHANGED <<faults, eState, wtMutex, target, at, joined>>
      /\ DOMAIN wpc = Workers /\ marked \in [Workers -> BOOLEAN]
  BY DEF Inv, TypeOK, MarkAsWaiting, NothingToDo, threads, owner
<1>m. marked' = [marked EXCEPT ![w] = TRUE]
  <2>1. CASE marked[w]
    BY <1>0, <2>1 DEF MarkAsWaiting, waiting
  <2>2. CASE ~marked[w]
    BY <2>2 DEF MarkAsWaiting
  <2> QED
    BY <2>1, <2>2
<1>1. ListOK' /\ CountOK'
  <2>1. CASE marked[w]
    <3>1. psWaiting' = psWaiting /\ nWaiting' = nWaiting /\ Reserved' = Reserved
      BY <1>0, <1>m, <2>1 DEF MarkAsWaiting, waiting, Reserved
    <3> QED
      BY <1>0, <1>m, <2>1, <3>1 DEF WakeInv, ListOK, CountOK, InList
  <2>2. CASE ~marked[w]
    <3>1. /\ psWaiting' = <<w>> \o psWaiting /\ nWaiting' = nWaiting + 1
          /\ Reserved' = Reserved /\ psWaiting \in Seq(Workers) /\ nWaiting \in Int
      BY <1>0, <1>m, <2>2 DEF Inv, TypeOK, MarkAsWaiting, Reserved
    <3>2. ~InList(w) /\ \A k, l \in DOMAIN psWaiting : psWaiting[k] = psWaiting[l] => k = l
      BY <2>2 DEF WakeInv, ListOK
    <3>3. /\ Len(psWaiting') = Len(psWaiting) + 1
          /\ \A k, l \in DOMAIN psWaiting' : psWaiting'[k] = psWaiting'[l] => k = l
          /\ \A v : InList(v)' <=> v = w \/ InList(v)
      <4> DEFINE r == <<w>> \o psWaiting
      <4>1. /\ Len(r) = Len(psWaiting) + 1
            /\ \A k, l \in DOMAIN r : r[k] = r[l] => k = l
            /\ \A v : (\E k \in DOMAIN r : r[k] = v) <=> v = w \/ InList(v)
        BY <3>1, <3>2, WaitingPush DEF InList
      <4>2. \A v : InList(v)' <=> \E k \in DOMAIN r : r[k] = v
        BY <3>1 DEF InList
      <4> HIDE DEF r
      <4>3. psWaiting' = r
        BY <3>1 DEF r
      <4> QED
        BY <4>1, <4>2, <4>3
    <3>4. ListOK'
      BY <1>0, <1>m, <3>3 DEF WakeInv, ListOK
    <3>5. Cardinality(Reserved) \in Nat /\ Len(psWaiting) \in Nat
      BY <3>1, FS_Subset, FS_CardinalityType DEF Reserved
    <3>6. CountOK'
      BY <1>0, <1>m, <3>1, <3>3, <3>5 DEF WakeInv, CountOK
    <3> QED
      BY <3>4, <3>6
  <2> QED
    BY <2>1, <2>2
<1>3. PoolMutex'
  BY <1>0, <1>m DEF WakeInv, PoolMutex
<1>4. WorkerMutex'
  BY <1>0, <1>m DEF WakeInv, WorkerMutex
<1>5. Awaited'
  BY <1>0, <1>m DEF WakeInv, Awaited, Coming
<1>6. Stopping'
  BY <1>0, <1>m DEF Inv, TypeOK, WakeInv, Stopping
<1> QED
  BY <1>1, <1>3, <1>4, <1>5, <1>6 DEF WakeInv

(* The number of reservations, when one of them may end.                   *)
LEMMA ReservationEnds ==
  ASSUME Inv, NEW o \in Owners, NEW where \in {"run", "handover"},
         at' = [at EXCEPT ![o] = where]
  PROVE  /\ Cardinality(Reserved) \in Nat
         /\ Cardinality(Reserved') = Cardinality(Reserved) - Reservation(o)
<1> USE ThreadsAssumption DEF Owners
<1>1. IsFiniteSet(Reserved) /\ Cardinality(Reserved) \in Nat
  BY FS_Subset, FS_CardinalityType DEF Reserved
<1>2. Reserved' = Reserved \ {o} /\ (at[o] = "reserved" <=> o \in Reserved)
  BY DEF Inv, TypeOK, Places, Reserved
<1>3. Cardinality(Reserved \ {o}) = IF o \in Reserved THEN Cardinality(Reserved) - 1
                                    ELSE Cardinality(Reserved)
  BY <1>1, FS_RemoveElement
<1> QED
  BY <1>1, <1>2, <1>3 DEF Reservation

(* The head of the list is unlinked by one that now holds the mutex of the *)
(* pool.                                                                   *)
Handover(o) ==
  /\ psWaiting # <<>>
  /\ at[o] \in {"submit", "reserved", "wake"} /\ (at[o] = "wake" \/ ~m_mutex)
  /\ at' = [at EXCEPT ![o] = "handover"]
  /\ target' = [target EXCEPT ![o] = Head(psWaiting)]
  /\ psWaiting' = Tail(psWaiting)
  /\ marked' = [marked EXCEPT ![Head(psWaiting)] = FALSE]
  /\ m_mutex' = TRUE
  /\ nWaiting' = nWaiting + Reservation(o) - 1
  /\ UNCHANGED <<faults, eState, wtMutex, joined>>
  /\ \A w \in Workers : wpc'[w] = wpc[w] \/ (wpc[w] = "none" /\ wpc'[w] = "get")

LEMMA HandoverWakes ==
  ASSUME Inv, WakeInv, NEW o \in Owners, Handover(o)
  PROVE  WakeInv'
<1> USE ThreadsAssumption DEF Owners
<1> DEFINE h == Head(psWaiting)
<1>0. /\ at'[o] = "handover" /\ target'[o] = h /\ h \in Workers
      /\ \A p \in Owners \cup {Main} : p # o => at'[p] = at[p]
      /\ \A p \in Owners : p # o => target'[p] = target[p]
      /\ \A w \in Workers : marked'[w] = IF w = h THEN FALSE ELSE marked[w]
      /\ at[Main] = at'[Main]
  <2>1. h \in Workers
    BY DEF Inv, TypeOK, Handover
  <2> QED
    BY <2>1 DEF Inv, TypeOK, Handover
<1>00. /\ at[o] \in {"submit", "reserved", "wake"} /\ (at[o] = "wake" \/ ~m_mutex)
       /\ m_mutex' = TRUE /\ UNCHANGED <<faults, eState, wtMutex, joined>>
       /\ \A w \in Workers : wpc'[w] = wpc[w] \/ (wpc[w] = "none" /\ wpc'[w] = "get")
  BY DEF Handover
<1>a. /\ Len(psWaiting') = Len(psWaiting) - 1 /\ Len(psWaiting) \in Nat
      /\ \A k, l \in DOMAIN psWaiting' : psWaiting'[k] = psWaiting'[l] => k = l
      /\ \A w : InList(w)' <=> w # h /\ InList(w)
      /\ InList(h)
  <2>1. /\ psWaiting \in Seq(Workers) /\ psWaiting # <<>>
        /\ \A k, l \in DOMAIN psWaiting : psWaiting[k] = psWaiting[l] => k = l
    BY DEF Inv, TypeOK, WakeInv, ListOK, Handover
  <2>2. Len(psWaiting) \in Nat
    BY <2>1
  <2> DEFINE t == Tail(psWaiting)
  <2>3. /\ Len(t) = Len(psWaiting) - 1
        /\ \A k, l \in DOMAIN t : t[k] = t[l] => k = l
        /\ \A w : (\E k \in DOMAIN t : t[k] = w) <=> w # h /\ InList(w)
        /\ InList(h)
    BY <2>1, WaitingTail DEF InList
  <2>4. psWaiting' = t
    BY DEF Handover
  <2> HIDE DEF t, h
  <2>5. \A w : InList(w)' <=> \E k \in DOMAIN t : t[k] = w
    BY <2>4 DEF InList
  <2> QED
    BY <2>2, <2>3, <2>4, <2>5
<1> HIDE DEF h
<1>1. ListOK'
  BY <1>0, <1>00, <1>a DEF WakeInv, ListOK
<1>2. CountOK'
  <2>1. nWaiting \in Int /\ Reservation(o) \in {0, 1}
    BY DEF Inv, TypeOK, Reservation
  <2>2. nWaiting' = nWaiting + Reservation(o) - 1
    BY DEF Handover
  <2>3. /\ Cardinality(Reserved) \in Nat
        /\ Cardinality(Reserved') = Cardinality(Reserved) - Reservation(o)
    BY ReservationEnds DEF Handover
  <2> QED
    BY <1>a, <1>00, <2>1, <2>2, <2>3 DEF WakeInv, CountOK
<1>3. PoolMutex'
  BY <1>0, <1>00 DEF WakeInv, PoolMutex
<1>4. WorkerMutex'
  <2>1. \A p \in Owners : at[p] \in {"handover", "notify"} => target[p] \in Workers
    BY DEF WakeInv, WorkerMutex
  <2> QED
    BY <1>0, <1>00, <2>1 DEF WakeInv, WorkerMutex
<1>5. Awaited'
  <2>1. \A w \in Workers : Coming(w) => Coming(w)'
    BY <1>0, <1>00 DEF Coming
  <2>2. \E p \in Owners : at'[p] = "handover" /\ target'[p] = h
    BY <1>0
  <2>5. \A w \in Workers : w = h => Coming(w)'
    BY <2>2 DEF Coming
  <2>3. wpc[h] # "marked"
    BY <1>0, <1>00 DEF WakeInv, PoolMutex
  <2>4. \A w \in Workers : (\E p \in Owners : at[p] = "handover" /\ target[p] = w)
                         => \E p \in Owners : at'[p] = "handover" /\ target'[p] = w
    BY <1>0, <1>00
  <2>6. ASSUME NEW w \in Workers, wpc'[w] \in {"marked", "drowsy", "asleep"}
        PROVE  /\ wpc'[w] = "marked" => marked'[w]
               /\ wpc'[w] = "drowsy" => \/ marked'[w]
                                       \/ \E p \in Owners : at'[p] = "handover" /\ target'[p] = w
               /\ wpc'[w] = "asleep" => marked'[w] \/ Coming(w)'
    <3>1. wpc[w] = wpc'[w]
      BY <1>00, <2>6
    <3>2. CASE w = h
      BY <2>2, <2>3, <2>5, <3>1, <3>2
    <3>3. CASE w # h
      <4>1. marked'[w] <=> marked[w]
        BY <1>0, <3>3
      <4>2. /\ wpc[w] = "marked" => marked[w]
            /\ wpc[w] = "drowsy" => \/ marked[w]
                                   \/ \E p \in Owners : at[p] = "handover" /\ target[p] = w
            /\ wpc[w] = "asleep" => marked[w] \/ Coming(w)
        BY DEF WakeInv, Awaited
      <4> QED
        BY <2>1, <2>4, <3>1, <4>1, <4>2
    <3> QED
      BY <3>2, <3>3
  <2> QED
    BY <2>6 DEF Awaited
<1>6. Stopping'
  <2>1. at[Main] = "joining" => joined + 1 \in Workers
    BY DEF Inv, TypeOK, ThreadsStarted, Workers
  <2> QED
    BY <1>0, <1>00, <2>1 DEF WakeInv, Stopping
<1> QED
  BY <1>1, <1>2, <1>3, <1>4, <1>5, <1>6 DEF WakeInv

LEMMA EnqueueUnlinks ==
  ASSUME Inv, NEW o \in Owners, Enqueue(o)
  PROVE  /\ at[o] \in {"submit", "reserved"} /\ ~m_mutex
         /\ UNCHANGED <<faults, eState, wtMutex, joined>>
         /\ Unlink(o, nWaiting + Reservation(o), "run")
         /\ \A w \in Workers : wpc'[w] = wpc[w] \/ (wpc[w] = "none" /\ wpc'[w] = "get")
         /\ psWaiting # <<>> => Handover(o)
<1>1. /\ at[o] \in {"submit", "reserved"} /\ ~m_mutex
      /\ UNCHANGED <<faults, eState, wtMutex, joined>>
      /\ Unlink(o, nWaiting + Reservation(o), "run")
      /\ nWaiting \in Int /\ Reservation(o) \in Int
  BY DEF Inv, TypeOK, Enqueue, ReadyToQueue, Reservation
<1>2. \A w \in Workers : wpc'[w] = wpc[w] \/ (wpc[w] = "none" /\ wpc'[w] = "get")
  BY SpawnFacts DEF Inv, TypeOK, ThreadsStarted, Enqueue, Spawn
<1>3. ASSUME psWaiting # <<>> PROVE Handover(o)
  <2>1. nWaiting' = nWaiting + Reservation(o) - 1
    BY <1>1, <1>3 DEF Unlink
  <2> QED
    BY <1>1, <1>2, <1>3, <2>1 DEF Unlink, Goto, Handover
<1> QED
  BY <1>1, <1>2, <1>3

LEMMA EnqueueWakes ==
  ASSUME Inv, WakeInv, NEW o \in Owners, Enqueue(o)
  PROVE  WakeInv'
<1> USE ThreadsAssumption DEF Owners
<1>0. /\ at[o] \in {"submit", "reserved"} /\ ~m_mutex
      /\ UNCHANGED <<faults, eState, wtMutex, joined>>
      /\ Unlink(o, nWaiting + Reservation(o), "run")
  BY EnqueueUnlinks
<1>a. \A w \in Workers : wpc'[w] = wpc[w] \/ (wpc[w] = "none" /\ wpc'[w] = "get")
  BY EnqueueUnlinks
<1>b. CASE psWaiting # <<>>
  BY <1>b, EnqueueUnlinks, HandoverWakes
<1>c. CASE psWaiting = <<>>
  <2>0. /\ nWaiting' = nWaiting + Reservation(o) /\ at' = [at EXCEPT ![o] = "run"]
        /\ UNCHANGED <<psWaiting, marked, m_mutex, target>>
    BY <1>0, <1>c DEF Unlink, Goto
  <2>a. /\ at'[o] = "run" /\ at'[Main] = at[Main]
        /\ \A p \in Owners \cup {Main} : p # o => at'[p] = at[p]
    BY <2>0 DEF Inv, TypeOK
  <2>1. ListOK'
    BY <1>0, <1>a, <2>0 DEF WakeInv, ListOK, InList
  <2>2. CountOK'
    <3>1. nWaiting \in Int /\ Reservation(o) \in {0, 1} /\ Len(psWaiting) \in Nat
      BY DEF Inv, TypeOK, Reservation
    <3> QED
      <4>1. /\ Cardinality(Reserved) \in Nat
            /\ Cardinality(Reserved') = Cardinality(Reserved) - Reservation(o)
        BY <2>0, ReservationEnds
      <4> QED
        BY <1>0, <2>0, <3>1, <4>1 DEF WakeInv, CountOK
  <2>3. PoolMutex'
    BY <1>0, <1>a, <2>0, <2>a DEF WakeInv, PoolMutex
  <2>4. WorkerMutex'
    <3>1. \A p \in Owners : at[p] \in {"handover", "notify"} => target[p] \in Workers
      BY DEF WakeInv, WorkerMutex
    <3> QED
      BY <1>0, <1>a, <2>0, <2>a, <3>1 DEF WakeInv, WorkerMutex
  <2>5. Awaited'
    BY <1>0, <1>a, <2>0, <2>a DEF WakeInv, Awaited, Coming
  <2>6. Stopping'
    <3>1. at[Main] = "joining" => joined + 1 \in Workers
      BY DEF Inv, TypeOK, ThreadsStarted, Workers
    <3> QED
      BY <1>0, <1>a, <2>0, <2>a, <3>1 DEF WakeInv, Stopping
  <2> QED
    BY <2>1, <2>2, <2>3, <2>4, <2>5, <2>6 DEF WakeInv
<1> QED
  BY <1>b, <1>c

LEMMA WakeNextUnlinks ==
  ASSUME Inv, NEW o \in Owners, WakeNext(o)
  PROVE  Handover(o)
<1>1. /\ at[o] = "wake" /\ psWaiting # <<>> /\ Unlink(o, nWaiting, "wake")
      /\ UNCHANGED <<faults, eState, wtMutex, joined, wpc>>
  BY DEF WakeNext, MoreToWake, threads, worker
<1>2. m_mutex' = TRUE
  BY <1>1 DEF Unlink
<1>3. Reservation(o) = 0 /\ nWaiting \in Int
  BY <1>1 DEF Reservation, Inv, TypeOK
<1>4. nWaiting' = nWaiting + Reservation(o) - 1
  BY <1>1, <1>3 DEF Unlink
<1> QED
  BY <1>1, <1>2, <1>4 DEF Unlink, Goto, Handover
-----------------------------------------------------------------------------
LEMMA WakeInvStep ==
  ASSUME Inv, WakeInv, [Next]_vars
  PROVE  WakeInv'
<1>1. CASE MainStep \/ \E n \in Workers : Resize(n)
  BY <1>1, CalmStep, CalmOthers, StopWakes, NotifyStopWakes, JoinWakes DEF MainStep
<1>2. CASE \E o \in Owners : OwnerStep(o)
  BY <1>2, CalmStep, CalmOwner, ReserveWakes, SubmitFailsWakes, EnqueueWakes, TakeWorkerMutexWakes,
     NotifyWorkerWakes, SubmitJobsWakes, WakeNextUnlinks, HandoverWakes, RelockWakes, WakeDoneWakes DEF OwnerStep
<1>3. CASE \E w \in Workers : WorkerStep(w) \/ SpuriousWakeup(w)
  BY <1>3, CalmStep, CalmOthers, StopWorkerWakes, MarkAsWaitingWakes, MarkFailsWakes, TakeOwnMutexWakes,
     SleepWakes, SpuriousWakeupWakes DEF WorkerStep
<1>4. CASE UNCHANGED vars
  BY <1>4, CalmStep, CalmOthers
<1> QED
  BY <1>1, <1>2, <1>3, <1>4 DEF Next

LEMMA PoolWakeInvariant == Spec => [](Inv /\ WakeInv)
<1>1. Init => Inv /\ WakeInv
  BY InvInit, WakeInvInit
<1>2. Inv /\ WakeInv /\ [Next]_vars => Inv' /\ WakeInv'
  BY InvStep, WakeInvStep
<1> QED
  BY <1>1, <1>2, PTL DEF Spec

(* nWaitingWorkerThreads, on which SubmitJob decides whether a job may be  *)
(* left to another thread, is the length of the waiting list less the      *)
(* reservations, under every interleaving of its sections.                 *)
THEOREM PoolWaiting == Spec => []WaitingAccounted
<1>1. WakeInv => WaitingAccounted
  BY DEF WakeInv, ListOK, CountOK, InList, Reserved, WaitingAccounted
<1> QED
  BY <1>1, PoolWakeInvariant, PTL

(* No worker sleeps that is neither in the list nor about to be notified,  *)
(* and none that the destructor has already notified or joined.            *)
THEOREM PoolNoLostWakeup == Spec => []NoLostWakeup
<1>1. Inv /\ WakeInv => NoLostWakeup
  <2> SUFFICES ASSUME Inv, WakeInv, NEW w \in Workers, wpc[w] = "asleep"
               PROVE  /\ marked[w] \/ Coming(w)
                      /\ at[Main] = "joining" => w > joined + 1
    BY DEF NoLostWakeup
  <2>1. marked[w] \/ Coming(w)
    BY DEF WakeInv, Awaited
  <2>2. at[Main] = "joining" => ~(w <= joined) /\ w # joined + 1
    BY DEF WakeInv, Stopping
  <2>3. w \in Int /\ joined \in Int
    BY ThreadsAssumption DEF Workers, Inv, TypeOK
  <2> QED
    BY <2>1, <2>2, <2>3
<1> QED
  BY <1>1, PoolWakeInvariant, PTL
-----------------------------------------------------------------------------
(***************************************************************************)
(* Why jobs that submit jobs and wait for them never leave the pool        *)
(* without a thread for the next one, while nothing fails: for any number  *)
(* of threads and any tree of jobs.                                        *)
(***************************************************************************)

Ending == at[Main] \in {"stop", "join", "joining"}

(* What cannot happen without a fault. *)
NoFaults ==
  /\ \A j \in Jobs : at[j] # "dropped"
  /\ aWT <= maxThreads /\ maxThreads >= 1
  /\ \A w \in Workers : w <= aWT => wpc[w] # "none"
  /\ eState = "stop" => at[Main] \in {"join", "joining"}
  /\ ~Ending => \A w \in Workers : wpc[w] # "exited"
  /\ \A o \in Batch : left[o] = 0

(* Who is destroyed is idle. *)
Ended == Ending => /\ psJobQueue = <<>> /\ Busy = {}
                   /\ \A c \in Clients : at[c] = "done"

(* A running job is the one its worker took, or is run synchronously by    *)
(* its parent in the same thread.                                          *)
Stack ==
  /\ \A j \in Jobs : Alive(j) =>
       /\ thread[j] \in Busy
       /\ \/ j = job[thread[j]]
          \/ /\ at[Parent[j]] = "sync" /\ cur[Parent[j]] = j
             /\ Parent[j] \in Jobs /\ thread[Parent[j]] = thread[j]
  /\ \A o \in Jobs : at[o] = "sync" => cur[o] \in Children(o)

(* Who is in the waiting list, or was unlinked and is about to be          *)
(* notified, has not left its wait.                                        *)
Idle ==
  ~Ending =>
    /\ \A w \in Workers : marked[w] => wpc[w] \in {"marked", "drowsy", "asleep"}
    /\ \A o \in Owners : at[o] \in {"handover", "notify"} =>
         ~marked[target[o]] /\ wpc[target[o]] \in {"drowsy", "asleep"}
    /\ \A o, p \in Owners :
         at[o] \in {"handover", "notify"} /\ at[p] \in {"handover", "notify"}
           /\ target[o] = target[p] => o = p

(* The jobs a job has left to other threads; a thread owes when one of its *)
(* jobs has, or is about to have, such jobs.                               *)
Left(j) == Outstanding(j) \ (IF at[j] \in {"submit", "reserved", "sync"} THEN {cur[j]} ELSE {})
Owes(w) == \E j \in Jobs : thread[j] = w /\ Alive(j) /\ Left(j) # {}
WillOwe(w) == \E j \in Jobs : thread[j] = w /\ at[j] = "reserved"

(* The guard of Reserve: one of the allowed threads does not owe.          *)
OneSpare == \E w \in 1 .. maxThreads : ~Owes(w) /\ ~WillOwe(w)
OneStarted == psJobQueue # <<>> => \E w \in 1 .. aWT : ~Owes(w)

(* While there are jobs, not every thread that does not owe is idle.       *)
Active(w) == wpc[w] = "get" \/ Coming(w) \/ (wpc[w] = "busy" /\ ~Owes(w))
OneActive ==
  psJobQueue # <<>> /\ psWaiting # <<>> =>
    \/ \E w \in Workers : Active(w)
    \/ \E c \in Clients : at[c] = "wake" /\ MoreToWake(c)

ProceedInv == NoFaults /\ Ended /\ Stack /\ Idle /\ OneSpare /\ OneStarted /\ OneActive
-----------------------------------------------------------------------------
(***************************************************************************)
(* What follows from the invariant in a state.                             *)
(***************************************************************************)
LEMMA NothingBelow ==
  ASSUME Inv, ProceedInv, NEW j \in Jobs, at[j] \in {"new", "submitted"}
  PROVE  Outstanding(j) = {}
<1>1. \A k \in Children(j) : k \in Jobs /\ Parent[k] = j
  BY DEF Children
<1>2. ~Running(j)
  BY DEF Running
<1> QED
  BY <1>1, <1>2 DEF Inv, Stages, Nested, ProceedInv, NoFaults, Outstanding, Over

LEMMA IdleOwesNothing ==
  ASSUME Inv, ProceedInv, NEW w \in Workers, w \notin Busy
  PROVE  ~Owes(w) /\ ~WillOwe(w)
<1>1. \A j \in Jobs : at[j] = "reserved" => Alive(j)
  BY DEF Alive
<1> QED
  BY <1>1 DEF ProceedInv, Stack, Owes, WillOwe

(* No job of a worker runs whose own job has ended: of those that run, one *)
(* has a parent outside of them, so that it is the worker's own.           *)
LEMMA StackEmpty ==
  ASSUME Inv, ProceedInv, NEW w \in Workers, at[job[w]] = "ended"
  PROVE  \A j \in Jobs : Alive(j) => thread[j] # w
<1> DEFINE S == {j \in Jobs : Alive(j) /\ thread[j] = w}
<1> SUFFICES ASSUME S # {} PROVE FALSE
  OBVIOUS
<1>1. PICK j \in S : Parent[j] \notin S
  BY TreeAssumption
<1>2. j # job[w]
  BY DEF Alive
<1>3. at[Parent[j]] = "sync" /\ Parent[j] \in Jobs /\ thread[Parent[j]] = w
  BY <1>2 DEF ProceedInv, Stack
<1>4. Alive(Parent[j])
  BY <1>3 DEF Alive
<1> QED
  BY <1>1, <1>3, <1>4
-----------------------------------------------------------------------------
(***************************************************************************)
(* Steps that move no job leave the stacks and the debts alone.            *)
(***************************************************************************)
MovesNoJob ==
  /\ UNCHANGED <<cur, job, thread, left>>
  /\ Busy' = Busy
  /\ \A o \in Owners :
       at'[o] = at[o] \/ {at[o], at'[o]} \subseteq {"run", "submit", "reserved", "handover",
                                                   "notify", "wake", "relock", "poolwait",
                                                   "done"}
SameHand(j) == at'[j] \in {"submit", "reserved"} <=> at[j] \in {"submit", "reserved"}
Plain == MovesNoJob /\ \A j \in Jobs : SameHand(j)

LEMMA MovesStack ==
  ASSUME ProceedInv, MovesNoJob
  PROVE  Stack'
<1>1. \A j \in Jobs : Alive(j)' <=> Alive(j)
  BY DEF MovesNoJob, Alive, Owners
<1>2. \A o \in Jobs : at'[o] = "sync" <=> at[o] = "sync"
  BY DEF MovesNoJob, Owners
<1>3. \A o : Children(o)' = Children(o)
  BY DEF Children
<1> QED
  BY <1>1, <1>2, <1>3 DEF MovesNoJob, ProceedInv, Stack

LEMMA MovesOwe ==
  ASSUME MovesNoJob, NEW o, \A j \in Jobs : j # o => SameHand(j)
  PROVE  \A w \in Workers : Owes(w)' => Owes(w) \/ (o \in Jobs /\ thread[o] = w /\ Alive(o))
<1>1. \A j \in Jobs : Alive(j)' <=> Alive(j)
  BY DEF MovesNoJob, Alive, Owners
<1>2. \A j \in Jobs : Over(j)' <=> Over(j)
  BY DEF MovesNoJob, Over, Owners
<1>3. \A k : Outstanding(k)' = Outstanding(k)
  BY <1>2 DEF Outstanding, Children
<1>4. \A k \in Jobs : at'[k] = "sync" <=> at[k] = "sync"
  BY DEF MovesNoJob, Owners
<1>5. \A j \in Jobs : j # o => Left(j)' = Left(j)
  BY <1>3, <1>4 DEF MovesNoJob, Left, SameHand
<1> QED
  BY <1>1, <1>5 DEF MovesNoJob, Owes

NoMoreOwed == \A w \in Workers : Owes(w)' => Owes(w)

LEMMA PlainOwes ==
  ASSUME ProceedInv, Plain
  PROVE  Stack' /\ NoMoreOwed
<1>1. \A w \in Workers : Owes(w)' => Owes(w) \/ (Main \in Jobs /\ thread[Main] = w /\ Alive(Main))
  BY MovesOwe DEF Plain
<1>2. Main \notin Jobs
  BY ThreadsAssumption DEF Owners
<1> QED
  BY <1>1, <1>2, MovesStack DEF Plain, NoMoreOwed
-----------------------------------------------------------------------------
(***************************************************************************)
(* Steps that move a job: the stacks, and that nobody owes more than       *)
(* before.                                                                 *)
(***************************************************************************)
LEMMA QueueSubmitOwes ==
  ASSUME Inv, ProceedInv, NEW o \in Owners, NEW j \in Jobs, QueueSubmit(o, j)
  PROVE  Stack' /\ NoMoreOwed
<1> USE ThreadsAssumption DEF Owners
<1>1. /\ at[o] = "run" /\ at[j] = "new" /\ Parent[j] = o /\ o # j
      /\ at'[o] = "submit" /\ at'[j] = "submitted" /\ cur'[o] = j
      /\ \A k \in Jobs : k # o /\ k # j => at'[k] = at[k]
      /\ \A k \in Jobs : k # o => cur'[k] = cur[k]
      /\ UNCHANGED <<job, thread, wpc>>
  BY DEF Inv, TypeOK, QueueSubmit, Serving, Unsubmitted, Children, worker
<1>2. \A k \in Jobs : /\ Alive(k)' <=> Alive(k)
                      /\ at'[k] = "sync" <=> at[k] = "sync"
                      /\ k # j => (Over(k)' <=> Over(k))
  BY <1>1 DEF Alive, Over
<1>3. Busy' = Busy /\ \A k : Children(k)' = Children(k)
  BY <1>1 DEF Busy, Children
<1>4. Stack'
  BY <1>1, <1>2, <1>3 DEF ProceedInv, Stack
<1>5. \A k \in Jobs : Left(k)' \subseteq Left(k)
  <2> SUFFICES ASSUME NEW k \in Jobs PROVE Left(k)' \subseteq Left(k)
    OBVIOUS
  <2>1. CASE k = o
    <3>1. Outstanding(o)' \subseteq Outstanding(o) \cup {j}
      BY <1>2, <1>3 DEF Outstanding, Children
    <3> QED
      BY <1>1, <2>1, <3>1 DEF Left
  <2>2. CASE k # o
    <3>1. Outstanding(k)' = Outstanding(k)
      BY <1>1, <1>2, <1>3, <2>2 DEF Outstanding, Children
    <3>2. k = j => Outstanding(k) = {}
      BY <1>1, NothingBelow
    <3> QED
      BY <1>1, <2>2, <3>1, <3>2 DEF Left
  <2> QED
    BY <2>1, <2>2
<1>6. NoMoreOwed
  BY <1>1, <1>2, <1>5 DEF NoMoreOwed, Owes
<1> QED
  BY <1>4, <1>6

LEMMA RunHereOwes ==
  ASSUME Inv, ProceedInv, NEW o \in Jobs, NEW j \in Jobs, RunHere(o, j), Parent[j] = o,
         \/ at[o] = "submit" /\ at[j] = "submitted" /\ cur[o] = j
         \/ at[o] = "run" /\ at[j] = "new",
         UNCHANGED <<wpc, job>>
  PROVE  Stack' /\ NoMoreOwed
<1> USE ThreadsAssumption DEF Owners
<1>1. /\ o # j /\ at[o] \in {"run", "submit"} /\ at[j] \in {"new", "submitted"}
      /\ at'[o] = "sync" /\ at'[j] = "run" /\ cur'[o] = j /\ thread'[j] = thread[o]
      /\ \A k \in Jobs : k # o /\ k # j => at'[k] = at[k]
      /\ \A k \in Jobs : k # o => cur'[k] = cur[k]
      /\ \A k \in Jobs : k # j => thread'[k] = thread[k]
  BY DEF Inv, TypeOK, RunHere
<1>2. \A k \in Jobs : /\ Alive(k)' <=> Alive(k) \/ k = j
                      /\ k # o => (at'[k] = "sync" <=> at[k] = "sync")
                      /\ k # j => (Over(k)' <=> Over(k))
  BY <1>1 DEF Alive, Over
<1>3. Busy' = Busy /\ \A k : Children(k)' = Children(k)
  BY DEF Busy, Children
<1>4. Alive(o) /\ ~Alive(j) /\ j \in Children(o)
  BY <1>1 DEF Alive, Children
<1>5. Stack'
  <2>1. ASSUME NEW k \in Jobs, Alive(k)'
        PROVE  /\ thread'[k] \in Busy'
               /\ \/ k = job'[thread'[k]]
                  \/ /\ at'[Parent[k]] = "sync" /\ cur'[Parent[k]] = k
                     /\ Parent[k] \in Jobs /\ thread'[Parent[k]] = thread'[k]
    <3>1. CASE k = j
      BY <1>1, <1>3, <1>4, <3>1 DEF ProceedInv, Stack
    <3>2. CASE k # j
      <4>1. Alive(k)
        BY <1>2, <2>1, <3>2
      <4>2. /\ thread[k] \in Busy
            /\ \/ k = job[thread[k]]
               \/ /\ at[Parent[k]] = "sync" /\ cur[Parent[k]] = k
                  /\ Parent[k] \in Jobs /\ thread[Parent[k]] = thread[k]
        BY <4>1 DEF ProceedInv, Stack
      <4> QED
        BY <1>1, <1>2, <1>3, <3>2, <4>2
    <3> QED
      BY <3>1, <3>2
  <2>2. \A p \in Jobs : at'[p] = "sync" => cur'[p] \in Children(p)
    BY <1>1, <1>2, <1>4 DEF ProceedInv, Stack
  <2> QED
    BY <1>3, <2>1, <2>2 DEF Stack
<1>6. \A k \in Jobs \ {j} : Left(k)' \subseteq Left(k)
  <2> SUFFICES ASSUME NEW k \in Jobs \ {j} PROVE Left(k)' \subseteq Left(k)
    OBVIOUS
  <2>1. CASE k = o
    <3>1. Outstanding(o)' \subseteq Outstanding(o) \cup {j}
      BY <1>2, <1>3 DEF Outstanding, Children
    <3> QED
      BY <1>1, <2>1, <3>1 DEF Left
  <2>2. CASE k # o
    <3>1. Outstanding(k)' = Outstanding(k)
      BY <1>1, <1>2, <1>3, <2>2 DEF Outstanding, Children
    <3> QED
      BY <1>1, <2>2, <3>1 DEF Left
  <2> QED
    BY <2>1, <2>2
<1>7. Left(j)' = {}
  <2>1. Outstanding(j) = {}
    BY <1>1, NothingBelow
  <2>2. j \notin Children(j)
    BY <1>1 DEF Children
  <2>3. Outstanding(j)' = {}
    BY <1>2, <1>3, <2>1, <2>2 DEF Outstanding, Children
  <2> QED
    BY <2>3 DEF Left
<1>8. NoMoreOwed
  BY <1>1, <1>2, <1>6, <1>7 DEF NoMoreOwed, Owes
<1> QED
  BY <1>5, <1>8

LEMMA RunReturnsOwes ==
  ASSUME Inv, ProceedInv, NEW o \in Owners, RunReturns(o)
  PROVE  Stack' /\ NoMoreOwed
<1> USE ThreadsAssumption DEF Owners
<1>1. /\ at[o] = "sync" /\ at[cur[o]] = "ended" /\ at'[o] = "run"
      /\ \A k \in Jobs : k # o => at'[k] = at[k]
      /\ UNCHANGED <<cur, job, thread, wpc>>
  BY DEF Inv, TypeOK, RunReturns, Goto, worker
<1>2. \A k \in Jobs : /\ Alive(k)' <=> Alive(k)
                      /\ k # o => (at'[k] = "sync" <=> at[k] = "sync")
                      /\ Over(k)' <=> Over(k)
  BY <1>1 DEF Alive, Over
<1>3. Busy' = Busy /\ \A k : Children(k)' = Children(k) /\ Outstanding(k)' = Outstanding(k)
  BY <1>1, <1>2 DEF Busy, Children, Outstanding
<1>4. Stack'
  <2>1. \A k \in Jobs : Alive(k) => ~(Parent[k] = o /\ cur[o] = k)
    BY <1>1 DEF Alive
  <2> QED
    BY <1>1, <1>2, <1>3, <2>1 DEF ProceedInv, Stack
<1>5. \A k \in Jobs : Left(k)' \subseteq Left(k)
  <2>1. cur[o] \notin Outstanding(o)
    BY <1>1 DEF Outstanding, Over
  <2> QED
    BY <1>1, <1>3, <2>1 DEF Left
<1>6. NoMoreOwed
  BY <1>1, <1>2, <1>5 DEF NoMoreOwed, Owes
<1> QED
  BY <1>4, <1>6

LEMMA JobReturnsOwes ==
  ASSUME Inv, ProceedInv, NEW j \in Jobs, JobReturns(j)
  PROVE  Stack' /\ NoMoreOwed
<1> USE ThreadsAssumption DEF Owners
<1>1. /\ at[j] = "run" /\ at'[j] = "ended"
      /\ \A k \in Jobs : k # j => at'[k] = at[k]
      /\ UNCHANGED <<cur, job, thread, wpc>>
  BY DEF Inv, TypeOK, JobReturns, Submitted, Goto, worker
<1>2. \A k \in Jobs : /\ Alive(k)' => Alive(k)
                      /\ at'[k] = "sync" <=> at[k] = "sync"
                      /\ Over(k) => Over(k)'
  BY <1>1 DEF Alive, Over
<1>3. Busy' = Busy /\ \A k : Children(k)' = Children(k) /\ Outstanding(k)' \subseteq Outstanding(k)
  BY <1>1, <1>2 DEF Busy, Children, Outstanding
<1>4. Stack'
  BY <1>1, <1>2, <1>3 DEF ProceedInv, Stack
<1>5. \A k \in Jobs : k # j => Left(k)' \subseteq Left(k)
  BY <1>1, <1>3 DEF Left
<1>6. ~Alive(j)'
  BY <1>1 DEF Alive
<1>7. NoMoreOwed
  BY <1>1, <1>2, <1>5, <1>6 DEF NoMoreOwed, Owes
<1> QED
  BY <1>4, <1>7

LEMMA GetJobOwes ==
  ASSUME Inv, ProceedInv, NEW w \in Workers, GetJob(w)
  PROVE  Stack' /\ NoMoreOwed
<1> USE ThreadsAssumption DEF Owners
<1>1. PICK j \in Jobs :
      /\ at[j] = "submitted" /\ wpc[w] = "get" /\ wpc' = [wpc EXCEPT ![w] = "busy"]
      /\ at'[j] = "run" /\ thread'[j] = w /\ job'[w] = j
      /\ \A k \in Jobs : k # j => at'[k] = at[k] /\ thread'[k] = thread[k]
      /\ \A v \in Workers : v # w => job'[v] = job[v]
      /\ UNCHANGED cur
  BY TailFacts DEF Inv, TypeOK, JobsAccounted, GetJob, Goto
<1>2. \A k \in Jobs : /\ Alive(k)' <=> Alive(k) \/ k = j
                      /\ at'[k] = "sync" <=> at[k] = "sync"
                      /\ k # j => (Over(k)' <=> Over(k))
                      /\ ~Over(j)
  BY <1>1 DEF Alive, Over
<1>3. Busy' = Busy \cup {w} /\ w \notin Busy /\ \A k : Children(k)' = Children(k)
  BY <1>1 DEF Inv, TypeOK, Busy, Children
<1>4. Stack'
  <2>1. \A k \in Jobs : Alive(k) => k # j /\ thread[k] # w
    BY <1>1, <1>3 DEF ProceedInv, Stack, Alive
  <2>2. \A k \in Jobs : Alive(k) => thread[k] \in Workers
    BY DEF ProceedInv, Stack, Busy
  <2> QED
    BY <1>1, <1>2, <1>3, <2>1, <2>2 DEF ProceedInv, Stack
<1>5. \A k \in Jobs : Outstanding(k)' = Outstanding(k)
  <2>1. Over(j)' <=> Over(j)
    BY <1>1 DEF Over
  <2> QED
    BY <1>2, <1>3, <2>1 DEF Outstanding, Children
<1>6. Left(j)' = {}
  BY <1>1, <1>5, NothingBelow DEF Left
<1>7. \A k \in Jobs \ {j} : Left(k)' = Left(k)
  BY <1>1, <1>5 DEF Left
<1>8. NoMoreOwed
  BY <1>1, <1>2, <1>6, <1>7 DEF NoMoreOwed, Owes
<1> QED
  BY <1>4, <1>8

LEMMA DeclareJobFinishedOwes ==
  ASSUME Inv, ProceedInv, NEW w \in Workers, DeclareJobFinished(w)
  PROVE  Stack' /\ NoMoreOwed
<1>1. /\ at[job[w]] = "ended" /\ wpc' = [wpc EXCEPT ![w] = "get"]
      /\ \A v \in Workers : v # w => job'[v] = job[v]
      /\ UNCHANGED <<at, cur, thread>>
  BY DEF Inv, TypeOK, DeclareJobFinished, owner
<1>2. \A k \in Jobs : Alive(k) => thread[k] # w
  BY <1>1, StackEmpty
<1>3. Busy' = Busy \ {w} /\ Busy \subseteq Workers
  BY <1>1 DEF Inv, TypeOK, Busy
<1>4. /\ \A k \in Jobs : (Alive(k)' <=> Alive(k)) /\ (Over(k)' <=> Over(k))
      /\ \A k : Children(k)' = Children(k)
  BY <1>1 DEF Alive, Over, Children
<1>5. Stack'
  BY <1>1, <1>2, <1>3, <1>4 DEF ProceedInv, Stack
<1>6. \A k \in Jobs : Left(k)' = Left(k)
  BY <1>1, <1>4 DEF Left, Outstanding, Over
<1>7. NoMoreOwed
  BY <1>1, <1>4, <1>6 DEF NoMoreOwed, Owes
<1> QED
  BY <1>5, <1>7

LEMMA SubmitJobsOwes ==
  ASSUME Inv, ProceedInv, NEW o \in Owners, SubmitJobs(o)
  PROVE  Stack' /\ NoMoreOwed
<1> USE ThreadsAssumption DEF Owners
<1>1. /\ o \in Clients \cap Batch /\ at[o] = "run"
      /\ UNCHANGED <<cur, job, thread>>
  BY DEF SubmitJobs, Serving
<1>2. \A k \in Children(o) : at[k] = "new"
  BY <1>1 DEF Inv, Stages, BatchClients
<1>3. \A k \in Jobs : at'[k] = IF k \in Children(o) THEN "submitted" ELSE at[k]
  BY <1>1 DEF Inv, TypeOK, SubmitJobs
<1>4. Busy' = Busy
  <2>1. PICK n \in Started(Cardinality(Children(o))) : Spawn(n)
    BY DEF SubmitJobs
  <2>2. \A w \in Workers : wpc'[w] = "busy" <=> wpc[w] = "busy"
    BY <2>1 DEF Inv, TypeOK, ThreadsStarted, Spawn, Workers
  <2> QED
    BY <2>2 DEF Busy
<1>5. \A k \in Jobs : /\ Alive(k)' <=> Alive(k)
                      /\ at'[k] = "sync" <=> at[k] = "sync"
                      /\ k \notin Children(o) => (Over(k)' <=> Over(k)) /\ at'[k] = at[k]
  BY <1>2, <1>3 DEF Alive, Over
<1>6. \A k : Children(k)' = Children(k)
  BY DEF Children
<1>7. Stack'
  BY <1>1, <1>4, <1>5, <1>6 DEF ProceedInv, Stack
<1>8. \A k \in Jobs : Outstanding(k)' = Outstanding(k)
  <2>1. \A k \in Jobs : \A j \in Children(k) : j \notin Children(o)
    BY <1>1 DEF Children
  <2> QED
    BY <1>5, <1>6, <2>1 DEF Outstanding, Children
<1>9. \A k \in Jobs : Alive(k) => Left(k)' = Left(k)
  <2>1. \A k \in Jobs : Alive(k) => at'[k] = at[k]
    BY <1>2, <1>5 DEF Alive
  <2> QED
    BY <1>1, <1>8, <2>1 DEF Left
<1>10. NoMoreOwed
  BY <1>1, <1>5, <1>9 DEF NoMoreOwed, Owes
<1> QED
  BY <1>7, <1>10
-----------------------------------------------------------------------------
(***************************************************************************)
(* What every step has to show.                                            *)
(***************************************************************************)
Good == faults = {} /\ Inv /\ WakeInv /\ ProceedInv

(* Owners that are still at work keep the destructor waiting. *)
LEMMA NotEnding ==
  ASSUME Good, NEW o \in Owners, Running(o)
  PROVE  ~Ending
<1>1. CASE o \in Clients
  BY <1>1 DEF Good, ProceedInv, Ended, Running
<1>2. CASE o \in Jobs
  <2>1. Alive(o)
    BY DEF Running, Alive
  <2> QED
    BY <1>2, <2>1 DEF Good, ProceedInv, Ended, Stack
<1> QED
  BY <1>1, <1>2 DEF Owners

LEMMA SpareStays ==
  ASSUME Good, NoMoreOwed, TypeOK', maxThreads' >= maxThreads,
         \A w \in Workers : WillOwe(w)' => WillOwe(w)
  PROVE  OneSpare'
<1>1. PICK w \in 1 .. maxThreads : ~Owes(w) /\ ~WillOwe(w)
  BY DEF Good, ProceedInv, OneSpare
<1>2. maxThreads \in 0 .. MaxThreads /\ maxThreads' \in 0 .. MaxThreads
  BY DEF Good, Inv, TypeOK
<1>3. w \in Workers /\ w \in 1 .. maxThreads'
  BY <1>2, ThreadsAssumption DEF Workers
<1>4. ~Owes(w)' /\ ~WillOwe(w)'
  BY <1>1, <1>3 DEF NoMoreOwed
<1> QED
  BY <1>3, <1>4 DEF OneSpare

LEMMA StartedStays ==
  ASSUME Good, NoMoreOwed, TypeOK', aWT' >= aWT,
         psJobQueue' # <<>> => psJobQueue # <<>>
  PROVE  OneStarted'
<1> SUFFICES ASSUME psJobQueue' # <<>> PROVE \E w \in 1 .. aWT' : ~Owes(w)'
  BY DEF OneStarted
<1>1. PICK w \in 1 .. aWT : ~Owes(w)
  BY DEF Good, ProceedInv, OneStarted
<1>2. aWT \in 0 .. MaxThreads /\ aWT' \in 0 .. MaxThreads
  BY DEF Good, Inv, TypeOK
<1>3. w \in Workers /\ w \in 1 .. aWT'
  BY <1>2, ThreadsAssumption DEF Workers
<1> QED
  BY <1>1, <1>3 DEF NoMoreOwed

(* Nobody enters or leaves the list, or is unlinked from it, and who waits *)
(* goes on to wait.                                                        *)
Settled ==
  /\ UNCHANGED <<psWaiting, marked, target>>
  /\ \A o \in Owners :
       /\ at'[o] \in {"handover", "notify"} <=> at[o] \in {"handover", "notify"}
       /\ at[o] = "wake" /\ MoreToWake(o) => at'[o] = "wake" /\ wakes'[o] = wakes[o]
  /\ \A w \in Workers :
       /\ wpc[w] = "marked" => wpc'[w] \in {"marked", "drowsy"}
       /\ wpc[w] \in {"drowsy", "asleep"} => wpc'[w] \in {"drowsy", "asleep"}
       /\ wpc[w] \in {"get", "busy"} => wpc'[w] = wpc[w]

LEMMA SettledIdle ==
  ASSUME Good, Settled, Ending => Ending'
  PROVE  Idle'
<1>1. \A o \in Owners : at'[o] \in {"handover", "notify"} <=> at[o] \in {"handover", "notify"}
  BY DEF Settled
<1>2. \A o \in Owners : at[o] \in {"handover", "notify"} => target[o] \in Workers
  BY DEF Good, WakeInv, WorkerMutex
<1>3. \A w \in Workers :
       /\ wpc[w] \in {"marked", "drowsy", "asleep"} => wpc'[w] \in {"marked", "drowsy", "asleep"}
       /\ wpc[w] \in {"drowsy", "asleep"} => wpc'[w] \in {"drowsy", "asleep"}
  BY DEF Settled
<1>4. target' = target /\ marked' = marked
  BY DEF Settled
<1> QED
  BY <1>1, <1>2, <1>3, <1>4 DEF Good, ProceedInv, Idle

LEMMA SettledActive ==
  ASSUME Good, Settled, NoMoreOwed, psJobQueue' = psJobQueue
  PROVE  OneActive'
<1>1. \A w \in Workers : Coming(w)' <=> Coming(w)
  BY DEF Settled, Coming
<1>2. \A w \in Workers : Active(w) => Active(w)'
  BY <1>1 DEF Active, NoMoreOwed, Settled
<1>4. UNCHANGED <<psJobQueue, psWaiting>>
  BY DEF Settled
<1>5. \A c \in Clients : at[c] = "wake" /\ MoreToWake(c) => at'[c] = "wake" /\ MoreToWake(c)'
  BY <1>4 DEF Settled, MoreToWake, Owners
<1>6. psJobQueue # <<>> /\ psWaiting # <<>> =>
        \/ \E w \in Workers : Active(w)
        \/ \E c \in Clients : at[c] = "wake" /\ MoreToWake(c)
  BY DEF Good, ProceedInv, OneActive
<1> QED
  BY <1>2, <1>4, <1>5, <1>6 DEF OneActive

LEMMA SettledStep ==
  ASSUME Good, TypeOK', Settled, psJobQueue' = psJobQueue, Stack', NoMoreOwed, aWT' >= aWT, maxThreads' >= maxThreads,
         \A w \in Workers : WillOwe(w)' => WillOwe(w),
         Ending => Ending', NoFaults', Ended'
  PROVE  ProceedInv'
<1> QED
  BY SpareStays, StartedStays, SettledIdle, SettledActive DEF ProceedInv

(* The steps of an owner that are none of the waiting list's business. *)
LEMMA CalmOwnerProceeds ==
  ASSUME Good, TypeOK', NEW o \in Owners,
         \/ \E j \in Jobs : QueueSubmit(o, j) \/ RunBatchHere(o, j)
         \/ RunSynchronously(o) \/ RunReturns(o) \/ SubmitJobsFails(o)
         \/ PoolWait(o) \/ QueueWait(o) \/ JobReturns(o)
  PROVE  ProceedInv'
<1> USE ThreadsAssumption DEF Owners
<1>0. Inv /\ faults = {} /\ ProceedInv
  BY DEF Good
<1>a. ~SubmitJobsFails(o)
  BY <1>0 DEF SubmitJobsFails
<1>b. at[o] = "submit" => cur[o] \in Jobs /\ at[cur[o]] = "submitted"
  BY <1>0 DEF Inv, Stages, InHand, Children
<1>1. Calm
  BY <1>0, CalmOwner
<1>2. ~Ending
  <2>1. Running(o)
    BY DEF Running, QueueSubmit, Serving, RunBatchHere, RunSynchronously, RunReturns,
           SubmitJobsFails, PoolWait, QueueWait, JobReturns, Submitted
  <2> QED
    BY <2>1, NotEnding
<1>3. UNCHANGED <<psJobQueue, aWT, maxThreads, eState, wakes, wpc>>
  BY <1>0 DEF QueueSubmit, RunBatchHere, RunSynchronously, RunReturns, SubmitJobsFails, PoolWait,
              WaitCompletion, QueueWait, JobReturns, jobs, threads, owner, worker
<1>4. Stack' /\ NoMoreOwed
  <2>1. CASE \E j \in Jobs : QueueSubmit(o, j)
    BY <1>0, <2>1, QueueSubmitOwes
  <2>2. CASE \E j \in Jobs : RunBatchHere(o, j)
    <3>1. PICK j \in Jobs : RunBatchHere(o, j)
      BY <2>2
    <3> QED
      BY <1>0, <3>1, RunHereOwes DEF RunBatchHere, Unsubmitted, Children
  <2>3. CASE RunSynchronously(o)
    <3>1. cur[o] \in Jobs /\ Parent[cur[o]] = o /\ at[cur[o]] = "submitted"
      BY <1>0, <2>3 DEF RunSynchronously, Inv, Stages, InHand, Children
    <3> QED
      BY <1>0, <2>3, <3>1, RunHereOwes DEF RunSynchronously
  <2>4. CASE RunReturns(o)
    BY <1>0, <2>4, RunReturnsOwes
  <2>5. CASE SubmitJobsFails(o)
    BY <1>0, <2>5 DEF SubmitJobsFails
  <2>6. CASE PoolWait(o) \/ QueueWait(o)
    <3>1. Plain
      BY <1>0, <2>6 DEF PoolWait, WaitCompletion, QueueWait, Serving, Submitted, Goto, Plain, MovesNoJob, SameHand, Busy,
                        worker, Inv, TypeOK
    <3> QED
      BY <1>0, <3>1, PlainOwes
  <2>7. CASE JobReturns(o)
    BY <1>0, <2>7, JobReturnsOwes DEF JobReturns
  <2> QED
    BY <2>1, <2>2, <2>3, <2>4, <2>5, <2>6, <2>7
<1>5. \A w \in Workers : WillOwe(w)' => WillOwe(w)
  <2>1. \A j \in Jobs : at'[j] = "reserved" => at[j] = "reserved"
    BY <1>1 DEF Calm
  <2>2. \/ thread' = thread
        \/ \E j \in Jobs : at[j] \in {"new", "submitted"} /\ thread' = [thread EXCEPT ![j] = thread[o]]
    BY <1>a, <1>b DEF QueueSubmit, RunBatchHere, RunSynchronously, RunHere, RunReturns, PoolWait,
                QueueWait, JobReturns, worker, Unsubmitted
  <2>3. \A j \in Jobs : at[j] = "reserved" => thread'[j] = thread[j]
    BY <1>0, <2>2 DEF Inv, TypeOK
  <2> QED
    BY <2>1, <2>3 DEF WillOwe
<1>6. at'[Main] = at[Main]
  BY <1>0 DEF Inv, TypeOK, QueueSubmit, RunBatchHere, RunSynchronously, RunHere, RunReturns,
              SubmitJobsFails, PoolWait, WaitCompletion, QueueWait, JobReturns, Goto, Stages, InHand,
              Children, Submitted, Serving
<1>7. NoFaults'
  <2>1. \A j \in Jobs : at'[j] # "dropped"
    <3> DEFINE Places1 == {"submit", "submitted", "sync", "run", "done", "ended"}
    <3>2. \/ at' = at
          \/ \E x \in Places1 : at' = [at EXCEPT ![o] = x]
          \/ \E j \in Jobs, x, y \in Places1 : at' = [at EXCEPT ![o] = x, ![j] = y]
      BY <1>a, <1>b DEF QueueSubmit, RunBatchHere, RunSynchronously, RunHere, RunReturns, PoolWait,
                WaitCompletion, QueueWait, JobReturns, Goto
    <3>1. \A j \in Jobs : at'[j] = at[j] \/ at'[j] \in Places1
      BY <1>0, <3>2 DEF Inv, TypeOK
    <3> QED
      BY <1>0, <3>1 DEF ProceedInv, NoFaults
  <2>2. \A p \in Batch : left'[p] = 0
    <3>1. \/ left' = left
          \/ o \notin Batch /\ left' = [left EXCEPT ![o] = left[o] + 1]
          \/ o \in Jobs /\ Parent[o] \notin Batch /\ left' = [left EXCEPT ![Parent[o]] = left[Parent[o]] - 1]
      BY <1>a DEF QueueSubmit, RunBatchHere, RunSynchronously, RunReturns, PoolWait, QueueWait, JobReturns
    <3>2. \A p \in Batch : left[p] = 0 /\ p \in Owners
      BY <1>0 DEF ProceedInv, NoFaults
    <3> QED
      BY <1>0, <3>1, <3>2 DEF Inv, TypeOK
  <2> QED
    BY <1>0, <1>2, <1>3, <1>6, <2>1, <2>2 DEF ProceedInv, NoFaults, Ending
<1>8. Ended'
  BY <1>2, <1>6 DEF Ended, Ending
<1>9. maxThreads' >= maxThreads /\ aWT' >= aWT
  BY <1>0, <1>3 DEF Inv, TypeOK
<1>10. Settled
  BY <1>1, <1>3 DEF Calm, Settled
<1>11. Ending => Ending'
  BY <1>2
<1> QED
  BY <1>3, <1>4, <1>5, <1>7, <1>8, <1>9, <1>10, <1>11, SettledStep

(* The rest of NoFaults, for an owner that creates or wakes up threads. *)
LEMMA OwnerBasics ==
  ASSUME Good, NEW o \in Owners, Running(o),
         UNCHANGED <<eState, maxThreads, left>>, at'[Main] = at[Main],
         \A j \in Jobs : at'[j] = at[j] \/ at'[j] # "dropped",
         aWT' <= maxThreads, \A w \in Workers : w <= aWT' => wpc'[w] # "none",
         \A w \in Workers : wpc'[w] = "exited" => wpc[w] = "exited"
  PROVE  NoFaults' /\ Ended' /\ ~Ending
<1>1. ~Ending
  BY NotEnding
<1>2. ~Ending'
  BY <1>1 DEF Ending
<1>3. Ended'
  BY <1>2 DEF Ended
<1>4. NoFaults'
  BY <1>1 DEF Good, ProceedInv, NoFaults, Ending
<1> QED
  BY <1>1, <1>3, <1>4

LEMMA PlainOwnerProceeds ==
  ASSUME Good, TypeOK', NEW o \in Owners, TakeWorkerMutex(o) \/ Relock(o) \/ WakeDone(o)
  PROVE  ProceedInv'
<1> USE ThreadsAssumption DEF Owners
<1>0. Inv /\ faults = {} /\ ProceedInv
  BY DEF Good
<1>1. /\ UNCHANGED <<jobs, waiting, threads, cur, target, left, worker>>
      /\ \A p \in Owners : p # o => wakes'[p] = wakes[p]
      /\ \/ at[o] = "handover" /\ at' = [at EXCEPT ![o] = "notify"]
         \/ at[o] = "relock" /\ at' = [at EXCEPT ![o] = "wake"]
         \/ at[o] = "wake" /\ at' = [at EXCEPT ![o] = "poolwait"] /\ ~MoreToWake(o)
  BY <1>0 DEF TakeWorkerMutex, Relock, WakeDone, Goto, Inv, TypeOK
<1>2. Running(o)
  BY <1>1 DEF Running
<1>3. Plain
  BY <1>0, <1>1 DEF Plain, MovesNoJob, SameHand, Inv, TypeOK, Busy, worker
<1>4. Settled
  <2>1. \A p \in Owners : p # o => at'[p] = at[p]
    BY <1>0, <1>1 DEF Inv, TypeOK
  <2>2. /\ at'[o] \in {"handover", "notify"} <=> at[o] \in {"handover", "notify"}
        /\ at[o] = "wake" => ~MoreToWake(o)
    BY <1>0, <1>1 DEF Inv, TypeOK
  <2>3. UNCHANGED <<psWaiting, marked, target, wpc>>
    BY <1>1 DEF waiting, worker
  <2> QED
    BY <1>1, <2>1, <2>2, <2>3 DEF Settled
<1>5. Stack' /\ NoMoreOwed
  BY <1>0, <1>3, PlainOwes
<1>6. \A w \in Workers : WillOwe(w)' => WillOwe(w)
  BY <1>0, <1>1 DEF WillOwe, Inv, TypeOK, worker
<1>7. NoFaults' /\ Ended' /\ ~Ending
  <2>1. /\ UNCHANGED <<eState, maxThreads, left, aWT, wpc>>
        /\ at'[Main] = at[Main] /\ \A j \in Jobs : at'[j] = at[j] \/ at'[j] # "dropped"
    BY <1>0, <1>1 DEF Inv, TypeOK, threads, worker
  <2>2. /\ aWT' <= maxThreads /\ \A w \in Workers : w <= aWT' => wpc'[w] # "none"
        /\ \A w \in Workers : wpc'[w] = "exited" => wpc[w] = "exited"
    BY <1>0, <2>1 DEF ProceedInv, NoFaults
  <2> QED
    BY <1>2, <2>1, <2>2, OwnerBasics
<1>8. aWT' >= aWT /\ maxThreads' >= maxThreads
  BY <1>0, <1>1 DEF Inv, TypeOK, threads
<1>9. psJobQueue' = psJobQueue
  BY <1>1 DEF jobs
<1> QED
  BY <1>4, <1>5, <1>6, <1>7, <1>8, <1>9, SettledStep

(* Reserve: the guard is exactly what leaves a thread that does not owe.   *)
LEMMA ReserveProceeds ==
  ASSUME Good, TypeOK', NEW o \in Owners, Reserve(o)
  PROVE  ProceedInv'
<1> USE ThreadsAssumption DEF Owners
<1>0. Inv /\ faults = {} /\ ProceedInv
  BY DEF Good
<1>1. /\ UNCHANGED <<jobs, psWaiting, marked, threads, cur, target, left, wakes, worker>>
      /\ at[o] = "submit" /\ at' = [at EXCEPT ![o] = "reserved"]
      /\ SpareThread /\ o \in Jobs
  BY DEF Reserve, Goto
<1>2. Running(o) /\ Alive(o)
  BY <1>1 DEF Running, Alive
<1>3. Plain
  BY <1>0, <1>1 DEF Plain, MovesNoJob, SameHand, Inv, TypeOK, Busy, worker
<1>4. Settled
  BY <1>0, <1>1 DEF Settled, Inv, TypeOK, jobs, worker
<1>5. Stack' /\ NoMoreOwed
  BY <1>0, <1>3, PlainOwes
<1>7. NoFaults' /\ Ended' /\ ~Ending
  <2>1. /\ UNCHANGED <<eState, maxThreads, left, aWT, wpc>>
        /\ at'[Main] = at[Main] /\ \A j \in Jobs : at'[j] = at[j] \/ at'[j] # "dropped"
    BY <1>0, <1>1 DEF Inv, TypeOK, threads, worker
  <2>2. /\ aWT' <= maxThreads /\ \A w \in Workers : w <= aWT' => wpc'[w] # "none"
        /\ \A w \in Workers : wpc'[w] = "exited" => wpc[w] = "exited"
    BY <1>0, <2>1 DEF ProceedInv, NoFaults
  <2> QED
    BY <1>2, <2>1, <2>2, OwnerBasics
<1>8. aWT' >= aWT /\ maxThreads' = maxThreads /\ psJobQueue' = psJobQueue
  BY <1>0, <1>1 DEF Inv, TypeOK, threads, jobs
<1>9. PICK w \in Workers : w <= maxThreads /\ w \notin Busy
  <2>0. /\ aWT \in Nat /\ maxThreads \in Nat /\ aWT <= maxThreads /\ maxThreads <= MaxThreads
        /\ \A v \in Workers : v <= aWT \/ wpc[v] = "none"
    BY <1>0 DEF Inv, TypeOK, ThreadsStarted, ProceedInv, NoFaults, Workers
  <2>1. CASE nWaiting > 0
    <3>1. nWaiting = Len(psWaiting) - Cardinality(Reserved) /\ Cardinality(Reserved) \in Nat
      BY <1>0, FS_Subset, FS_CardinalityType DEF Good, WakeInv, CountOK, Reserved
    <3>2. Len(psWaiting) > 0
      BY <1>0, <2>1, <3>1 DEF Inv, TypeOK
    <3>3. 1 \in DOMAIN psWaiting /\ psWaiting[1] \in Workers
      BY <1>0, <3>2 DEF Inv, TypeOK
    <3>4. marked[psWaiting[1]]
      BY <3>3 DEF Good, WakeInv, ListOK, InList
    <3>5. wpc[psWaiting[1]] \notin {"busy", "none"}
      BY <1>0, <1>7, <3>3, <3>4 DEF ProceedInv, Idle
    <3>6. psWaiting[1] <= maxThreads
      BY <2>0, <3>3, <3>5 DEF Workers
    <3> QED
      BY <3>3, <3>5, <3>6 DEF Busy
  <2>2. CASE aWT < maxThreads
    <3>1. aWT + 1 \in Workers /\ aWT + 1 <= maxThreads /\ wpc[aWT + 1] = "none"
      BY <1>0, <2>0, <2>2 DEF Inv, ThreadsStarted, Workers
    <3> QED
      BY <3>1 DEF Busy
  <2> QED
    BY <1>1, <2>1, <2>2 DEF SpareThread
<1>10. OneSpare'
  <2>1. ~Owes(w) /\ ~WillOwe(w)
    BY <1>0, <1>9, IdleOwesNothing
  <2>2. ~Owes(w)'
    BY <1>5, <2>1 DEF NoMoreOwed
  <2>3. thread[o] \in Busy
    BY <1>0, <1>1, <1>2 DEF ProceedInv, Stack
  <2>4. ~WillOwe(w)'
    BY <1>0, <1>1, <1>9, <2>1, <2>3 DEF WillOwe, Inv, TypeOK, worker
  <2>5. w \in 1 .. maxThreads'
    BY <1>0, <1>8, <1>9 DEF Inv, TypeOK, Workers
  <2> QED
    BY <2>2, <2>4, <2>5 DEF OneSpare
<1> QED
  BY <1>4, <1>5, <1>7, <1>8, <1>10, StartedStays, SettledIdle, SettledActive DEF ProceedInv
-----------------------------------------------------------------------------
(***************************************************************************)
(* The steps that unlink a worker, notify it or put a job into the list.   *)
(***************************************************************************)
LEMMA OneActiveBy ==
  ASSUME NEW w \in Workers, Active(w)'
  PROVE  OneActive'
BY DEF OneActive, Workers

LEMMA NotifyWorkerProceeds ==
  ASSUME Good, TypeOK', NEW o \in Owners, NotifyWorker(o)
  PROVE  ProceedInv'
<1> USE ThreadsAssumption DEF Owners
<1>0. Inv /\ faults = {} /\ ProceedInv
  BY DEF Good
<1>1. /\ UNCHANGED <<jobs, waiting, threads, cur, target, left, wakes, job, thread>>
      /\ at[o] = "notify"
      /\ \E x \in {"run", "relock"} : at' = [at EXCEPT ![o] = x]
  BY DEF NotifyWorker, Goto
<1>2. Running(o) /\ ~Ending
  BY <1>1, NotEnding DEF Running
<1>3. PICK w \in Workers : w = target[o] /\ ~marked[w] /\ wpc[w] = "asleep"
  BY <1>0, <1>1, <1>2 DEF Good, WakeInv, WorkerMutex, ProceedInv, Idle
<1>4. wpc' = [wpc EXCEPT ![w] = "get"]
  BY <1>3 DEF NotifyWorker, Wake
<1>5. wpc'[w] = "get" /\ \A v \in Workers : v # w => wpc'[v] = wpc[v]
  BY <1>0, <1>4 DEF Inv, TypeOK
<1>6. Plain
  <2>1. Busy' = Busy
    BY <1>3, <1>5 DEF Busy
  <2> QED
    BY <1>0, <1>1, <2>1 DEF Plain, MovesNoJob, SameHand, Inv, TypeOK
<1>7. Stack' /\ NoMoreOwed
  BY <1>0, <1>6, PlainOwes
<1>8. \A v \in Workers : WillOwe(v)' => WillOwe(v)
  BY <1>0, <1>1 DEF WillOwe, Inv, TypeOK
<1>9. NoFaults' /\ Ended'
  <2>1. /\ UNCHANGED <<eState, maxThreads, left, aWT>>
        /\ at'[Main] = at[Main] /\ \A j \in Jobs : at'[j] = at[j] \/ at'[j] # "dropped"
    BY <1>0, <1>1 DEF Inv, TypeOK, threads
  <2>2. /\ aWT' <= maxThreads /\ \A v \in Workers : v <= aWT' => wpc'[v] # "none"
        /\ \A v \in Workers : wpc'[v] = "exited" => wpc[v] = "exited"
    BY <1>0, <1>5, <2>1 DEF ProceedInv, NoFaults
  <2> QED
    BY <1>2, <2>1, <2>2, OwnerBasics
<1>10. aWT' >= aWT /\ maxThreads' >= maxThreads /\ psJobQueue' = psJobQueue
  BY <1>0, <1>1 DEF Inv, TypeOK, threads, jobs
<1>11. Idle'
  <2>1. \A p \in Owners : at'[p] \in {"handover", "notify"} => p # o /\ at'[p] = at[p]
    BY <1>0, <1>1 DEF Inv, TypeOK
  <2>2. \A p \in Owners : at'[p] \in {"handover", "notify"} => target[p] # w /\ target[p] \in Workers
    BY <1>0, <1>1, <1>2, <1>3, <2>1 DEF Good, WakeInv, WorkerMutex, ProceedInv, Idle
  <2>3. UNCHANGED <<marked, target>>
    BY <1>1 DEF waiting
  <2> QED
    BY <1>0, <1>2, <1>3, <1>5, <2>1, <2>2, <2>3 DEF ProceedInv, Idle
<1>12. OneActive'
  BY <1>5, OneActiveBy DEF Active
<1> QED
  BY <1>7, <1>8, <1>9, <1>10, <1>11, <1>12, SpareStays, StartedStays DEF ProceedInv

(* Who is unlinked is on its way to its wait or in it, and is active from  *)
(* then on.                                                                *)
LEMMA HandoverIdle ==
  ASSUME Good, NEW o \in Owners, Handover(o), ~Ending
  PROVE  Idle' /\ OneActive'
<1> USE ThreadsAssumption DEF Owners
<1>0. Inv /\ faults = {} /\ ProceedInv /\ WakeInv
  BY DEF Good
<1>1. PICK h \in Workers :
      /\ InList(h) /\ target'[o] = h /\ at'[o] = "handover"
      /\ \A p \in Owners : p # o => at'[p] = at[p] /\ target'[p] = target[p]
      /\ \A w \in Workers : marked'[w] = IF w = h THEN FALSE ELSE marked[w]
  <2>1. Head(psWaiting) \in Workers /\ InList(Head(psWaiting))
    BY <1>0, WaitingTail DEF Inv, TypeOK, Handover, WakeInv, ListOK, InList
  <2> QED
    BY <1>0, <2>1 DEF Inv, TypeOK, Handover
<1>2. \A w \in Workers : wpc'[w] = wpc[w] \/ wpc[w] = "none"
  BY DEF Handover
<1>3. marked[h] /\ wpc[h] \in {"marked", "drowsy", "asleep"}
  BY <1>0, <1>1 DEF WakeInv, ListOK, ProceedInv, Idle
<1>4. wpc[h] # "marked"
  BY <1>0 DEF WakeInv, PoolMutex, Handover
<1>5. \A p \in Owners : at[p] \in {"handover", "notify"} => target[p] \in Workers /\ target[p] # h
  BY <1>0, <1>3 DEF WakeInv, WorkerMutex, ProceedInv, Idle
<1>6. Idle'
  <2>1. \A w \in Workers : marked'[w] => wpc'[w] \in {"marked", "drowsy", "asleep"}
    BY <1>0, <1>1, <1>2 DEF ProceedInv, Idle
  <2>2. \A p \in Owners : at'[p] \in {"handover", "notify"} =>
           ~marked'[target'[p]] /\ wpc'[target'[p]] \in {"drowsy", "asleep"}
    <3>1. ASSUME NEW p \in Owners, at'[p] \in {"handover", "notify"}, p # o
          PROVE  ~marked'[target'[p]] /\ wpc'[target'[p]] \in {"drowsy", "asleep"}
      <4>1. /\ at[p] \in {"handover", "notify"} /\ target'[p] = target[p]
            /\ target[p] \in Workers /\ target[p] # h
        BY <1>1, <1>5, <3>1
      <4>2. ~marked[target[p]] /\ wpc[target[p]] \in {"drowsy", "asleep"}
        BY <1>0, <4>1 DEF ProceedInv, Idle
      <4> QED
        BY <1>1, <1>2, <4>1, <4>2
    <3>2. ~marked'[target'[o]] /\ wpc'[target'[o]] \in {"drowsy", "asleep"}
      BY <1>1, <1>2, <1>3, <1>4
    <3> QED
      BY <3>1, <3>2
  <2>3. ASSUME NEW p \in Owners, NEW q \in Owners, target'[p] = target'[q],
               at'[p] \in {"handover", "notify"}, at'[q] \in {"handover", "notify"}, p # q
        PROVE  FALSE
    <3>1. CASE p = o \/ q = o
      BY <1>1, <1>5, <2>3, <3>1
    <3>2. CASE p # o /\ q # o
      <4>1. /\ at[p] \in {"handover", "notify"} /\ at[q] \in {"handover", "notify"}
            /\ target[p] = target[q]
        BY <1>1, <2>3, <3>2
      <4> QED
        BY <1>0, <2>3, <4>1 DEF ProceedInv, Idle
    <3> QED
      BY <3>1, <3>2
  <2> QED
    BY <2>1, <2>2, <2>3 DEF Idle
<1>7. Coming(h)'
  BY <1>1 DEF Coming
<1> QED
  BY <1>6, <1>7, OneActiveBy DEF Active

LEMMA WakeNextProceeds ==
  ASSUME Good, TypeOK', NEW o \in Owners, WakeNext(o)
  PROVE  ProceedInv'
<1> USE ThreadsAssumption DEF Owners
<1>0. Inv /\ faults = {} /\ ProceedInv
  BY DEF Good
<1>1. /\ UNCHANGED <<jobs, threads, cur, left, worker>> /\ at[o] = "wake"
  BY DEF WakeNext
<1>2. Handover(o) /\ at' = [at EXCEPT ![o] = "handover"]
  BY <1>0, WakeNextUnlinks DEF Handover
<1>3. Running(o) /\ ~Ending
  BY <1>1, NotEnding DEF Running
<1>4. Plain
  BY <1>0, <1>1, <1>2 DEF Plain, MovesNoJob, SameHand, Inv, TypeOK, Busy, worker
<1>5. Stack' /\ NoMoreOwed
  BY <1>0, <1>4, PlainOwes
<1>6. \A v \in Workers : WillOwe(v)' => WillOwe(v)
  BY <1>0, <1>1, <1>2 DEF WillOwe, Inv, TypeOK, worker
<1>7. NoFaults' /\ Ended'
  <2>1. /\ UNCHANGED <<eState, maxThreads, left, aWT, wpc>>
        /\ at'[Main] = at[Main] /\ \A j \in Jobs : at'[j] = at[j] \/ at'[j] # "dropped"
    BY <1>0, <1>1, <1>2 DEF Inv, TypeOK, threads, worker
  <2>2. /\ aWT' <= maxThreads /\ \A v \in Workers : v <= aWT' => wpc'[v] # "none"
        /\ \A v \in Workers : wpc'[v] = "exited" => wpc[v] = "exited"
    BY <1>0, <2>1 DEF ProceedInv, NoFaults
  <2> QED
    BY <1>3, <2>1, <2>2, OwnerBasics
<1>8. aWT' >= aWT /\ maxThreads' >= maxThreads /\ psJobQueue' = psJobQueue
  BY <1>0, <1>1 DEF Inv, TypeOK, threads, jobs
<1>9. Idle' /\ OneActive'
  BY <1>2, <1>3, HandoverIdle
<1> QED
  BY <1>5, <1>6, <1>7, <1>8, <1>9, SpareStays, StartedStays DEF ProceedInv

(* A new job finds a thread started for it, or the one that Reserve left.  *)
LEMMA SomeoneStarted ==
  ASSUME Good, TypeOK', NEW n \in Nat \ {0}, Spawn(Startable(n)),
         NEW S \in SUBSET Workers,
         \A w \in Workers : Owes(w)' => Owes(w) \/ w \in S,
         \A w \in S : w \in Busy /\ (WillOwe(w) \/ Owes(w))
  PROVE  OneStarted'
<1> SUFFICES \E w \in 1 .. aWT' : ~Owes(w)'
  BY DEF OneStarted
<1>0. Inv /\ ProceedInv
  BY DEF Good
<1>1. /\ aWT \in 0 .. MaxThreads /\ maxThreads \in 0 .. MaxThreads /\ aWT <= maxThreads
      /\ MaxThreads \in Nat
  BY <1>0, ThreadsAssumption DEF Inv, TypeOK, ProceedInv, NoFaults
<1>2. aWT' = aWT + Startable(n)
  BY DEF Spawn
<1>3. CASE aWT < maxThreads
  <2>1. aWT + 1 \in Workers /\ aWT + 1 \in 1 .. aWT' /\ aWT + 1 > aWT
    BY <1>1, <1>2, <1>3 DEF Startable, Workers
  <2>2. aWT + 1 \notin Busy
    BY <1>0, <2>1 DEF Inv, ThreadsStarted, Busy
  <2>3. ~Owes(aWT + 1)
    BY <1>0, <2>1, <2>2, IdleOwesNothing
  <2> DEFINE w == aWT + 1
  <2>4. PICK v \in Workers : v \in 1 .. aWT' /\ v \notin Busy /\ ~Owes(v)
    BY <2>1, <2>2, <2>3
  <2> QED
    BY <2>4
<1>4. CASE aWT = maxThreads
  <2>1. aWT' = maxThreads
    BY <1>1, <1>2, <1>4 DEF Startable
  <2>2. PICK w \in 1 .. maxThreads : ~Owes(w) /\ ~WillOwe(w)
    BY <1>0 DEF ProceedInv, OneSpare
  <2>3. w \in Workers
    BY <1>1, <2>2 DEF Workers
  <2> QED
    BY <2>1, <2>2, <2>3
<1> QED
  BY <1>1, <1>3, <1>4

LEMMA EnqueueProceeds ==
  ASSUME Good, TypeOK', NEW o \in Owners, Enqueue(o)
  PROVE  ProceedInv'
<1> USE ThreadsAssumption DEF Owners
<1>0. Inv /\ faults = {} /\ ProceedInv
  BY DEF Good
<1>1. /\ UNCHANGED <<maxThreads, eState, cur, left, wakes, job, thread>>
      /\ at[o] \in {"submit", "reserved"} /\ (at[o] = "reserved" <=> o \in Jobs)
      /\ Spawn(Startable(1)) /\ ~m_mutex
  BY <1>0 DEF Enqueue, ReadyToQueue
<1>2. \E x \in {"run", "handover"} : at' = [at EXCEPT ![o] = x]
  BY DEF Enqueue, Unlink, Goto
<1>3. Running(o) /\ ~Ending /\ Alive(o)
  BY <1>1, NotEnding DEF Running, Alive
<1>4. /\ Startable(1) \in Nat /\ aWT' = aWT + Startable(1) /\ aWT' \in 0 .. MaxThreads
      /\ \A w \in Workers : wpc[w] # "none" => wpc'[w] = wpc[w]
      /\ Busy' = Busy
  BY <1>0, <1>1, SpawnFacts
<1>5. MovesNoJob /\ \A j \in Jobs : j # o => SameHand(j)
  BY <1>0, <1>1, <1>2, <1>4 DEF MovesNoJob, SameHand, Inv, TypeOK
<1>6. Stack'
  BY <1>0, <1>5, MovesStack
<1>7. \A w \in Workers : Owes(w)' => Owes(w) \/ (o \in Jobs /\ thread[o] = w)
  BY <1>5, MovesOwe
<1>8. o \in Jobs => thread[o] \in Busy /\ WillOwe(thread[o])
  BY <1>0, <1>1, <1>3 DEF ProceedInv, Stack, WillOwe
<1>9. OneSpare'
  <2>1. PICK w \in 1 .. maxThreads : ~Owes(w) /\ ~WillOwe(w)
    BY <1>0 DEF ProceedInv, OneSpare
  <2>2. w \in Workers
    BY <1>0, <2>1 DEF Workers, Inv, TypeOK
  <2>3. ~Owes(w)'
    BY <1>7, <1>8, <2>1, <2>2
  <2>4. ~WillOwe(w)'
    BY <1>0, <1>1, <1>2, <2>1 DEF WillOwe, Inv, TypeOK
  <2> QED
    BY <1>1, <2>1, <2>3, <2>4 DEF OneSpare
<1>10. OneStarted'
  <2> DEFINE S == {w \in Workers : o \in Jobs /\ thread[o] = w}
  <2>1. \A w \in S : w \in Busy /\ (WillOwe(w) \/ Owes(w))
    BY <1>8
  <2>2. \A w \in Workers : Owes(w)' => Owes(w) \/ w \in S
    BY <1>7
  <2>3. S \in SUBSET Workers
    OBVIOUS
  <2> HIDE DEF S
  <2> QED
    BY <1>1, <2>1, <2>2, <2>3, SomeoneStarted
<1>11. NoFaults' /\ Ended'
  <2>1. /\ UNCHANGED <<eState, maxThreads, left>>
        /\ at'[Main] = at[Main] /\ \A j \in Jobs : at'[j] = at[j] \/ at'[j] # "dropped"
    BY <1>0, <1>1, <1>2 DEF Inv, TypeOK
  <2>2. aWT' <= maxThreads
    BY <1>0, <1>4 DEF ProceedInv, NoFaults, Startable, Inv, TypeOK
  <2>3. \A w \in Workers : wpc'[w] = IF aWT < w /\ w <= aWT' THEN "get" ELSE wpc[w]
    BY <1>1, <1>4 DEF Spawn
  <2>4. /\ \A w \in Workers : w <= aWT' => wpc'[w] # "none"
        /\ \A w \in Workers : wpc'[w] = "exited" => wpc[w] = "exited"
    <3>1. \A w \in Workers : w <= aWT => wpc[w] # "none"
      BY <1>0 DEF ProceedInv, NoFaults
    <3>2. aWT \in Int /\ aWT' \in Int /\ Workers \subseteq Int
      BY <1>0, <1>4 DEF Inv, TypeOK, Workers
    <3> QED
      BY <2>3, <3>1, <3>2
  <2> QED
    BY <1>3, <2>1, <2>2, <2>4, OwnerBasics
<1>12. CASE psWaiting # <<>>
  <2>1. Handover(o)
    BY <1>0, <1>12, EnqueueUnlinks
  <2> QED
    BY <1>3, <1>6, <1>9, <1>10, <1>11, <2>1, HandoverIdle DEF ProceedInv
<1>13. CASE psWaiting = <<>>
  <2>1. /\ UNCHANGED <<psWaiting, marked, target>> /\ at' = [at EXCEPT ![o] = "run"]
    BY <1>13 DEF Enqueue, Unlink, Goto
  <2>2. Settled
    BY <1>0, <1>1, <1>4, <2>1 DEF Settled, Inv, TypeOK
  <2>3. Idle'
    BY <1>3, <2>2, SettledIdle
  <2>4. OneActive'
    BY <1>13, <2>1 DEF OneActive
  <2> QED
    BY <1>6, <1>9, <1>10, <1>11, <2>3, <2>4 DEF ProceedInv
<1> QED
  BY <1>12, <1>13

LEMMA SubmitJobsProceeds ==
  ASSUME Good, TypeOK', NEW o \in Owners, SubmitJobs(o)
  PROVE  ProceedInv'
<1> USE ThreadsAssumption DEF Owners
<1> DEFINE n == Cardinality(Children(o))
<1>0. Inv /\ faults = {} /\ ProceedInv
  BY DEF Good
<1>1. /\ UNCHANGED <<waiting, maxThreads, eState, cur, target, left, job, thread>>
      /\ at[o] = "run" /\ o \in Clients /\ Spawn(Startable(n)) /\ ~m_mutex
      /\ \E q \in Listings(Children(o)) : psJobQueue' = q \o psJobQueue
      /\ wakes' = [wakes EXCEPT ![o] = n]
      /\ at' = [p \in DOMAIN at |-> IF p \in Children(o) THEN "submitted"
                                    ELSE IF p = o THEN "wake" ELSE at[p]]
  BY <1>0 DEF SubmitJobs, Serving, Started
<1>2. n \in Nat
  BY FiniteSubsets, FS_CardinalityType
<1>3. Running(o) /\ ~Ending
  BY <1>1, NotEnding DEF Running
<1>a. wakes'[o] = n
  BY <1>0, <1>1 DEF Inv, TypeOK
<1> HIDE DEF n
<1>4. /\ Startable(n) \in Nat /\ aWT' = aWT + Startable(n) /\ aWT' \in 0 .. MaxThreads
      /\ \A w \in Workers : wpc[w] # "none" => wpc'[w] = wpc[w]
  BY <1>0, <1>1, <1>2, SpawnFacts
<1>5. Stack' /\ NoMoreOwed
  BY <1>0, SubmitJobsOwes
<1>6. \A p \in Owners : \/ p # o /\ at'[p] = at[p]
                        \/ p \in Jobs /\ at'[p] = "submitted" /\ at[p] = "new"
                        \/ p = o /\ at'[p] = "wake"
  <2>1. o \in Clients \cap Batch /\ Children(o) \subseteq Jobs
    BY DEF SubmitJobs, Children
  <2>2. \A k \in Children(o) : at[k] = "new"
    BY <1>0, <1>1, <2>1 DEF Inv, Stages, BatchClients
  <2>3. DOMAIN at = Owners \cup {Main}
    BY <1>0 DEF Inv, TypeOK
  <2> QED
    BY <1>1, <2>1, <2>2, <2>3
<1>7. \A v \in Workers : WillOwe(v)' => WillOwe(v)
  BY <1>1, <1>6 DEF WillOwe
<1>8. NoFaults' /\ Ended'
  <2>0. at'[Main] = at[Main]
    BY <1>0, <1>1 DEF Inv, TypeOK, Children
  <2>1. /\ UNCHANGED <<eState, maxThreads, left>>
        /\ \A j \in Jobs : at'[j] = at[j] \/ at'[j] # "dropped"
    BY <1>1, <1>6
  <2>2. aWT' <= maxThreads
    BY <1>0, <1>2, <1>4 DEF ProceedInv, NoFaults, Startable, Inv, TypeOK
  <2>3. \A w \in Workers : wpc'[w] = IF aWT < w /\ w <= aWT' THEN "get" ELSE wpc[w]
    BY <1>1, <1>4 DEF Spawn
  <2>4. /\ \A w \in Workers : w <= aWT' => wpc'[w] # "none"
        /\ \A w \in Workers : wpc'[w] = "exited" => wpc[w] = "exited"
    <3>1. \A w \in Workers : w <= aWT => wpc[w] # "none"
      BY <1>0 DEF ProceedInv, NoFaults
    <3>2. aWT \in Int /\ aWT' \in Int /\ Workers \subseteq Int
      BY <1>0, <1>4 DEF Inv, TypeOK, Workers
    <3> QED
      BY <2>3, <3>1, <3>2
  <2> QED
    BY <1>3, <2>0, <2>1, <2>2, <2>4, OwnerBasics
<1>9. Settled
  <2>1. \A p \in Owners : at[p] # "wake"
    BY <1>0, <1>1 DEF Good, WakeInv, PoolMutex
  <2> QED
    BY <1>1, <1>4, <1>6, <2>1 DEF Settled, waiting
<1>10. Idle'
  BY <1>3, <1>9, SettledIdle
<1>11. maxThreads' >= maxThreads /\ aWT' >= aWT
  BY <1>0, <1>1, <1>4 DEF Inv, TypeOK
<1>12. OneSpare'
  BY <1>5, <1>7, <1>11, SpareStays
<1>13. CASE n = 0
  <2>1. psJobQueue' = psJobQueue
    <3>1. PICK q \in Listings(Children(o)) : psJobQueue' = q \o psJobQueue
      BY <1>1
    <3>2. q = <<>> /\ psJobQueue \in Seq(Jobs)
      BY <1>0, <1>13, <3>1 DEF Listings, Inv, TypeOK, n
    <3> QED
      BY <3>1, <3>2
  <2> QED
    BY <1>5, <1>8, <1>9, <1>10, <1>11, <1>12, <2>1, StartedStays, SettledActive DEF ProceedInv
<1>14. CASE n # 0
  <2>1. OneStarted'
    BY <1>1, <1>2, <1>5, <1>14, SomeoneStarted, Zenon DEF NoMoreOwed
  <2>2. OneActive'
    <3>1. at'[o] = "wake" /\ wakes'[o] > 0
      <4>1. o \notin Jobs
        BY <1>1
      <4> QED
        BY <1>2, <1>6, <1>a, <1>14, <4>1
    <3> QED
      BY <1>1, <3>1 DEF OneActive, MoreToWake
  <2> QED
    BY <1>5, <1>8, <1>10, <1>12, <2>1, <2>2 DEF ProceedInv
<1> QED
  BY <1>13, <1>14
-----------------------------------------------------------------------------
(***************************************************************************)
(* The workers and the thread that sets the pool up and destroys it.       *)
(***************************************************************************)
LEMMA CalmIdle ==
  ASSUME Good, Calm, Ending => Ending'
  PROVE  Idle'
<1>1. \A o \in Owners : at'[o] \in {"handover", "notify"} <=> at[o] \in {"handover", "notify"}
  BY DEF Calm
<1>2. \A o \in Owners : at[o] \in {"handover", "notify"} => target[o] \in Workers
  BY DEF Good, WakeInv, WorkerMutex
<1>3. \A w \in Workers : wpc[w] \in {"marked", "drowsy", "asleep"} => wpc'[w] = wpc[w]
  BY DEF Calm
<1>4. target' = target /\ marked' = marked
  BY DEF Calm
<1> QED
  BY <1>1, <1>2, <1>3, <1>4 DEF Good, ProceedInv, Idle

LEMMA GetJobProceeds ==
  ASSUME Good, TypeOK', NEW w \in Workers, GetJob(w)
  PROVE  ProceedInv'
<1> USE ThreadsAssumption DEF Owners
<1>0. Inv /\ faults = {} /\ ProceedInv
  BY DEF Good
<1>1. Calm
  BY <1>0, CalmOthers
<1>2. PICK j \in Jobs :
      /\ UNCHANGED <<aWT, maxThreads, eState, left>> /\ psJobQueue # <<>>
      /\ wpc[w] = "get" /\ wpc' = [wpc EXCEPT ![w] = "busy"]
      /\ thread' = [thread EXCEPT ![j] = w]
      /\ at[j] = "submitted" /\ at' = [at EXCEPT ![j] = "run"]
  <2>1. psJobQueue \in Seq(Jobs) /\ psJobQueue # <<>>
    BY <1>0 DEF Inv, TypeOK, GetJob
  <2>2. Head(psJobQueue) \in Jobs /\ at[Head(psJobQueue)] = "submitted"
    BY <1>0, <2>1, TailFacts DEF Inv, JobsAccounted
  <2> QED
    BY <2>1, <2>2 DEF GetJob, Goto, threads
<1>3. ~Ending /\ ~Ending'
  BY <1>0, <1>2 DEF ProceedInv, Ended, Ending, Inv, TypeOK
<1>4. Stack' /\ NoMoreOwed
  BY <1>0, GetJobOwes
<1>5. \A v \in Workers : WillOwe(v)' => WillOwe(v)
  BY <1>0, <1>2 DEF WillOwe, Inv, TypeOK
<1>6. NoFaults'
  BY <1>0, <1>2, <1>3 DEF ProceedInv, NoFaults, Inv, TypeOK, Ending
<1>7. Ended'
  BY <1>3 DEF Ended
<1>8. maxThreads' >= maxThreads /\ aWT' >= aWT
  BY <1>0, <1>2 DEF Inv, TypeOK
<1>9. OneActive'
  <2>1. w \notin Busy /\ wpc'[w] = "busy"
    BY <1>0, <1>2 DEF Busy, Inv, TypeOK
  <2>2. ~Owes(w)'
    BY <1>0, <1>4, <2>1, IdleOwesNothing DEF NoMoreOwed
  <2> QED
    BY <2>1, <2>2, OneActiveBy DEF Active
<1> QED
  BY <1>1, <1>2, <1>3, <1>4, <1>5, <1>6, <1>7, <1>8, <1>9, CalmIdle, SpareStays, StartedStays
     DEF ProceedInv

LEMMA DeclareJobFinishedProceeds ==
  ASSUME Good, TypeOK', NEW w \in Workers, DeclareJobFinished(w)
  PROVE  ProceedInv'
<1> USE ThreadsAssumption DEF Owners
<1>0. Inv /\ faults = {} /\ ProceedInv
  BY DEF Good
<1>1. Calm
  BY <1>0, CalmOthers
<1>2. /\ UNCHANGED <<psJobQueue, aWT, maxThreads, eState, left, at, thread>>
      /\ wpc[w] = "busy" /\ wpc' = [wpc EXCEPT ![w] = "get"]
  BY DEF DeclareJobFinished, threads, owner
<1>3. ~Ending /\ ~Ending'
  BY <1>0, <1>2 DEF ProceedInv, Ended, Busy, Ending
<1>4. Stack' /\ NoMoreOwed
  BY <1>0, DeclareJobFinishedOwes
<1>5. \A v \in Workers : WillOwe(v)' => WillOwe(v)
  BY <1>2 DEF WillOwe
<1>6. NoFaults'
  BY <1>0, <1>2, <1>3 DEF ProceedInv, NoFaults, Inv, TypeOK, Ending
<1>7. Ended'
  BY <1>3 DEF Ended
<1>8. maxThreads' >= maxThreads /\ aWT' >= aWT
  BY <1>0, <1>2 DEF Inv, TypeOK
<1>9. OneActive'
  BY <1>0, <1>2, OneActiveBy DEF Active, Inv, TypeOK
<1> QED
  BY <1>1, <1>2, <1>3, <1>4, <1>5, <1>6, <1>7, <1>8, <1>9, CalmIdle, SpareStays, StartedStays
     DEF ProceedInv

LEMMA MarkAsWaitingProceeds ==
  ASSUME Good, TypeOK', NEW w \in Workers, MarkAsWaiting(w)
  PROVE  ProceedInv'
<1> USE ThreadsAssumption DEF Owners
<1>0. Inv /\ faults = {} /\ ProceedInv
  BY DEF Good
<1>1. /\ UNCHANGED <<psJobQueue, aWT, maxThreads, eState, at, cur, target, left, job, thread>>
      /\ wpc[w] = "get" /\ wpc' = [wpc EXCEPT ![w] = "marked"] /\ psJobQueue = <<>>
  BY DEF MarkAsWaiting, NothingToDo, jobs, threads, owner
<1>2. \A v \in Workers : v # w => marked'[v] = marked[v] /\ wpc'[v] = wpc[v]
  BY <1>0, <1>1 DEF MarkAsWaiting, Inv, TypeOK, waiting
<1>3. wpc'[w] = "marked"
  BY <1>0, <1>1 DEF Inv, TypeOK
<1>4. Busy' = Busy
  BY <1>1, <1>2, <1>3 DEF Busy
<1>5. Plain
  BY <1>1, <1>4 DEF Plain, MovesNoJob, SameHand
<1>6. Stack' /\ NoMoreOwed
  BY <1>0, <1>5, PlainOwes
<1>7. \A v \in Workers : WillOwe(v)' => WillOwe(v)
  BY <1>1 DEF WillOwe
<1>8. NoFaults' /\ Ended'
  BY <1>0, <1>1, <1>2, <1>3, <1>4 DEF ProceedInv, NoFaults, Ended, Ending
<1>9. Idle'
  <2>1. \A o \in Owners : at[o] \in {"handover", "notify"} => target[o] \in Workers
    BY DEF Good, WakeInv, WorkerMutex
  <2>2. Ending' <=> Ending
    BY <1>1 DEF Ending
  <2>3. ~Ending => \A o \in Owners : at[o] \in {"handover", "notify"} => target[o] # w
    BY <1>0, <1>1 DEF ProceedInv, Idle
  <2> QED
    BY <1>0, <1>1, <1>2, <1>3, <2>1, <2>2, <2>3 DEF ProceedInv, Idle
<1>10. maxThreads' >= maxThreads
  BY <1>0, <1>1 DEF Inv, TypeOK
<1>11. OneSpare'
  BY <1>6, <1>7, <1>10, SpareStays
<1>12. OneStarted' /\ OneActive'
  BY <1>1 DEF OneStarted, OneActive
<1> QED
  BY <1>6, <1>8, <1>9, <1>11, <1>12 DEF ProceedInv

(* Once the pool is being destroyed there is nothing left to prove but     *)
(* that it stays so.                                                       *)
LEMMA EndingStep ==
  ASSUME Good, TypeOK', Ending, Ending', Plain, NoFaults',
         UNCHANGED <<psJobQueue, maxThreads>>, \A o \in Owners : at'[o] = at[o]
  PROVE  ProceedInv'
<1>0. Inv /\ ProceedInv
  BY DEF Good
<1>1. Stack' /\ NoMoreOwed
  BY <1>0, PlainOwes
<1>2. Ended'
  BY <1>0 DEF ProceedInv, Ended, Plain, MovesNoJob, Owners
<1>3. OneStarted' /\ OneActive' /\ Idle'
  BY <1>0 DEF ProceedInv, Ended, OneStarted, OneActive, Idle
<1>4. \A w \in Workers : WillOwe(w)' => WillOwe(w)
  BY DEF WillOwe, Plain, MovesNoJob, Owners
<1>5. OneSpare'
  BY <1>0, <1>1, <1>4, SpareStays DEF Inv, TypeOK
<1> QED
  BY <1>1, <1>2, <1>3, <1>5 DEF ProceedInv

LEMMA EndingProceeds ==
  ASSUME Good, TypeOK', Stop \/ NotifyStop \/ Join \/ \E w \in Workers : StopWorker(w)
  PROVE  ProceedInv'
<1> USE ThreadsAssumption DEF Owners
<1>0. Inv /\ faults = {} /\ ProceedInv
  BY DEF Good
<1>1. UNCHANGED <<psJobQueue, maxThreads, aWT, cur, left, job, thread>>
  BY DEF Stop, NotifyStop, Join, StopWorker, jobs, threads, owner, worker
<1>2. /\ Ending
      /\ \/ at' = at
         \/ \E x \in {"join", "joining"} : at' = [at EXCEPT ![Main] = x]
      /\ eState' = "stop" => eState = "stop" \/ at'[Main] = "join"
  BY <1>0 DEF Stop, NotifyStop, Join, StopWorker, Goto, Ending, ProceedInv, NoFaults, threads, owner,
              Inv, TypeOK
<1>3. Ending' /\ \A o \in Owners : at'[o] = at[o]
  BY <1>0, <1>2 DEF Ending, Inv, TypeOK
<1>4. \A w \in Workers : \/ wpc'[w] = wpc[w]
                         \/ wpc[w] \in {"asleep", "get"} /\ wpc'[w] \in {"get", "exited"}
  BY <1>0 DEF Stop, NotifyStop, Join, StopWorker, Wake, worker, Inv, TypeOK
<1>5. Busy' = Busy
  BY <1>4 DEF Busy
<1>6. Plain
  BY <1>1, <1>3, <1>5 DEF Plain, MovesNoJob, SameHand
<1>7. NoFaults'
  <2>1. \A w \in Workers : wpc[w] # "none" => wpc'[w] # "none"
    BY <1>4
  <2>2. eState' = "stop" => at'[Main] \in {"join", "joining"}
    BY <1>0, <1>2 DEF ProceedInv, NoFaults, Inv, TypeOK
  <2> QED
    BY <1>0, <1>1, <1>3, <2>1, <2>2 DEF ProceedInv, NoFaults
<1> QED
  BY <1>1, <1>2, <1>3, <1>6, <1>7, EndingStep

LEMMA PlainOthersProceed ==
  ASSUME Good, TypeOK',
         \/ SetupStep \/ DestroyWait \/ \E n \in Workers : Resize(n)
         \/ \E w \in Workers : TakeOwnMutex(w) \/ Sleep(w)
         \/ UNCHANGED vars
  PROVE  ProceedInv'
<1> USE ThreadsAssumption DEF Owners
<1>0. Inv /\ faults = {} /\ ProceedInv
  BY DEF Good
<1>1. UNCHANGED <<psJobQueue, psWaiting, marked, eState, cur, target, left, wakes, job, thread>>
  BY <1>0 DEF SetupStep, SetupLazily, SetupThread, SetupFails, SetupWait, DestroyWait, Resize,
       TakeOwnMutex, Sleep, vars, jobs, waiting, threads, owner, worker
<1>2. /\ aWT' = aWT \/ (aWT < maxThreads /\ aWT' = aWT + 1)
      /\ maxThreads' = maxThreads \/ (maxThreads' \in Workers /\ maxThreads' > maxThreads)
      /\ aWT' <= maxThreads'
  BY <1>0 DEF SetupStep, SetupLazily, SetupThread, SetupFails, SetupWait, DestroyWait, Resize, Spawn,
       TakeOwnMutex, Sleep, vars, jobs, waiting, threads, owner, worker, Inv, TypeOK, ProceedInv,
       NoFaults, Workers
<1>3. \A w \in Workers :
        \/ wpc'[w] = wpc[w]
        \/ wpc[w] = "marked" /\ wpc'[w] = "drowsy"
        \/ wpc[w] = "drowsy" /\ wpc'[w] = "asleep"
        \/ wpc[w] = "none" /\ wpc'[w] = "get"
  BY <1>0 DEF SetupStep, SetupLazily, SetupThread, SetupFails, SetupWait, DestroyWait, Resize, Spawn,
       TakeOwnMutex, Sleep, vars, worker, Inv, TypeOK, ThreadsStarted
<1>4. \A w \in Workers : w <= aWT' => wpc'[w] # "none"
  <2>1. \A w \in Workers : w <= aWT => wpc[w] # "none"
    BY <1>0 DEF ProceedInv, NoFaults
  <2>2. CASE aWT' = aWT
    BY <1>3, <2>1, <2>2
  <2>3. CASE aWT' # aWT
    <3>1. Spawn(1)
      BY <1>0, <2>3 DEF SetupStep, SetupLazily, SetupThread, SetupFails, SetupWait, DestroyWait,
           Resize, TakeOwnMutex, Sleep, vars, threads
    <3>2. aWT \in Int /\ Workers \subseteq Int
      BY <1>0 DEF Inv, TypeOK, Workers
    <3> QED
      BY <2>1, <3>1, <3>2 DEF Spawn
  <2> QED
    BY <2>2, <2>3
<1>5. \/ at' = at
      \/ at[Main] = "setup" /\ at' = [at EXCEPT ![Main] = "serving"]
      \/ at[Main] = "serving" /\ at' = [at EXCEPT ![Main] = "stop"]
         /\ nPendingJobs = 0 /\ \A c \in Clients : at[c] = "done"
      \/ /\ at[Main] = "setup"
         /\ at' = [o \in DOMAIN at |-> IF o \in Clients THEN "done"
                                       ELSE IF o = Main THEN "serving" ELSE at[o]]
  BY <1>0 DEF SetupStep, SetupLazily, SetupThread, SetupFails, SetupWait, Abandon, DestroyWait,
       WaitCompletion, Resize, TakeOwnMutex, Sleep, vars, owner, Goto, Inv, TypeOK
<1>6. /\ \A o \in Owners : at'[o] = at[o] \/ (at[o] = "run" /\ o \in Clients /\ at'[o] = "done")
      /\ \/ at'[Main] = at[Main]
         \/ at[Main] = "setup" /\ at'[Main] = "serving"
         \/ at[Main] = "serving" /\ at'[Main] = "stop"
            /\ nPendingJobs = 0 /\ \A c \in Clients : at[c] = "done"
  BY <1>0, <1>5 DEF Inv, TypeOK, Places
<1>7. Busy' = Busy
  BY <1>3 DEF Busy
<1>8. Plain
  BY <1>1, <1>6, <1>7 DEF Plain, MovesNoJob, SameHand
<1>9. Settled
  BY <1>1, <1>3, <1>6 DEF Settled
<1>10. Stack' /\ NoMoreOwed
  BY <1>0, <1>8, PlainOwes
<1>11. \A w \in Workers : WillOwe(w)' => WillOwe(w)
  BY <1>1, <1>6 DEF WillOwe
<1>12. aWT' >= aWT /\ maxThreads' >= maxThreads
  BY <1>0, <1>2 DEF Inv, TypeOK, Workers
<1>13. Ending => Ending'
  BY <1>6 DEF Ending
<1>14. NoFaults'
  <2>1. \A j \in Jobs : at'[j] # "dropped"
    BY <1>0, <1>6 DEF ProceedInv, NoFaults
  <2>2. maxThreads' >= 1
    BY <1>0, <1>2 DEF ProceedInv, NoFaults, Workers
  <2>3. eState' = "stop" => at'[Main] \in {"join", "joining"}
    BY <1>0, <1>1, <1>6 DEF ProceedInv, NoFaults
  <2>4. ~Ending' => \A w \in Workers : wpc'[w] # "exited"
    BY <1>0, <1>3, <1>13 DEF ProceedInv, NoFaults
  <2> QED
    BY <1>0, <1>1, <1>2, <1>4, <2>1, <2>2, <2>3, <2>4 DEF ProceedInv, NoFaults
<1>15. Ended'
  <2>1. CASE Ending
    BY <1>0, <1>1, <1>6, <1>7, <2>1 DEF ProceedInv, Ended
  <2>2. CASE ~Ending /\ Ending'
    <3>1. nPendingJobs = 0 /\ \A c \in Clients : at[c] = "done"
      BY <1>6, <2>2 DEF Ending
    <3>2. /\ nPendingJobs = Len(psJobQueue) + Cardinality(Busy)
          /\ Len(psJobQueue) \in Nat /\ Cardinality(Busy) \in Nat
          /\ psJobQueue \in Seq(Jobs)
      BY <1>0, FiniteSubsets, FS_CardinalityType DEF Inv, TypeOK, JobsAccounted
    <3>3. Len(psJobQueue) = 0 /\ Cardinality(Busy) = 0
      BY <3>1, <3>2
    <3>4. psJobQueue = <<>> /\ Busy = {}
      BY <3>2, <3>3, FiniteSubsets, FS_EmptySet
    <3> QED
      BY <1>1, <1>6, <1>7, <3>1, <3>4 DEF Ended
  <2>3. CASE ~Ending'
    BY <2>3 DEF Ended
  <2> QED
    BY <2>1, <2>2, <2>3
<1> QED
  BY <1>1, <1>9, <1>10, <1>11, <1>12, <1>13, <1>14, <1>15, SettledStep
-----------------------------------------------------------------------------
LEMMA ProceedInvInit ==
  ASSUME Init
  PROVE  ProceedInv
<1> USE ThreadsAssumption DEF Owners
<1>1. /\ \A j \in Jobs : at[j] = "new" /\ ~Alive(j)
      /\ \A c \in Clients : at[c] = "run"
      /\ at[Main] = "setup" /\ ~Ending
  BY DEF Init, Alive, Ending
<1>2. NoFaults
  BY <1>1 DEF Init, NoFaults, Workers
<1>3. Ended
  BY <1>1 DEF Ended
<1>4. Stack
  BY <1>1 DEF Stack
<1>5. Idle
  BY <1>1 DEF Init, Idle
<1>6. OneSpare
  <2>1. \A w \in Workers : ~Owes(w) /\ ~WillOwe(w)
    BY <1>1 DEF Owes, WillOwe
  <2>2. 1 \in Workers /\ maxThreads \in Workers
    BY DEF Init, Workers
  <2> QED
    BY <2>1, <2>2 DEF OneSpare, Workers
<1>7. OneStarted /\ OneActive
  BY DEF Init, OneStarted, OneActive
<1> QED
  BY <1>2, <1>3, <1>4, <1>5, <1>6, <1>7 DEF ProceedInv

LEMMA FaultsStay ==
  ASSUME [Next]_vars
  PROVE  faults' = faults
<1>1. ASSUME MainStep PROVE faults' = faults
  BY <1>1 DEF MainStep, SetupStep, SetupLazily, SetupThread, SetupFails, SetupWait, DestroyWait,
              Stop, NotifyStop, Join
<1>2. ASSUME NEW n \in Workers, Resize(n) PROVE faults' = faults
  BY <1>2 DEF Resize
<1>3. ASSUME NEW o \in Owners, OwnerStep(o) PROVE faults' = faults
  BY <1>3 DEF OwnerStep, QueueSubmit, RunBatchHere, Reserve, RunSynchronously, RunReturns,
              SubmitFails, Enqueue, TakeWorkerMutex, NotifyWorker, SubmitJobs, SubmitJobsFails,
              WakeNext, Relock, WakeDone, PoolWait, QueueWait, JobReturns
<1>4. ASSUME NEW w \in Workers, WorkerStep(w) \/ SpuriousWakeup(w) PROVE faults' = faults
  BY <1>4 DEF WorkerStep, GetJob, StopWorker, MarkAsWaiting, MarkFails, TakeOwnMutex, Sleep,
              DeclareJobFinished, SpuriousWakeup
<1>5. ASSUME UNCHANGED vars PROVE faults' = faults
  BY <1>5 DEF vars
<1> QED
  BY <1>1, <1>2, <1>3, <1>4, <1>5 DEF Next

LEMMA ProceedInvStep ==
  ASSUME Good, Inv', [Next]_vars
  PROVE  faults' = {} /\ ProceedInv'
<1>0. faults = {} /\ TypeOK'
  BY DEF Good, Inv
<1>1. faults' = faults
  BY FaultsStay
<1>2. CASE MainStep \/ \E n \in Workers : Resize(n)
  BY <1>0, <1>1, <1>2, PlainOthersProceed, EndingProceeds DEF MainStep
<1>3. CASE \E o \in Owners : OwnerStep(o)
  <2>1. \A o \in Owners : ~SubmitFails(o)
    BY <1>0 DEF SubmitFails
  <2> QED
    BY <1>0, <1>1, <1>3, <2>1, CalmOwnerProceeds, PlainOwnerProceeds, ReserveProceeds, NotifyWorkerProceeds,
       WakeNextProceeds, EnqueueProceeds, SubmitJobsProceeds DEF OwnerStep
<1>4. CASE \E w \in Workers : WorkerStep(w) \/ SpuriousWakeup(w)
  <2>1. \A w \in Workers : ~MarkFails(w) /\ ~SpuriousWakeup(w)
    BY <1>0 DEF MarkFails, SpuriousWakeup
  <2> QED
    BY <1>0, <1>1, <1>4, <2>1, GetJobProceeds, DeclareJobFinishedProceeds, MarkAsWaitingProceeds,
       EndingProceeds, PlainOthersProceed DEF WorkerStep
<1>5. CASE UNCHANGED vars
  BY <1>0, <1>1, <1>5, PlainOthersProceed
<1> QED
  BY <1>0, <1>1, <1>2, <1>3, <1>4, <1>5 DEF Next

(* A thread one of whose jobs waits owes jobs to the others.               *)
LEMMA BlockedOwes ==
  ASSUME Good, NEW w \in Workers, Blocked(w)
  PROVE  Owes(w)
<1>0. Inv /\ ProceedInv
  BY DEF Good
<1>1. PICK j \in Jobs : thread[j] = w /\ at[j] = "run" /\ left[j] # 0
  BY DEF Blocked, Submitted, QueueDone
<1>2. Outstanding(j) # {}
  <2>1. left[j] = Cardinality(Outstanding(j))
    BY <1>0, <1>1 DEF ProceedInv, NoFaults, Inv, Stages, Counting, Owners
  <2> QED
    BY <1>1, <2>1, FS_EmptySet
<1>3. Alive(j) /\ Left(j) # {}
  BY <1>1, <1>2 DEF Alive, Left
<1> QED
  BY <1>1, <1>3 DEF Owes

LEMMA GoodProceeds == Good => NestedJobsProceed
<1> SUFFICES ASSUME Good, psJobQueue # <<>>
             PROVE  \/ \E w \in 1 .. aWT : \/ wpc[w] = "get" \/ Coming(w)
                                          \/ (wpc[w] = "busy" /\ ~Blocked(w))
                    \/ \E c \in Clients : at[c] = "wake" /\ MoreToWake(c)
  BY DEF NestedJobsProceed
<1> USE ThreadsAssumption
<1>0. Inv /\ WakeInv /\ ProceedInv /\ faults = {}
  BY DEF Good
<1>1. ~Ending
  BY <1>0 DEF ProceedInv, Ended
<1>2. \A w \in Workers : Active(w) =>
        w \in 1 .. aWT /\ (wpc[w] = "get" \/ Coming(w) \/ (wpc[w] = "busy" /\ ~Blocked(w)))
  <2> SUFFICES ASSUME NEW w \in Workers, Active(w)
               PROVE  w \in 1 .. aWT /\ (wpc[w] = "get" \/ Coming(w) \/ (wpc[w] = "busy" /\ ~Blocked(w)))
    OBVIOUS
  <2>1. wpc[w] = "get" \/ Coming(w) \/ (wpc[w] = "busy" /\ ~Blocked(w))
    BY BlockedOwes DEF Active
  <2>2. wpc[w] # "none"
    BY <1>0, <1>1 DEF Active, Coming, ProceedInv, Idle
  <2>3. w \in 1 .. aWT
    BY <1>0, <2>2 DEF Inv, TypeOK, ThreadsStarted, Workers
  <2> QED
    BY <2>1, <2>3
<1>3. PICK w \in Workers : w \in 1 .. aWT /\ ~Owes(w)
  <2>1. 1 .. aWT \subseteq Workers
    BY <1>0 DEF Inv, TypeOK, Workers
  <2> QED
    BY <1>0, <2>1 DEF ProceedInv, OneStarted
<1>4. wpc[w] \in {"get", "busy", "marked", "drowsy", "asleep"}
  BY <1>0, <1>1, <1>3 DEF Inv, TypeOK, ProceedInv, NoFaults
<1>5. CASE wpc[w] \in {"get", "busy"}
  BY <1>2, <1>3, <1>5 DEF Active
<1>6. CASE wpc[w] \in {"marked", "drowsy", "asleep"}
  <2>1. marked[w] \/ Coming(w)
    BY <1>0, <1>6 DEF WakeInv, Awaited, Coming
  <2>2. CASE Coming(w)
    BY <1>3, <2>2
  <2>3. CASE marked[w]
    <3>1. psWaiting # <<>>
      BY <1>0, <2>3 DEF WakeInv, ListOK, InList
    <3> QED
      BY <1>0, <1>2, <3>1 DEF ProceedInv, OneActive
  <2> QED
    BY <2>1, <2>2, <2>3
<1> QED
  BY <1>4, <1>5, <1>6

(* However deep jobs nest and however few threads there are: while nothing *)
(* fails there is a thread for the next job in the list.  SubmitJob takes  *)
(* a job from a pool thread only while another thread is left to the jobs  *)
(* already taken (OneSpare), and leaves none of those it wakes up or       *)
(* starts unaccounted (OneActive).                                         *)
THEOREM PoolJobsProceed == Spec => []JobsCanProceed
<1> DEFINE PInv == Inv /\ WakeInv /\ (faults = {} => ProceedInv)
<1>1. Init => PInv
  BY InvInit, WakeInvInit, ProceedInvInit
<1>2. PInv /\ [Next]_vars => PInv'
  <2> SUFFICES ASSUME PInv, [Next]_vars PROVE PInv'
    OBVIOUS
  <2>1. Inv' /\ WakeInv'
    BY InvStep, WakeInvStep
  <2>2. CASE faults = {}
    BY <2>1, <2>2, ProceedInvStep DEF Good
  <2>3. CASE faults # {}
    <3>1. faults' = faults
      BY FaultsStay
    <3> QED
      BY <2>1, <2>3, <3>1
  <2> QED
    BY <2>2, <2>3
<1>3. PInv => JobsCanProceed
  BY GoodProceeds DEF Good, JobsCanProceed
<1> QED
  BY <1>1, <1>2, <1>3, PTL DEF Spec
=============================================================================
