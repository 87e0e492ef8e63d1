# W2Net-AIS in TLA+

W2Net-AIS trains a network that detects ship wakes as rotated boxes, with a
segmentation branch beside it, and derives ship kinematics from the detections.
Most of the repository is numerical. What can go wrong without any number being
wrong is the program around the network: sessions that are killed and resumed
over the same files, evaluations that pass their data through directories, two
suppression algorithms (loops over arrays, and CUDA threads with a barrier), and
the way boxes of an annotation become targets of anchors. The repository also
carries the sources of GDAL 3.8.4, nearly all of its C and C++; two parts of it
are concurrent programs that everything else in GDAL runs on, its thread pool and
its raster block cache. These are what is modelled here. Paths below are relative
to `src/`, those that begin with `port/` or `gcore/` to `src/utils/gdal-3.8.4/`.

## 1. The system

| part | state it keeps | operations | meets others through |
| --- | --- | --- | --- |
| training driver, `train.py` | `weights/*.pth`, `result.txt`, `weights/best_summary.txt`; in memory weights, Adam moments, `start_epoch`, `best_*`, `results`, `s` | start with nothing, `--load` or `--resume`; batches; evaluation every `test_interval` epochs after epoch 5; log, choice of the best, three kinds of checkpoint; final report | calls the data loader, the losses and `evaluate`; files outlive it |
| training targets, `datasets/hrsc_dataset.py`, `datasets/collater.py`, `models/losses.py` | none between batches | annotation to sample, samples to padded batch, boxes to anchor targets | worker processes of the loader; an exception in one ends the training |
| evaluation, `eval.py`, `utils/map.py` | `datasets/evaluate/detection-results/`, `.temp_files/*.json` with a `used` flag per object | detect over the test list, parse, match class by class, average precision | called by the driver and by hand; `sys.exit` on inconsistent directories |
| suppression on the CPU, `utils/nms/cpu_nms.pyx` | the arrays of one call | `cpu_nms`, `cpu_soft_nms` (never called) | `RetinaNet.decoder` and `im_detect`, through `nms_wrapper.nms` |
| suppression on the GPU, `utils/overlaps_cuda/rotate_polygon_nms_kernel.cu` | device memory, shared memory, host buffers of one call | kernel over blocks of 64 threads, copy back, reduction | `rotate_gpu_nms`; built, but `nms_wrapper` dispatches to the CPU only |
| GDAL worker thread pool, `port/cpl_worker_thread_pool.cpp`, `gcore/gdal_thread_pool.cpp` | job list, pending count, waiting list and its count, a mutex and condition variable for the pool and for each worker; a count for each `CPLJobQueue` | `Setup`, `SubmitJob`, `SubmitJobs`, `WaitCompletion`, `GetNextJob`, destructor; `CPLJobQueue::SubmitJob`, `WaitCompletion` | application threads and, nested, its own jobs (warping, overviews, compression) |
| GDAL raster block cache, `gcore/gdalrasterblock.cpp`, `gcore/gdalabstractbandblockcache.cpp`, `gcore/gdalarraybandblockcache.cpp`, `gcore/gdalrasterband.cpp` | the LRU list and its size under `hRBLock`; for each band its slots, free list, keep-alive counter and pending error; for each block a lock count and a dirty flag, changed without a lock | `GetLockedBlockRef`, `Internalize`, `FlushCacheBlock`, `FlushBlock`, `FlushCache`, closing | threads of different datasets evict each other's blocks; drivers write them |
| detection, `utils/detect.py`, `models/model.py` | none | forward pass, threshold, suppression, merging of scales | evaluation, demo |
| augmentation, anchors, box coding, overlap kernels, networks | none | numerical | targets, detection |
| demo, kinematics, visualisation, converters of datasets | none | straight-line scripts | by hand |

`PROJECT.json` lists every component, also those left out, and every hazard with
its line. The behaviours that are hard to test, and what correctness means:

* **Sessions.** A session may end between any two writes, and `torch.save`
  truncates before it writes. Afterwards `--resume` rebuilds the epoch, the log
  and the optimizer from different fields of one checkpoint. Correct: no epoch is
  lost or repeated, the log of a checkpoint is the log of its lineage, weights and
  moments belong together, best and deploy files hold what their names say.
* **Stale state in one session.** `results`, `s` and `best_*` are carried from
  one epoch to the next and are not always rewritten.
* **Evaluations over the same directories.** A killed evaluation leaves detection
  files and JSON files with flags set. Correct: the next one counts only its own
  detections and counts no object twice.
* **Threads.** A kernel block shares memory behind one barrier, the last block is
  partly filled, and the host re-reads masks of which half was never meant to be
  read.
* **A thread that waits for a thread of its own pool.** A job submits jobs and waits
  for them, so a worker may wait for a job only another worker can run, and every
  other worker may be doing the same. `SubmitJob` decides by a counter, in a
  section it leaves before it enqueues. Correct: the counters are what they count,
  no wake-up is lost, a wait returns when and only when the jobs below have ended,
  and there is always a thread for the next job.
* **A block that two threads want.** One thread looks a block up while another evicts
  it, and the only word they share is a lock count that goes to -1. Correct: a
  block is in one place, the counters agree, what was written is read again and
  reaches the file, and an error of another thread is reported to the owner.
* **Loops that rewrite what they walk over.** `suppressed` in the loop nest, the
  `used` flags in JSON files, the three overlapping writes to `cls_targets`.
* **Boundaries.** Samples with fewer boxes than the largest one of the batch,
  without boxes, with boxes no anchor overlaps; equal scores; a class that is
  never found; a last block of one thread.

## 2. The modules

| module | code | role |
| --- | --- | --- |
| `Training` | `train.py` | driver, sessions, files |
| `Journal` | - | what `last.pth` promises, abstractly |
| `TrainingProofs` | - | theorems about `Training`: types, log and journal; weights, deploy files and best |
| `GreedyNms` | - | what a suppression promises, abstractly |
| `CpuNms`, `CpuNmsProofs` | `cpu_nms.pyx:142-186` | the loop nest, its refinement of `GreedyNms` and what that promises proved |
| `GpuNms`, `GpuNmsProofs` | `rotate_polygon_nms_kernel.cu:252-369` | kernel threads and host reduction; barrier, masks and refinement proved |
| `Evaluation`, `EvaluationProofs` | `eval.py:177-270`, `utils/map.py` | detection files, matching, average precision, and its theorems |
| `Targets`, `TargetsProofs` | `hrsc_dataset.py`, `collater.py`, `losses.py` | annotation to anchor targets, and its theorems |
| `ThreadPool` | `cpl_worker_thread_pool.cpp`, `gdal_thread_pool.cpp` | workers, clients, nested jobs, setup and destruction |
| `ForkJoin` | - | what a pool with job queues promises, abstractly |
| `ThreadPoolProofs` | - | theorems about `ThreadPool`: counts and refinement; waiting list, wake-ups and progress |
| `BlockCache` | `gdalrasterblock.cpp`, the two `*bandblockcache.cpp`, `gdalrasterband.cpp` | threads, blocks, evictions, flushing and closing |
| `BlockCacheProofs`, `BlockCacheDataProofs` | - | theorems about `BlockCache`: where a block is; what is counted, told and kept |
| `MC*` | - | instances for TLC |

The `MC` modules only define values of constants. A few operators stand right
before the definition whose body they could be, with a plausible mistake in them
(`RepeatEpoch` before `ResumeEpoch`, `LoadOrReturn` before `Load`): no action uses
them. They are substituted, one at a time, to see that each property notices the
mistake, and `PROJECT.json` pairs them under `mutants`.

### Training

One behaviour is a sequence of sessions over one working directory. `pc` follows
the function from top to bottom (`load`, `head` of the epoch loop, `batch`,
`eval`, `log`, `save`/`write` for each file, `final`), and `Kill` may end any
session at any step. A loss that is not finite stops the session in
`ipdb.set_trace()` (`NonFiniteLoss`, `pc = "debugger"`), where it stays, is killed,
or goes on with the evaluation of the epoch (`Continue`); `models/losses.py:116`
stops in the same way for the regression loss of one image, before the sum of the
losses gets to the driver. Weights and Adam moments are the number of optimizer steps
in them, enough to tell whether a step was lost, repeated or taken by the one
without the other. A checkpoint is the record `train.py:345-354` builds, its log
read back from `result.txt`. `OpenFile` leaves a file torn and `CloseFile` fills
it. Of the six metrics the three that decide anything are kept, as numbers.

Actions follow the code line by line: `Start` removes `result.txt` before the
checkpoint is read, `WriteLog` is the log line, the choice of the best and the
checkpoint record in one (nothing between them can be seen from outside but a
kill, which leaves only the log line behind, and the next `Start` removes it),
`SaveList` is the order of the saves. `LogUnbound` is the exception of reading
`s` before the first batch with a usable loss.

`Journal` is the abstract specification: a durable log that is only ever
rewritten, to itself plus one entry or to a new log of one entry, or is lost by a
rewrite that was abandoned. `LastIsJournal` says that `last.pth` is one, over all
sessions, kills and restarts; the refinement mapping is the log field of a
readable `last.pth` and, inside its save, of the checkpoint being saved.

### GreedyNms, CpuNms, GpuNms

`GreedyNms` decides the boxes in order of score and keeps a box unless one kept
before suppresses it. Both implementations refine it. The overlap is an arbitrary
relation, not assumed symmetric: the two rectangles reach the geometry code in a
fixed order and its floating point makes no promise. `CpuNms` has a step for
each round of either loop, and any order `argsort` may give to equal scores.
`GpuNms` has a step for each thread before and after the barrier, one for the
barrier, and one for each round of the reduction; a mask word is the set of its
bits, and a slot nobody filled may read as either value.

### Evaluation

`dr` is `detection-results/`, `used` and `ranked` are the two kinds of JSON files
under `.temp_files/`, and `pc`/`cur` the loop and the image or class it is at.
`Detect` is one image of the test list, `ParseGroundTruth` one ground-truth file,
`LoadResults` and `MatchDetection` one class and one detection, `EndClass` the
curve and its area. `Ranked` is the stable sort of the detections of a class: the
n-th of them has n - 1 before it, by confidence, then by file and line. `exit` is
`error()`, that is `sys.exit(0)`, for an image missing from either directory or a
line that does not parse; `dead` is an exception or a kill; both leave the files
as they are. A line that does not parse is an object or a detection of the class
`Unparsable`. In a ground truth it may be a blank line at the end of the file; in
a detection, a class whose name has a blank, which the message at `map.py:409`
expects to be removed and no dataset of the repository has. `LoadResults` reads
every detection file for each class, so the first class decides whether all of
them parse. The overlap of a detection with each object is a level, confidences
are in hundredths because `eval.py:239` writes two decimals, and precision is
counted in twelfths, exact for up to four detections.

### Targets

`GetItem` is one `__getitem__`, exceptions included: an image or mask that cannot
be read, a number or class of an HRSC file that cannot be used, and a VOC file
that is no XML are one value, `Unreadable`, since all of them raise before
anything is kept. What the parsers skip without a word (difficult objects, objects
of a VOC file with a bad number or an unknown class) is not in the annotation to
begin with. `Collate` is the padding to the largest number of boxes, and `Assign`
one image of the loss. A box is its class, whether it passes `mask_valid_boxes`,
and its level of overlap with each anchor. Where several anchors or boxes overlap
equally, `torch.max` may choose any. `--augment` raises for every image with boxes
(`utils/augment.py:476` unpacks two values of three), so `Augment` makes `GetItem`
raise, and the runs set it to FALSE.

### ThreadPool and ForkJoin

`at` says where a client or a job stands between its start and its return, and
`wpc` where a worker is in `GetNextJob`. A section under a mutex is one action,
except where a second mutex is taken inside it: `SubmitJob` unlinks the head of
the waiting list under `m_mutex` (`Enqueue`), takes that worker's mutex before it
lets go of `m_mutex` (`TakeWorkerMutex`) and notifies (`NotifyWorker`);
`GetNextJob` enters the list (`MarkAsWaiting`), takes its own mutex
(`TakeOwnMutex`) and waits (`Sleep`). `SubmitJobs` does its hand-overs in a loop
(`WakeNext`, `Relock`, `WakeDone`). `SubmitJob` of a job is `Reserve`, or
`RunSynchronously` when the guard finds no spare thread, then `Enqueue`; between
the two anything may happen. `Parent` gives the tree of submissions, any tree:
whoever submits jobs through a `CPLJobQueue` waits for them, those in `Batch` use
`SubmitJobs`. `Setup` starts its threads at once and waits for them, or leaves
them to be started on demand; `Resize` is `GDALGetGlobalThreadPool` asking for
more. Three faults are modelled: an allocation fails (`SubmitFails`, `MarkFails`),
a thread cannot be created (`SetupFails`, `SubmitFails`, `SubmitJobsFails`, and
fewer threads in `SubmitJobs`), a condition variable returns unasked
(`SpuriousWakeup`).

`ForkJoin` knows jobs and those that submit them, neither threads nor lists: a job
runs once, after it was submitted and while its parent runs, and whoever submits
jobs ends only when all of them have ended. The refinement mapping is `Image`,
the place of each client and job in five phases.

### BlockCache

Each dataset, with one band and opened for update, is used by one thread, as GDAL
requires; the cache is shared. A thread takes its requests one after the other
from `Script`: read a block, write it as a whole, update it, flush, evict one
(`FlushCacheBlock`); then it closes the dataset, with the `FlushCache` of the
driver and that of the destructor. `pc` follows `GetLockedBlockRef` through
lookup and `TakeLock` (two atomic increments, `AddLock` and `TakeLockFails`), or
through `CreateBlock`, `Internalize` and `IReadBlock`. `Internalize` holds
`hRBLock` and claims one block after the other (`Claim`: lock count from 0 to -1;
`Unreference`: empty the slot), then writes and gives back what it evicted
without any lock (`Write`, `IWriteBlock`, `AddBlockToFreeList`, `CountDown`).
`FlushCache` empties the slots (`Take`), finds out whether a block is still its
own (`DropLockForRemoval`), waits where it is not, and ends waiting for the
counter. A block's value `val` counts the writes of the application it reflects,
which is enough to tell an old version from a new one; `written` is that count as
the application knows it.

The search for room in `Internalize` is `search`: the blocks that `poTarget` has
left behind, `poDirtyBlockOtherDataset`, and whether a second pass takes any
block. `Pass` leaves a block behind that is locked or does not suit, `Claim` takes
one, `Rescan` begins the second pass. After an eviction the search goes on with
what is ahead and forgets the dirty block it had remembered, as
`gcore/gdalrasterblock.cpp:951-954` does, so it may end (`Touch`) above the limit
with unlocked blocks of other datasets behind it. A batch of 64 victims ends it
early (`full`, at any victim: a batch of any size does).

Abstracted: the list has no order, so that the search meets its blocks in any order;
the dirty flag and the lock count of a block it passes are read in one step;
`Claim` includes `Detach_unlocked` (same lock, nothing in between can be
seen), every block has the size of a unit, and `Touch` of a block already listed
only changes the order. `raced` is a history variable: it marks a dataset for
which a block was read or created again while its former self was still unwritten
in another thread, the weakness the code states itself
(`gcore/gdalrasterblock.cpp:957`).

## 3. What is checked

| run | instance | states | shows |
| --- | --- | --- | --- |
| `training` | 4 epochs of 2 batches, evaluations at 0 and 2, deploy files at 2 and 3, 3 sessions | 297 188 | `TypeOK`, `CheckpointLogComplete`, `WeightsMatchEpoch`, `BestOfSession`, `DeployFiles`, `LastIsJournal` |
| `training_odd` | 2 or 3 epochs chosen per session, zero and non-finite losses, metrics that tie in the score, 2 sessions | 161 483 | `BestOfSession`, `ResumeCompletes` |
| `cpu_nms` | 3 boxes, all 64 relations, all scores of 2 values | 12 864 | `TypeOK`, `KeptIndependent`, `BestSurvives`, `ImplementsGreedy` |
| `gpu_nms` | 3 boxes, blocks of 2 threads, all relations of earlier on later boxes | 32 808 | `TypeOK`, `SharedReady`, `MaskComplete`, `ImplementsGreedy`, `Terminates` |
| `evaluation` | 2 images, 2 classes, 6 ground truths, 4 test lists, 7 outcomes of a detection, 2 evaluations | 89 104 | `TypeOK`, `FirstClaim`, `ApIsArea`, `SameImages`, `EvaluationReturns` |
| `targets` | 2 images, unreadable or of up to 2 boxes of 8 kinds, 2 anchors | 76 096 | `TypeOK`, `EveryBoxClaimsAnchor`, `TargetsFromOwnBoxes`, `GoodBatchLearned` |
| `thread_pool` | 2 clients, one with a chain of jobs three deep, one with `SubmitJobs` of a job that does the same; 1 or 2 threads, lazy or eager; no fault, or one kind of fault, as often as it likes | 199 333 | `TypeOK`, `JobsAccounted`, `WaitingAccounted`, `NoLostWakeup`, `JobsCanProceed`, `ImplementsForkJoin`, `EverybodyReturns` |
| `block_cache` | 2 datasets of 2 blocks, a cache of one block, 5 requests chosen from 13, without faults or with failing reads and writes | 421 773 | `TypeOK`, `OneHolder`, `Counted`, `CacheBounded`, `NothingLost`, `ErrorsTold`, `EveryDatasetCloses` |

Why the bounds are enough. Three sessions give every chain of scratch, load and
resume of length three, with a kill anywhere in the first two: a checkpoint can
be torn, replaced by another lineage, and resumed. Four epochs have two
evaluations, one of them with deploy, and an unevaluated last epoch, which is
what 120 epochs with `test_interval` 2 have; the thresholds `epoch > 5` and
`epoch > 100` are constants for that purpose. Two batches tell a repeated epoch
from a repeated step. `training_odd` has one batch per epoch, so that a skipped
batch is an epoch without a line of its own, and its evaluations are at 1 and 2,
after one that is not. Three boxes are what a suppressed suppressor needs, and in
blocks of two threads three boxes have a full and a partial block, on and off the
diagonal. Two evaluations are a killed one and the one that finds its files.
Level 2 of overlap is the threshold itself, 1 lies below it, 3 above. One ground
truth and one outcome of a detection have a line that does not parse.

The chain of three jobs needs more threads than the pool has if every job were
left to another one, so the guard of `Reserve` decides on both sides; the second
client makes two jobs compete for the last spare thread, and puts jobs into the
list that no job queue counts. The theorems of section 4 remove these bounds for
every safety property of the pool and of the cache. A cache of one block with two
threads evicts at every miss, in both directions: a thread finds its block
claimed, its slot emptied, its block being written, or already given back. The
scripts are the shortest in which a block is written, evicted by the other thread,
written again and flushed, while the other dataset is closed. Four block objects
are never all in use at once.

Deadlock is not checked: these programs stop, and in the pool a job that a failed
submission has dropped leaves its submitter waiting for ever (see below), which is
why `EverybodyReturns` asks for no faults.

**Fairness.** `Training` and `Evaluation` are one process each: weak fairness of
its own steps, none of `Kill`, `Start` or `Continue`. `ResumeCompletes` and
`EvaluationReturns` therefore allow for a death, `ResumeCompletes` also for a
session that stays in the debugger, since nobody has to continue it, and
`EvaluationReturns` for the exit at a detection that does not parse. The threads
of a kernel are resident and each is scheduled, so `GpuNms` has weak fairness of
each thread, of each barrier and of the host. `Targets` is one worker and one
loss, weak fairness of `Next`. In `ThreadPool` every application thread, every
worker and `Main` is a thread of the operating system: weak fairness of each one,
none of `Resize` or of a spurious wake-up; nothing needs a mutex to be handed out
fairly. In `BlockCache` each thread goes on; what it asks for is its own choice.

### Where code and comments disagree

Four runs check one sentence of the repository each, and TLC finds a behaviour of
the code against it:

* `overwrites_best`: "only when this round is the new best is best.pth
  overwritten" (`train.py:360`). `best_score` starts at -1 in every session, so
  the first evaluation after `--resume` overwrites a `best.pth` of the same lineage
  that scores more. (A `best.pth` that is merely stale, because the session was
  killed before it was saved, is no violation.)
* `negative_sample`: "no annotation found: a negative sample"
  (`hrsc_dataset.py:225`). Such a sample raises, `gt_boxes` being unbound.
* `nested_jobs`: "if there are waiting threads or we have not started all allowed
  threads, we can submit this job asynchronously", "otherwise there is a risk of
  deadlock" (`port/cpl_worker_thread_pool.cpp:138`, `151`). A worker whose `wait`
  returns without a notification may take a job while it is still listed and
  counted as waiting. Two threads then end up waiting for a third job in the list,
  after 30 steps. Without spurious wake-ups the sentence is a theorem
  (`PoolJobsProceed`).
* `flushed_on_disk`: "any raster data written via GDAL calls, but buffered
  internally will be written to disk" (`gcore/gdaldataset.cpp:537`, of
  `FlushCache`). `RasterIO` with `GF_Write` does not wait for blocks that other
  threads have evicted and not yet written, so an older version may reach the file
  after the newer one, in 38 steps. `NothingLost` shows that this race, `raced`, is
  the only way.

Other observations, checked by no run of their own: epochs without evaluation log
the metrics of the previous one (`train.py:288`); "non-finite loss, ending
training" (`train.py:222`) is followed by a `break` that ends the epoch only: once
the debugger is left, the epoch is evaluated, logged and saved, and the next one
begins (`Continue`); the score is mIoU + Dice, not the weighted sum `train.py:488`
prints; rows of removed boxes stay in the sample
(`hrsc_dataset.py:167`); the summary of a resumed session without an evaluation
says "best epoch -1" next to the metrics of an earlier `best.pth`; the
learning-rate schedule starts again on `--resume` (`train.py:115` reads
`start_epoch` before line 143 sets it); a forced anchor learns the box it overlaps
most, not the box that forced it (`losses.py:80`, `86`). `CPLJobQueue::SubmitJob`
does not take back its count when the pool refuses the job, so `WaitCompletion`
never returns (`port/cpl_worker_thread_pool.cpp:668`); `FlushCache` of a band
returns `CE_None` when the error it has just reported came from another thread
(`gcore/gdalrasterband.cpp:1123`).

## 4. What is proved

TLAPS checks these for every value of the constants, from the named assumptions
in the modules alone: epoch numbers and batches are naturals, intervals positive
or -1, metrics naturals; at least one box and thread for the kernel; for the pool,
finitely many jobs in any tree (`TreeAssumption`: among any jobs one has its parent
elsewhere), any clients, any positive number of threads, any of the faults; for the
cache, finitely many datasets and block positions, at least one block object per
band, any limit of the cache (0 included), any scripts, any of the faults; for the
targets, a positive batch size, annotations that are sequences of boxes, and two
thresholds in order; for the evaluation, finitely many images, classes and images
given by numbers, annotations and detections that are sequences, and with each
detection an overlap for every object of its image.

Training:

* `TrainingTypes`, `TypeOK` of `Training`. The invariant is `TypeOK` with
  `LoopOK`, which says where in the loop `epoch < epochs` and that a checkpoint
  exists while there is something to save.
* `TrainingLogComplete`, `CheckpointLogComplete`. Not inductive: a checkpoint is
  made of `result.txt`, so the file must be complete up to the epoch at hand
  whenever the session is past `load`, and so must the checkpoint in memory.
  `LogInv` says both; `LabelInv` says that between the batches and the log line
  `s` is the epoch, or an earlier one, and only with odd losses an earlier one.
* `TrainingIsJournal`, `LastIsJournal`. `LastInv` ties `last.pth` to `result.txt`:
  in a session `result.txt` is empty or the log of `last.pth`, `last.pth` is the
  first file an epoch saves, and once it is written the two agree again. Every
  step maps to a step of `Journal` or to none.
* `TrainingWeights`, `WeightsMatchEpoch`, for sessions with one number of epochs.
  `WeightInv` counts the steps at each place of the loop, and says that moments
  belong to the weights as long as there is an epoch left to train.
* `TrainingDeploys`, `DeployFiles`. `DeployInv`: a file of this epoch is still on
  the list or is the checkpoint in memory, until the session ends.
* `TrainingBest`, `BestOfSession`. `BestInv`: the best in memory is the earliest
  unbeaten evaluation up to this epoch, and `best.pth` is it or is about to be.

Suppression:

* `GreedyIsMaximal`: the abstract suppression keeps an independent, maximal set.
* `CpuNmsTypes`, and `CpuNmsIsGreedy`: the loops implement it. `LoopInv` describes
  `suppressed` in the middle of an inner loop: a box up to `j` is compared with
  every kept box, one beyond with all but the latest.
* `CpuNmsIndependent`: `GreedyIsMaximal` through that refinement.
* `CpuBestSurvives`, `BestSurvives`, from the same and two facts about orders
  (`Ascending`, `DescendingUpTo`).
* `GpuTypes`, `TypeOK`, from the invariants below and `RestTypes`.
* `GpuSharedReady`, `SharedReady`. `BarrierInv` says that a thread at the
  barrier has filled its slot, and that no thread of a block is past the barrier
  while another has yet to reach it.
* `GpuMaskComplete`, `MaskComplete`. `MaskInv` says that a thread that has exited
  left in its word what it owes; that no two threads share a word, and that every
  word has its thread, is division with remainder (`PlaceOfBox`, `PlacesDiffer`).
* `GpuNmsIsGreedy`, the refinement. `ReduceInv` says that `remv` holds, for every
  box still to come, whether a kept box suppresses it; for the boxes already
  decided it holds anything, which is why the reduction may start at `nblock`.

The thread pool, in three layers:

* `PoolTypes`, `PoolJobsAccounted`, `PoolIsForkJoin`: `TypeOK`, `JobsAccounted`
  and the refinement of `ForkJoin`. `JobsAccounted` is about the list, the workers
  and `nPendingJobs`, the count of the pool; the counts of the queues are in the
  invariant only, and there a refused job stays counted. `Inv` is `TypeOK`,
  `JobsAccounted`, `Places` (who may be where), `ThreadsStarted`, and `Stages`: a
  job that was submitted has a parent that still runs, the job in an owner's hand
  is its own and not yet in the list, the count of a queue is the number of its
  outstanding jobs, refused ones included, and what came through `SubmitJobs` is
  in the list or with a worker. A wait that finds its count at 0 therefore finds
  every job ended, also in `SubmitJobs`, whose wait is for the whole pool.
* `PoolWaiting`, `PoolNoLostWakeup`: `WaitingAccounted`, `NoLostWakeup`, with every
  fault. `WakeInv` says who holds which mutex (`PoolMutex`, `WorkerMutex`), what
  awaits a worker between its entry in the list and its wait (`Awaited`: it can be
  unlinked there, but to notify it its own mutex is needed), and what holds while
  the destructor stops the workers (`Stopping`).
* `PoolJobsProceed`, `JobsCanProceed`: with no fault there is a thread for the next
  job. A thread *owes* when one of its jobs has left a job to others (`Owes`).
  `ProceedInv` says that of the allowed threads one neither owes nor is about to
  (`OneSpare`): `Reserve` asks for a waiting worker or one not yet started, and by
  `CountOK`, `Stack` and `Idle` neither of these has a job. While there are jobs
  one thread that does not owe is started (`OneStarted`); and if workers are listed
  as waiting, one is also active or being woken up (`OneActive`). `Stack` says that
  the jobs of a thread are a chain of synchronous calls above the one it took, so
  that a thread whose job has ended has none left (`StackEmpty`, from
  `TreeAssumption`). `Idle` is the part a spurious wake-up breaks: a listed worker
  has not left its wait.

The block cache, in four layers, each an inductive invariant on top of the one
before:

* `OneHolderHolds`, `OneHolder`. `Sound` is `Typed`, `Control` and `Places`.
  `Control` says what the locals of a thread are at each place of its program:
  whose `hRBLock` is, which victim and which blocks are in its hands (`HandOf`),
  whether it has an object of its own band (`MineOf`). `Places` is one clause for
  each place a block may be in and for the thread that works on it (`BlockOK`,
  `Mine1`): in its slot, about to leave it, in the hands of another thread, in
  those of its own, or free, each with what then holds of lock, dirty flag, list
  and slot. `OneHolder` alone is not inductive: `Claim` and
  `DropLockForRemoval` decide by a lock count, so the invariant says what the count
  is in each place. A listed block has 0, unless its own thread works on it; an
  evicted one has -1, or 0 while its own thread has added its lock to it and not yet
  taken it back (`LockOf`).
* `CountedHolds`, `CacheBoundedHolds`, `TypeOKHolds`: `Counted`, `CacheBounded`,
  `TypeOK`. `Count` adds `Enough`: who is done with its search without having to
  search again has left `nCacheUsed` within the limit. Who gives up has not, but
  has no block of its own dataset in the list. That is `Seek`, in
  `BlockCacheProofs`: a search leaves no block of its own dataset behind, because
  none of them is locked but the one the thread makes (`OwnUnlocked`) and all of
  them suit. So a thread that gives up, with whatever unlocked blocks of other
  datasets behind it, adds the only block of its dataset (`RoomToTouch`), and
  `CacheBounded` counts one block for each dataset. The counters are cardinalities
  of sets over all threads, so each step has to say which of them it changes by
  one element. `TypeOK` comes last: that `keepAlive` and `nCacheUsed` never are
  negative, and locks never leave -1 .. 1, follows from what they count.
* `ErrorsToldHolds`, `ErrorsTold`. `Close`: a flush has emptied the slots behind it
  (`LoopOK`); when it has ended no block of the band is in a slot or in the hands of
  another thread (`LeftOK`), so nobody can fail to write one any more; an error not
  reported is in `flushErr`, in the hand of the thread that is about to set it, or
  in the result the flush is about to return (`ToldOK`).
* `NothingLostHolds`, `NothingLost`. `Data` relates four things: what the
  application wrote, the file, the blocks in slots and the blocks still to be
  written (`Pending`). While no write fails and the race has not happened to a
  dataset, a pending block has the latest version of its position, the file has it
  where no block is pending, a slot with a block means that no other block is
  pending for the position, and a block in a slot that is not being filled has the
  latest version too (`ValuesOK`). `CleanHand` says that what is being written is
  no longer marked dirty, `Retaken` that after a read that failed the thread looks
  for its block in the slot it put it in. `raced` is used only in this layer:
  without it `ValuesOK` fails where `Adopt` puts a block into the slot of one that
  is pending.

`CacheAssumption` is what these proofs take from the constants: datasets and
positions are finite and numbered from 1, and `Nobody` is no dataset.

Training targets: `TargetTypes`, `TargetsClaimAnchors`, `TargetsComeFromOwnBoxes`,
that is `TypeOK`, `EveryBoxClaimsAnchor` and `TargetsFromOwnBoxes`. A box that claims
an anchor need not be learned: the anchor learns its own `iou_argmax`, which may be
another box that overlaps it at least as much (`losses.py:86`), and that is what
`EveryBoxClaimsAnchor` says. The invariant says
what a sample is in terms of its annotation (`Built`), what the collater made of it
(`Batched`), and of each image the loss has seen that its targets are those of its
*sample* for some choice of `torch.max` (`Targeted`). That the loss sees the
sample again, though it only sees the padded batch, is `RealIsSample`: no row of a
sample has the class -1 of the padding, also not the rows a lone box is spread over.
It rests on `MaskedIs` and `MaskedPrefix`, what indexing with a mask returns, and on
`HasLargest`, that a batch has a longest sample; both are inductions, done with a
least counterexample.

Evaluation: `SameImagesHolds`, `FirstClaimHolds`, `ApIsAreaHolds` and `TypeOKHolds`,
from one invariant, `EvalInv`.

* `OwnFiles` and `Directories` say how far `detection-results/` follows the test list
  at each phase, and which inclusions of the two directories each phase has
  established: parsing that every ground truth has its detections, loading the first
  class the converse, so that `match` and `done` have both, and `exit` is reached
  with one that fails or with a line that does not parse. `Readings` says which lines
  have been read, and therefore parse.
* `TempFiles`: after parsing, every flag is unset, whatever was there; the ranked
  detections are `Ranked`; and while a class is matched, an object of the class has
  its flag set exactly when one of the detections matched so far claims it
  (`Claimed`), and the objects of the classes to come are unused. That a detection
  finds only objects of its own class (`ObjectFound`) keeps the classes apart.
  `Ranking` says that the ranking counts through the detections, and `TakenIs` that
  "claimed by a better ranked one" is "claimed so far"; with them `VerdictIs` gives
  `FirstClaim`.
* `VocApIs`: the area. `CumulativeIs` and `EnvelopeIs` show that the functions that
  voc_ap's loops fill exist and satisfy their recursion, `CountIs` that the
  cumulative sums count, and `AreaUnder`, about numbers only, that the sum over the
  points of the curve is the sum over the objects found: the recall grows by one at
  each hit, and the envelope there is the best precision from there on. The
  inductions over positions use sets of numbers instead of predicates (`UpTo`).
* `HitsBounded`: two hits have different objects, so a class has no more hits than
  objects (`FS_Injection`), and the average precision is at most 1.

Out of the prover's reach, since they need fairness and ENABLED, and only
model-checked: `EvaluationReturns`, `Terminates`, `EverybodyReturns`,
`EveryDatasetCloses`, `GoodBatchLearned` and `ResumeCompletes`. Every safety property
that a passing run checks is a theorem.

## 5. What is not modelled

The numbers: network, losses, box geometry, overlaps, learning rate, images and
masks. They reach the models as relations, levels and small sets, chosen freely,
so what is checked holds whatever they are. Several GPUs (`DataParallel` wraps
the same loop). Concurrent sessions or evaluations over one directory: nothing in
the repository starts two. A write torn in `result.txt`: the next session removes
the file before reading anything. The log-average miss rate, plots and animations
of `map.py`. Datasets other than HRSC2016. Cython output.

GDAL except for the two components: about 1.9 million lines of drivers for file
formats, coordinate systems, vector layers and algorithms, vendored and mostly
sequential. They are why the modelled share of all lines is small. Within the two
components: `WaitEvent`, the warning texts, an allocation that fails halfway
through `SubmitJobs` or inside `Internalize`; datasets with several bands,
sub-blocking and the hash-set variant of the band cache, `FlushDirtyBlocks`,
`FlushCacheBlock` for dirty blocks only and the counter
`nDisableDirtyBlockFlushCounter` that excludes dirty blocks, the sizes and ages of
blocks, and the debug options that slow eviction down.

## 6. Plan

Done: `Training` with `Journal`, `GreedyNms` with `CpuNms` and `GpuNms`,
`ThreadPool` with `ForkJoin`, `BlockCache`, `Targets` and `Evaluation`, with proofs of
all their safety invariants.

Next, the models:

1. `Detect`: threshold, suppression over all classes, background dropped after
   it, scales merged and suppressed again; composed of `GreedyNms`.
2. `SoftNms`, `cpu_soft_nms`: swaps and discards on arrays whose length shrinks
   under the loop; the rows and indices stay paired, the result is ranked, and
   with weights 0 and 1 it is `GreedyNms`.
3. `Evaluation`: `icdar_evaluate` with its `./temp`, `dota_evaluate` with its
   three directories.
4. `Schedule`: warm-up and milestones across `--resume`, composed with `Training`.
5. `BlockCache` with several bands and `FlushDirtyBlocks`, and its use from the
   jobs of `ThreadPool`.

Next, the proofs: the invariants of those modules, on the lemmas that stand here
(`GreedyIsMaximal` for `Detect`; the sorting and claiming lemmas of
`EvaluationProofs` for the two other `evaluate` functions; the layers of
`BlockCacheProofs`, with a band as a second index, for several bands).
