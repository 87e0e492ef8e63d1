------------------------------ MODULE Training ------------------------------
(***************************************************************************)
(* The training driver train_model of train.py: the epoch loop, the        *)
(* checkpoint files it leaves under weights/, the log result.txt, and what *)
(* a later `train.py --resume` or `train.py --load` makes of them.         *)
(*                                                                         *)
(* One behaviour is a sequence of sessions (runs of the program) over the  *)
(* same working directory.  A session can be killed between any two steps, *)
(* and torch.save is not atomic: it truncates the file and then writes it. *)
(*                                                                         *)
(* Weights and Adam moments are abstracted to the number of optimizer      *)
(* steps, since the lineage began, that they contain.  Of the six metrics  *)
(* of an evaluation the three that decide anything are kept.               *)
(***************************************************************************)
EXTENDS Integers, Sequences

CONSTANTS
  EpochChoices,   \* values hyps['epochs'] takes from session to session
  Batches,        \* len(loader)
  TestInterval,   \* hyps['test_interval']
  EvalAfter,      \* the 5 of `epoch > 5`
  SaveInterval,   \* hyps['save_interval']
  DeployAfter,    \* the 100 of `epoch > 100`
  Metrics,        \* what evaluate may return: [map, miou, dice]
  OddLosses,      \* may a batch's loss be exactly zero, or not finite?
  MaxStarts       \* bound on the number of sessions

ASSUME EpochsAssumption == EpochChoices \subseteq Nat \ {0}
ASSUME BatchesAssumption == Batches \in Nat
ASSUME IntervalAssumption == /\ TestInterval \in {-1} \cup (Nat \ {0})
                             /\ SaveInterval \in Nat \ {0}
                             /\ EvalAfter \in Int
                             /\ DeployAfter \in Int
ASSUME MetricsAssumption == Metrics \subseteq [map: Nat, miou: Nat, dice: Nat]
ASSUME OddLossesAssumption == OddLosses \in BOOLEAN
ASSUME MaxStartsAssumption == MaxStarts \in Nat

VARIABLES
  disk,     \* weights/*.pth: file name -> contents
  logf,     \* result.txt: its lines (<<>> when it is absent)
  summary,  \* weights/best_summary.txt
  starts,   \* sessions begun so far
  pc,       \* where the session is
  mode,     \* command line: "scratch", "load" or "resume"
  epochs, start_epoch, epoch,
  i,        \* batches consumed in this epoch
  s,        \* epoch shown in the progress line; Unbound before the first one
  model,    \* optimizer steps in the weights
  opt,      \* optimizer steps in Adam's moments
  results,  \* metrics of the latest evaluation of the session
  best,     \* best_score, best_epoch, best_results, best_{map50,miou,dice}
  fitness,  \* best_fitness
  chkpt,    \* the checkpoint being saved
  todo      \* files it still has to be saved to

durable == <<disk, logf, summary>>
progress == <<epochs, start_epoch, epoch, i, s>>
network == <<model, opt>>
selection == <<results, best, fitness>>
saving == <<chkpt, todo>>
vars == <<durable, starts, pc, mode, progress, network, selection, saving>>

(***************************************************************************)
(* File names: last.pth, best.pth and, for an epoch e, deploy<e>.pth.      *)
(***************************************************************************)
Last == -2
Best == -1
Deploy(e) == e
Files == {Last, Best} \cup Nat
DeployEpochs == UNION {0 .. (n - 1) : n \in EpochChoices}
FilesUsed == {Last, Best} \cup {Deploy(e) : e \in DeployEpochs}

Unbound == -1
NoMoments == -1
Zero == [map |-> 0, miou |-> 0, dice |-> 0]
Absent == [tag |-> "absent"]
Torn == [tag |-> "torn"]
NoSummary == [tag |-> "absent"]

Readable(f) == disk[f].tag = "ok"

(* Line 269, repeated at 294 and 302. *)
EvalPoint(e) == TestInterval # -1 /\ e % TestInterval = 0 /\ e > EvalAfter

(* `score`, and the order in which an evaluation beats the best so far. *)
Score(m) == m.miou + m.dice

NothingBest == [epoch |-> -1, score |-> -1, res |-> Zero,
                map |-> -1, miou |-> -1, dice |-> -1]

LaterOnTie(m) == Score(m) >= best.score

IsBest(m) ==
  \/ Score(m) > best.score
  \/ /\ Score(m) = best.score
     /\ \/ m.miou > best.miou
        \/ m.miou = best.miou /\ m.dice > best.dice
        \/ m.miou = best.miou /\ m.dice = best.dice /\ m.map > best.map

NewBest(m, e) == [epoch |-> e, score |-> Score(m), res |-> m,
                  map |-> m.map, miou |-> m.miou, dice |-> m.dice]

(* Local variables of train_model when a session begins. *)
Fresh ==
  /\ start_epoch' = 0 /\ epoch' = 0 /\ i' = 0 /\ s' = Unbound
  /\ model' = 0 /\ opt' = 0
  /\ results' = Zero /\ best' = NothingBest /\ fitness' = 0
  /\ chkpt' = Absent /\ todo' = <<>>

(* The process is gone, and its memory with it. *)
Exit(how) == pc' = how /\ mode' = mode /\ epochs' = epochs /\ Fresh
-----------------------------------------------------------------------------
Init ==
  /\ disk = [f \in FilesUsed |-> Absent]
  /\ logf = <<>> /\ summary = NoSummary
  /\ starts = 0 /\ pc = "idle" /\ mode = "scratch" /\ epochs \in EpochChoices
  /\ start_epoch = 0 /\ epoch = 0 /\ i = 0 /\ s = Unbound
  /\ model = 0 /\ opt = 0
  /\ results = Zero /\ best = NothingBest /\ fitness = 0
  /\ chkpt = Absent /\ todo = <<>>

Resting == pc \in {"idle", "done", "dead"}

(* Whatever the command line says, result.txt is removed first. *)
KeepOldLog == logf
RemoveLog == <<>>

Start(m, n) ==
  /\ Resting /\ starts < MaxStarts
  /\ starts' = starts + 1
  /\ pc' = "load" /\ mode' = m /\ epochs' = n
  /\ logf' = RemoveLog
  /\ Fresh
  /\ UNCHANGED <<disk, summary>>

(* No checkpoint to load, or weights given by --weight: a new lineage. *)
LoadNothing ==
  /\ pc = "load" /\ mode = "scratch"
  /\ pc' = "head"
  /\ UNCHANGED <<durable, starts, mode, progress, network, selection, saving>>

(* --load: the weights of last.pth begin a new lineage. *)
LoadWeights ==
  /\ pc = "load" /\ mode = "load" /\ Readable(Last)
  /\ pc' = "head"
  /\ UNCHANGED <<durable, starts, mode, progress, network, selection, saving>>

(* What a --resume takes from the checkpoint, besides the weights. *)
RepeatEpoch(c) == c.epoch
EpochOffByTwo(c) == c.epoch - 1
ResumeEpoch(c) == c.epoch + 1

ForgetLog(c) == <<>>
ResumeLog(c) == c.log

ForgetMoments(c) == 0
ResumeMoments(c) == IF c.opt # NoMoments THEN c.opt ELSE 0

(* --resume: best_fitness comes back only together with the optimizer;     *)
(* best_score, best_epoch and the metrics of the best do not.              *)
LoadCheckpoint ==
  /\ pc = "load" /\ mode = "resume" /\ Readable(Last)
  /\ LET c == disk[Last] IN
       /\ model' = c.model
       /\ opt' = ResumeMoments(c)
       /\ fitness' = IF c.opt # NoMoments THEN c.fitness ELSE 0
       /\ logf' = ResumeLog(c)
       /\ start_epoch' = ResumeEpoch(c)
       /\ epoch' = ResumeEpoch(c)
  /\ pc' = "head"
  /\ UNCHANGED <<disk, summary, starts, mode, epochs, i, s, results, best,
                 saving>>

(* torch.load raises on a missing or half-written file. *)
LoadFails ==
  /\ pc = "load" /\ mode # "scratch" /\ ~Readable(Last)
  /\ Exit("dead")
  /\ UNCHANGED <<durable, starts>>
-----------------------------------------------------------------------------
EnterEpoch ==
  /\ pc = "head" /\ epoch < epochs
  /\ pc' = "batch" /\ i' = 0
  /\ UNCHANGED <<durable, starts, mode, epochs, start_epoch, epoch, s,
                 network, selection, saving>>

LeaveLoop ==
  /\ pc = "head" /\ epoch >= epochs
  /\ pc' = "final"
  /\ UNCHANGED <<durable, starts, mode, progress, network, selection, saving>>

(* A finite, non-zero loss: one optimizer step, and a new progress line. *)
TrainBatch ==
  /\ pc = "batch" /\ i < Batches
  /\ i' = i + 1 /\ s' = epoch
  /\ model' = model + 1 /\ opt' = opt + 1
  /\ UNCHANGED <<durable, starts, pc, mode, epochs, start_epoch, epoch,
                 selection, saving>>

(* `if bool(loss == 0): continue` *)
SkipBatch ==
  /\ OddLosses
  /\ pc = "batch" /\ i < Batches
  /\ i' = i + 1
  /\ UNCHANGED <<durable, starts, pc, mode, epochs, start_epoch, epoch, s,
                 network, selection, saving>>

(* A loss that is not finite stops the session in ipdb.set_trace().  Who   *)
(* sits at the terminal may leave it there, quit, which is a Kill, or ...  *)
NonFiniteLoss ==
  /\ OddLosses
  /\ pc = "batch" /\ i < Batches
  /\ pc' = "debugger"
  /\ UNCHANGED <<durable, starts, mode, progress, network, selection, saving>>

(* ... continue, and then it breaks out of the loop over the batches only. *)
Continue ==
  /\ pc = "debugger"
  /\ pc' = "eval"
  /\ UNCHANGED <<durable, starts, mode, progress, network, selection, saving>>

LastBatch ==
  /\ pc = "batch" /\ i = Batches
  /\ pc' = "eval"
  /\ UNCHANGED <<durable, starts, mode, progress, network, selection, saving>>

Evaluate ==
  /\ pc = "eval" /\ EvalPoint(epoch)
  /\ results' \in Metrics
  /\ pc' = "log"
  /\ UNCHANGED <<durable, starts, mode, progress, network, best, fitness,
                 saving>>

(* evaluate raises, or map.py calls sys.exit: nothing catches either. *)
EvaluateFails ==
  /\ pc = "eval" /\ EvalPoint(epoch)
  /\ Exit("dead")
  /\ UNCHANGED <<durable, starts>>

SkipEvaluate ==
  /\ pc = "eval" /\ ~EvalPoint(epoch)
  /\ pc' = "log"
  /\ UNCHANGED <<durable, starts, mode, progress, network, selection, saving>>

(* `s` is read before any batch of the session has set it. *)
LogUnbound ==
  /\ pc = "log" /\ s = Unbound
  /\ Exit("dead")
  /\ UNCHANGED <<durable, starts>>
-----------------------------------------------------------------------------
FinalEpoch == epoch + 1 = epochs

LogLine == [label |-> s, res |-> results]

DeployPoint == (epoch % SaveInterval = 0 /\ epoch > DeployAfter) \/ FinalEpoch

(* Where the checkpoint of this epoch goes, in the order of the saves. *)
OneSave(isBest) == IF isBest THEN <<Best>> ELSE <<Last>>
NoFinalDeploy(isBest) == <<Last>> \o (IF isBest THEN <<Best>> ELSE <<>>)
SaveList(isBest) ==
  <<Last>> \o (IF isBest THEN <<Best>> ELSE <<>>)
           \o (IF DeployPoint THEN <<Deploy(epoch)>> ELSE <<>>)

(* The results line, the choice of the best, and the checkpoint record,    *)
(* whose training_results are read back from result.txt.                   *)
WriteLog ==
  /\ pc = "log" /\ s # Unbound
  /\ logf' = Append(logf, LogLine)
  /\ LET isBest == EvalPoint(epoch) /\ IsBest(results) IN
       /\ best' = IF isBest THEN NewBest(results, epoch) ELSE best
       /\ fitness' = IF isBest THEN Score(results) ELSE fitness
       /\ todo' = SaveList(isBest)
  /\ chkpt' = [tag |-> "ok", epoch |-> epoch, fitness |-> fitness',
               best_epoch |-> best'.epoch, best_results |-> best'.res,
               log |-> logf', model |-> model,
               opt |-> IF FinalEpoch THEN NoMoments ELSE opt]
  /\ pc' = "save"
  /\ UNCHANGED <<disk, summary, starts, mode, progress, network, results>>

(* torch.save opens, and thereby truncates, its file ... *)
OpenFile ==
  /\ pc = "save" /\ todo # <<>>
  /\ disk' = [disk EXCEPT ![Head(todo)] = Torn]
  /\ pc' = "write"
  /\ UNCHANGED <<logf, summary, starts, mode, progress, network, selection,
                 saving>>

(* ... and then fills it. *)
CloseFile ==
  /\ pc = "write"
  /\ disk' = [disk EXCEPT ![Head(todo)] = chkpt]
  /\ todo' = Tail(todo)
  /\ pc' = "save"
  /\ UNCHANGED <<logf, summary, starts, mode, progress, network, selection,
                 chkpt>>

NextEpoch ==
  /\ pc = "save" /\ todo = <<>>
  /\ epoch' = epoch + 1
  /\ pc' = "head"
  /\ UNCHANGED <<durable, starts, mode, epochs, start_epoch, i, s, network,
                 selection, saving>>
-----------------------------------------------------------------------------
(* best.pth is evaluated again and best_summary.txt written; a failure of  *)
(* that evaluation ends the session without a summary.                     *)
Report ==
  /\ pc = "final" /\ Readable(Best)
  /\ summary' = [tag |-> "ok", best_epoch |-> best.epoch,
                 best_score |-> best.score,
                 evaluated |-> disk[Best].epoch]
  /\ Exit("done")
  /\ UNCHANGED <<disk, logf, starts>>

ReportFails ==
  /\ pc = "final"
  /\ Exit("done")
  /\ UNCHANGED <<durable, starts>>

(* The process is killed: the files stay as they are. *)
Kill ==
  /\ ~Resting
  /\ Exit("dead")
  /\ UNCHANGED <<durable, starts>>

Session ==
  \/ LoadNothing \/ LoadWeights \/ LoadCheckpoint \/ LoadFails
  \/ EnterEpoch \/ LeaveLoop
  \/ TrainBatch \/ SkipBatch \/ NonFiniteLoss \/ LastBatch
  \/ Evaluate \/ EvaluateFails \/ SkipEvaluate \/ LogUnbound
  \/ WriteLog \/ OpenFile \/ CloseFile \/ NextEpoch
  \/ Report \/ ReportFails

Next ==
  \/ \E m \in {"scratch", "load", "resume"}, n \in EpochChoices : Start(m, n)
  \/ Session
  \/ Continue
  \/ Kill

Spec == Init /\ [][Next]_vars

(* The program goes on by itself; nobody has to start, kill or debug it. *)
FairSpec == Spec /\ WF_vars(Session)
-----------------------------------------------------------------------------
(***************************************************************************)
(* Types.                                                                  *)
(***************************************************************************)
Results == Metrics \cup {Zero}
Line == [label: Nat, res: Results]
Checkpoint == [tag: {"ok"}, epoch: Nat, fitness: Nat, best_epoch: Nat \cup {-1},
               best_results: Results, log: Seq(Line), model: Nat,
               opt: Nat \cup {NoMoments}]
Content == Checkpoint \cup {Absent, Torn}

(* Every variable keeps its type, whatever sessions run over the           *)
(* directory and wherever they are killed (train.py:65-510).               *)
TypeOK ==
  /\ disk \in [FilesUsed -> Content]
  /\ logf \in Seq(Line)
  /\ summary \in [tag: {"ok"}, best_epoch: Nat \cup {-1},
                  best_score: Nat \cup {-1}, evaluated: Nat] \cup {NoSummary}
  /\ starts \in Nat
  /\ pc \in {"idle", "load", "head", "batch", "debugger", "eval", "log", "save",
             "write", "final", "done", "dead"}
  /\ mode \in {"scratch", "load", "resume"}
  /\ epochs \in EpochChoices
  /\ start_epoch \in Nat /\ epoch \in Nat /\ i \in 0 .. Batches
  /\ s \in Nat \cup {Unbound}
  /\ model \in Nat /\ opt \in Nat
  /\ results \in Results
  /\ best \in [epoch: Nat \cup {-1}, score: Nat \cup {-1}, res: Results,
               map: Nat \cup {-1}, miou: Nat \cup {-1}, dice: Nat \cup {-1}]
  /\ fitness \in Nat
  /\ chkpt \in Checkpoint \cup {Absent}
  /\ todo \in Seq(FilesUsed)

-----------------------------------------------------------------------------
(***************************************************************************)
(* Safety.                                                                 *)
(***************************************************************************)
LogComplete(c) ==
  /\ Len(c.log) = c.epoch + 1
  /\ \A k \in 1 .. Len(c.log) :
       /\ c.log[k].label < k
       /\ OddLosses \/ c.log[k].label = k - 1

(* Every readable checkpoint carries the whole results log of its lineage: *)
(* one line per epoch 0 .. epoch, none lost or repeated by a kill, a       *)
(* --resume, a --load or an extension of the training, each labelled with  *)
(* its own epoch unless an epoch made no optimizer step (train.py:80-81,   *)
(* 139-143, 287-288, 345-355).                                             *)
CheckpointLogComplete == \A f \in FilesUsed : Readable(f) => LogComplete(disk[f])

(* The weights in a checkpoint have taken every optimizer step of epochs   *)
(* 0 .. epoch exactly once, and the Adam moments saved with them are of    *)
(* the same steps; only the checkpoint of the final epoch has none         *)
(* (train.py:127, 131-132, 143, 345-354).  For one fixed `epochs`.         *)
WeightsMatchEpoch ==
  \A f \in FilesUsed : Readable(f) =>
    LET c == disk[f] IN
      /\ c.model <= (c.epoch + 1) * Batches
      /\ ~OddLosses => c.model = (c.epoch + 1) * Batches
      /\ c.opt = NoMoments <=> \E n \in EpochChoices : c.epoch = n - 1
      /\ c.opt # NoMoments => c.opt = c.model

Beats(m, n) ==
  \/ Score(m) > Score(n)
  \/ Score(m) = Score(n) /\ m.miou > n.miou
  \/ Score(m) = Score(n) /\ m.miou = n.miou /\ m.map > n.map

SessionEvals == {e \in start_epoch .. (epoch - 1) : EvalPoint(e)}

(* Between two epochs best.pth is the checkpoint of the earliest epoch of  *)
(* this session whose evaluation no other epoch of the session beats, and  *)
(* it is an ancestor of the weights in memory (train.py:300-331, 361-362). *)
BestOfSession ==
  pc \in {"head", "final"} /\ SessionEvals # {} =>
    LET b == disk[Best] IN
      /\ Readable(Best)
      /\ b.epoch \in SessionEvals /\ b.best_epoch = b.epoch
      /\ b.best_results = logf[b.epoch + 1].res
      /\ b.log = SubSeq(logf, 1, b.epoch + 1)
      /\ \A e \in SessionEvals :
           /\ ~Beats(logf[e + 1].res, b.best_results)
           /\ e < b.epoch => Beats(b.best_results, logf[e + 1].res)

(* A session that trains to the end of the loop leaves the deployable      *)
(* checkpoint of the final epoch, complete and without optimizer state,    *)
(* and every deploy<e>.pth holds the checkpoint of epoch e                 *)
(* (train.py:266, 354, 368-372).                                           *)
DeployFiles ==
  /\ pc = "final" /\ s # Unbound =>
       /\ Readable(Deploy(epochs - 1))
       /\ disk[Deploy(epochs - 1)].opt = NoMoments
       /\ disk[Deploy(epochs - 1)] = disk[Last]
       /\ disk[Last].log = logf
  /\ \A e \in DeployEpochs : Readable(Deploy(e)) => disk[Deploy(e)].epoch = e

(***************************************************************************)
(* Refinement: over every session, kill and restart the log in last.pth is *)
(* a Journal.                                                              *)
(***************************************************************************)
Durable == INSTANCE Journal WITH
  journal <- IF Readable(Last) THEN disk[Last].log ELSE <<>>,
  inflight <- IF pc = "write" /\ Head(todo) = Last THEN chkpt.log ELSE <<>>

(* last.pth grows by exactly one epoch of its own lineage or starts a new  *)
(* lineage, and is lost only to a kill inside torch.save                   *)
(* (train.py:80-81, 139-143, 337-358).                                     *)
LastIsJournal == Durable!JSpec

(***************************************************************************)
(* Liveness.                                                               *)
(***************************************************************************)
(* Resuming a readable last.pth ends with the checkpoint of the final      *)
(* epoch in last.pth, unless the session dies, or a loss that is not       *)
(* finite leaves it in the debugger for ever (train.py:142-143, 185, 221). *)
ResumeCompletes ==
  (pc = "load" /\ mode = "resume" /\ Readable(Last)) ~>
    \/ pc = "dead"
    \/ [](pc = "debugger")
    \/ pc = "done" /\ Readable(Last) /\ disk[Last].epoch >= epochs - 1

(***************************************************************************)
(* What a comment of train.py says, and the code does not do.              *)
(***************************************************************************)
IsPrefix(l, m) == Len(l) <= Len(m) /\ SubSeq(m, 1, Len(l)) = l

(* "Only when this round is the new best is best.pth overwritten"          *)
(* (train.py:360): a resumed session replaces the best.pth of an earlier   *)
(* epoch of its own lineage only by a checkpoint with no lower score.      *)
OverwritesBest == pc = "save" /\ pc' = "write" /\ Head(todo) = Best
OnlyNewBestOverwrites ==
  [][(OverwritesBest /\ mode = "resume" /\ Readable(Best)
       /\ IsPrefix(disk[Best].log, chkpt.log)) =>
     Score(chkpt.best_results) >= Score(disk[Best].best_results)]_vars
=============================================================================
