--------------------------- MODULE TrainingProofs ---------------------------
(***************************************************************************)
(* What holds of Training for every number of epochs, batches, sessions    *)
(* and metrics.                                                            *)
(***************************************************************************)
EXTENDS Training, TLAPS

(* Inside the epoch loop the epoch is one of the run, and a save has a     *)
(* checkpoint and a file.                                                  *)
LoopOK ==
  /\ pc \in {"batch", "debugger", "eval", "log", "save", "write"} => epoch < epochs
  /\ pc \in {"save", "write"} => chkpt \in Checkpoint
  /\ pc = "write" => todo # <<>>

TypeInv == TypeOK /\ LoopOK

(***************************************************************************)
(* Facts about the constants and the small operators.                      *)
(***************************************************************************)
LEMMA ZeroIsResult == Zero \in Results /\ Results \subseteq [map: Nat, miou: Nat, dice: Nat]
  BY MetricsAssumption DEF Zero, Results

LEMMA EpochFacts ==
  ASSUME NEW n \in EpochChoices
  PROVE  /\ n \in Nat /\ n > 0
         /\ \A e \in 0 .. (n - 1) : Deploy(e) \in FilesUsed
  BY EpochsAssumption DEF FilesUsed, DeployEpochs, Deploy

LEMMA TagFacts ==
  /\ \A c \in Checkpoint : c.tag = "ok"
  /\ Absent.tag = "absent" /\ Torn.tag = "torn"
  /\ \A c \in Content : c.tag = "ok" <=> c \in Checkpoint
  BY DEF Checkpoint, Content, Absent, Torn

LEMMA FreshTypes ==
  ASSUME Fresh
  PROVE  /\ start_epoch' \in Nat /\ epoch' \in Nat /\ i' \in 0 .. Batches
         /\ s' \in Nat \cup {Unbound} /\ model' \in Nat /\ opt' \in Nat
         /\ results' \in Results
         /\ best' \in [epoch: Nat \cup {-1}, score: Nat \cup {-1}, res: Results,
                       map: Nat \cup {-1}, miou: Nat \cup {-1}, dice: Nat \cup {-1}]
         /\ fitness' \in Nat
         /\ chkpt' \in Checkpoint \cup {Absent} /\ todo' \in Seq(FilesUsed)
  BY ZeroIsResult, BatchesAssumption DEF Fresh, NothingBest

(* train.py:357-372 writes last.pth, best.pth and deploy<epoch>.pth only.  *)
LEMMA SaveListType ==
  ASSUME epoch < epochs, epoch \in Nat, epochs \in EpochChoices, NEW b \in BOOLEAN
  PROVE  SaveList(b) \in Seq(FilesUsed)
<1>1. Deploy(epoch) \in FilesUsed
  BY EpochFacts
<1>2. Last \in FilesUsed /\ Best \in FilesUsed
  BY DEF FilesUsed
<1> QED
  BY <1>1, <1>2 DEF SaveList
-----------------------------------------------------------------------------
(***************************************************************************)
(* Types.                                                                  *)
(***************************************************************************)
LEMMA TypeInit == Init => TypeInv
<1> SUFFICES ASSUME Init PROVE TypeInv
  OBVIOUS
<1> USE ZeroIsResult, BatchesAssumption
<1>1. disk \in [FilesUsed -> Content]
  BY DEF Init, Content
<1>2. best \in [epoch: Nat \cup {-1}, score: Nat \cup {-1}, res: Results,
               map: Nat \cup {-1}, miou: Nat \cup {-1}, dice: Nat \cup {-1}]
  BY DEF Init, NothingBest
<1>3. TypeOK
  BY <1>1, <1>2 DEF Init, TypeOK
<1> QED
  BY <1>3 DEF Init, TypeInv, LoopOK

(* Ending a session, for whatever reason.                                  *)
LEMMA ExitTypes ==
  ASSUME TypeInv, NEW how \in {"done", "dead"}, Exit(how),
         UNCHANGED <<disk, logf, starts>>,
         summary' \in [tag: {"ok"}, best_epoch: Nat \cup {-1},
                       best_score: Nat \cup {-1}, evaluated: Nat]
                      \cup {NoSummary}
  PROVE  TypeInv'
<1>1. TypeOK'
  BY FreshTypes DEF Exit, TypeInv, TypeOK
<1> QED
  BY <1>1 DEF Exit, TypeInv, LoopOK

LEMMA TypeStep == TypeInv /\ [Next]_vars => TypeInv'
<1> SUFFICES ASSUME TypeInv, [Next]_vars PROVE TypeInv'
  OBVIOUS
<1> USE DEF TypeInv, durable, progress, network, selection, saving
<1>1. CASE UNCHANGED vars
  BY <1>1 DEF vars, TypeOK, LoopOK
<1>2. ASSUME NEW m \in {"scratch", "load", "resume"}, NEW n \in EpochChoices,
             Start(m, n)
      PROVE  TypeInv'
  <2>1. TypeOK'
    BY <1>2, FreshTypes DEF Start, RemoveLog, TypeOK
  <2> QED
    BY <1>2, <2>1 DEF Start, LoopOK
<1>3. CASE LoadNothing \/ LoadWeights \/ LeaveLoop
  BY <1>3 DEF LoadNothing, LoadWeights, LeaveLoop, TypeOK, LoopOK
<1>4. CASE LoadCheckpoint
  <2> DEFINE c == disk[Last]
  <2>1. c \in Checkpoint
    BY <1>4, TagFacts DEF LoadCheckpoint, Readable, TypeOK, FilesUsed
  <2>2. /\ c.model \in Nat /\ c.fitness \in Nat /\ ResumeLog(c) \in Seq(Line)
        /\ ResumeMoments(c) \in Nat /\ ResumeEpoch(c) \in Nat
    BY <2>1 DEF Checkpoint, ResumeLog, ResumeMoments, ResumeEpoch
  <2> QED
    BY <1>4, <2>2 DEF LoadCheckpoint, TypeOK, LoopOK
<1>5. CASE LoadFails \/ EvaluateFails \/ LogUnbound \/ ReportFails \/ Kill
  <2>1. /\ UNCHANGED <<disk, logf, starts>> /\ summary' = summary
        /\ Exit("dead") \/ Exit("done")
    BY <1>5 DEF LoadFails, EvaluateFails, LogUnbound, ReportFails, Kill
  <2> QED
    BY <2>1, ExitTypes DEF TypeOK
<1>6. CASE EnterEpoch
  BY <1>6, BatchesAssumption DEF EnterEpoch, TypeOK, LoopOK
<1>7. CASE TrainBatch \/ SkipBatch
  <2>1. i' \in 0 .. Batches
    BY <1>7, BatchesAssumption DEF TrainBatch, SkipBatch, TypeOK
  <2>2. /\ s' \in Nat \cup {Unbound} /\ model' \in Nat /\ opt' \in Nat
        /\ pc = "batch" /\ pc' = pc
    BY <1>7 DEF TrainBatch, SkipBatch, TypeOK
  <2>3. UNCHANGED <<durable, starts, mode, epochs, start_epoch, epoch, selection,
                    saving>>
    BY <1>7 DEF TrainBatch, SkipBatch
  <2> QED
    BY <2>1, <2>2, <2>3 DEF TypeOK, LoopOK
<1>8. CASE NonFiniteLoss \/ Continue \/ LastBatch \/ SkipEvaluate
  BY <1>8 DEF NonFiniteLoss, Continue, LastBatch, SkipEvaluate, TypeOK, LoopOK
<1>9. CASE Evaluate
  BY <1>9 DEF Evaluate, TypeOK, LoopOK, Results
<1>10. CASE WriteLog
  <2> DEFINE b == EvalPoint(epoch) /\ IsBest(results)
  <2>1. epoch < epochs /\ epoch \in Nat /\ s \in Nat
    BY <1>10 DEF WriteLog, TypeOK, LoopOK
  <2>2. LogLine \in Line /\ logf' \in Seq(Line)
    BY <1>10, <2>1 DEF WriteLog, LogLine, Line, TypeOK
  <2>3. results \in [map: Nat, miou: Nat, dice: Nat]
    BY ZeroIsResult DEF TypeOK
  <2>4. best' \in [epoch: Nat \cup {-1}, score: Nat \cup {-1}, res: Results,
                   map: Nat \cup {-1}, miou: Nat \cup {-1}, dice: Nat \cup {-1}]
    BY <1>10, <2>1, <2>3 DEF WriteLog, NewBest, Score, TypeOK
  <2>5. fitness' \in Nat
    BY <1>10, <2>3 DEF WriteLog, Score, TypeOK
  <2>6. todo' \in Seq(FilesUsed)
    <3>1. todo' = SaveList(b) /\ b \in BOOLEAN
      BY <1>10 DEF WriteLog, EvalPoint, IsBest
    <3> QED
      BY <3>1, <2>1, SaveListType DEF TypeOK
  <2>7. chkpt' \in Checkpoint
    BY <1>10, <2>1, <2>2, <2>4, <2>5 DEF WriteLog, Checkpoint, TypeOK
  <2>8. pc' = "save" /\ UNCHANGED <<disk, summary, starts, mode, progress, network, results>>
    BY <1>10 DEF WriteLog
  <2> QED
    BY <2>1, <2>2, <2>4, <2>5, <2>6, <2>7, <2>8 DEF TypeOK, LoopOK
<1>11. CASE OpenFile
  <2>1. disk' \in [FilesUsed -> Content]
    BY <1>11 DEF OpenFile, TypeOK, Content
  <2> QED
    BY <1>11, <2>1 DEF OpenFile, TypeOK, LoopOK
<1>12. CASE CloseFile
  <2>1. disk' \in [FilesUsed -> Content] /\ todo' \in Seq(FilesUsed)
    BY <1>12 DEF CloseFile, TypeOK, LoopOK, Content
  <2> QED
    BY <1>12, <2>1 DEF CloseFile, TypeOK, LoopOK
<1>13. CASE NextEpoch
  BY <1>13 DEF NextEpoch, TypeOK, LoopOK
<1>14. CASE Report
  <2>1. disk[Best] \in Checkpoint
    BY <1>14, TagFacts DEF Report, Readable, TypeOK, FilesUsed
  <2>2. summary' \in [tag: {"ok"}, best_epoch: Nat \cup {-1},
                      best_score: Nat \cup {-1}, evaluated: Nat]
    BY <1>14, <2>1 DEF Report, TypeOK, Checkpoint
  <2>3. Exit("done") /\ UNCHANGED <<disk, logf, starts>>
    BY <1>14 DEF Report
  <2> QED
    BY <2>2, <2>3, ExitTypes
<1> QED
  BY <1>1, <1>2, <1>3, <1>4, <1>5, <1>6, <1>7, <1>8, <1>9, <1>10, <1>11,
     <1>12, <1>13, <1>14 DEF Next, Session

(* Every reachable state of the training is well typed, for every number   *)
(* of sessions, epochs and batches (train.py:65-510).                      *)
THEOREM TrainingTypes == Spec => []TypeOK
<1>1. Spec => []TypeInv
  BY TypeInit, TypeStep, PTL DEF Spec
<1>2. TypeInv => TypeOK
  BY DEF TypeInv
<1> QED
  BY <1>1, <1>2, PTL
-----------------------------------------------------------------------------
(***************************************************************************)
(* The log in a checkpoint.                                                *)
(***************************************************************************)
Looping == pc \in {"head", "batch", "debugger", "eval", "log"}
Saving == pc \in {"save", "write"}

GoodLog(l, n) ==
  /\ Len(l) = n
  /\ \A k \in 1 .. n : l[k].label < k /\ (OddLosses \/ l[k].label = k - 1)

(* The progress line that ends up in the log is the one of this epoch.     *)
LabelInv ==
  /\ pc = "load" => s = Unbound /\ logf = <<>> /\ epoch = 0
  /\ Looping \/ Saving => s <= epoch
  /\ ~OddLosses =>
       /\ pc # "debugger"
       /\ pc \in {"batch", "eval", "log"} /\ i > 0 => s = epoch
       /\ pc \in {"eval", "log"} => i = Batches
       /\ Batches = 0 => s = Unbound

LogInv ==
  /\ \A f \in FilesUsed : Readable(f) => GoodLog(disk[f].log, disk[f].epoch + 1)
  /\ Looping => GoodLog(logf, epoch)
  /\ Saving => /\ chkpt.epoch = epoch /\ chkpt.log = logf
                /\ GoodLog(logf, epoch + 1)

LEMMA LabelInit == Init => LabelInv
  BY DEF Init, LabelInv, Looping, Saving

LEMMA LabelStep == TypeInv /\ LabelInv /\ [Next]_vars => LabelInv'
<1> SUFFICES ASSUME TypeInv, LabelInv, [Next]_vars PROVE LabelInv'
  OBVIOUS
<1> USE BatchesAssumption DEF TypeInv, LabelInv, Looping, Saving, Unbound,
        progress, network, selection, saving, durable
<1>1. CASE UNCHANGED vars
  BY <1>1 DEF vars
<1>2. ASSUME NEW m \in {"scratch", "load", "resume"}, NEW n \in EpochChoices,
             Start(m, n)
      PROVE  LabelInv'
  BY <1>2 DEF Start, RemoveLog, Fresh
<1>3. CASE LoadNothing \/ LoadWeights \/ LeaveLoop
  BY <1>3 DEF LoadNothing, LoadWeights, LeaveLoop
<1>4. CASE LoadCheckpoint
  <2>1. disk[Last] \in Checkpoint
    BY <1>4, TagFacts DEF LoadCheckpoint, Readable, TypeOK, FilesUsed
  <2>2. epoch' \in Nat
    BY <1>4, <2>1 DEF LoadCheckpoint, ResumeEpoch, Checkpoint
  <2>3. pc = "load" /\ pc' = "head" /\ s' = s
    BY <1>4 DEF LoadCheckpoint
  <2> QED
    BY <2>2, <2>3
<1>5. CASE LoadFails \/ EvaluateFails \/ LogUnbound \/ Report \/ ReportFails \/ Kill
  BY <1>5 DEF LoadFails, EvaluateFails, LogUnbound, Report, ReportFails, Kill,
              Exit, Fresh
<1>6. CASE EnterEpoch
  BY <1>6 DEF EnterEpoch, TypeOK
<1>7. CASE TrainBatch
  BY <1>7 DEF TrainBatch, TypeOK
<1>8. CASE SkipBatch \/ NonFiniteLoss \/ Continue
  BY <1>8 DEF SkipBatch, NonFiniteLoss, Continue, TypeOK
<1>9. CASE LastBatch \/ SkipEvaluate \/ Evaluate
  BY <1>9 DEF LastBatch, SkipEvaluate, Evaluate, TypeOK
<1>10. CASE WriteLog \/ OpenFile \/ CloseFile
  BY <1>10 DEF WriteLog, OpenFile, CloseFile, TypeOK
<1>11. CASE NextEpoch
  BY <1>11 DEF NextEpoch, TypeOK
<1> QED
  BY <1>1, <1>2, <1>3, <1>4, <1>5, <1>6, <1>7, <1>8, <1>9, <1>10, <1>11
     DEF Next, Session

(* Writing one file leaves the others as they are.                         *)
LEMMA DiskUpdate ==
  ASSUME TypeOK, NEW f \in FilesUsed, NEW c, disk' = [disk EXCEPT ![f] = c]
  PROVE  /\ disk'[f] = c
         /\ \A g \in FilesUsed : g # f => disk'[g] = disk[g]
  BY DEF TypeOK

LEMMA LogInit == Init => LogInv
  BY DEF Init, LogInv, Readable, Looping, Saving, Absent

LEMMA LogStep == TypeInv /\ LabelInv /\ LogInv /\ [Next]_vars => LogInv'
<1> SUFFICES ASSUME TypeInv, LabelInv, LogInv, [Next]_vars PROVE LogInv'
  OBVIOUS
<1> USE DEF LogInv, Looping, Saving, Readable, progress, network, selection,
        saving, durable
<1>1. CASE UNCHANGED vars
  BY <1>1 DEF vars
<1>2. ASSUME NEW m \in {"scratch", "load", "resume"}, NEW n \in EpochChoices,
             Start(m, n)
      PROVE  LogInv'
  BY <1>2 DEF Start, RemoveLog, Fresh
<1>3. CASE LoadNothing \/ LoadWeights
  <2>1. GoodLog(<<>>, 0)
    BY DEF GoodLog
  <2> QED
    BY <1>3, <2>1 DEF LoadNothing, LoadWeights, LabelInv
<1>4. CASE LoadCheckpoint
  <2>1. Last \in FilesUsed
    BY DEF FilesUsed
  <2> QED
    BY <1>4, <2>1 DEF LoadCheckpoint, ResumeLog, ResumeEpoch
<1>5. CASE LoadFails \/ EvaluateFails \/ LogUnbound \/ Report \/ ReportFails \/ Kill
  BY <1>5 DEF LoadFails, EvaluateFails, LogUnbound, Report, ReportFails, Kill,
              Exit, Fresh
<1>6. CASE EnterEpoch \/ LeaveLoop \/ TrainBatch \/ SkipBatch \/ NonFiniteLoss \/ Continue
  BY <1>6 DEF EnterEpoch, LeaveLoop, TrainBatch, SkipBatch, NonFiniteLoss, Continue
<1>7. CASE LastBatch \/ SkipEvaluate \/ Evaluate
  BY <1>7 DEF LastBatch, SkipEvaluate, Evaluate
<1>8. CASE WriteLog
  <2>1. /\ epoch \in Nat /\ s \in Nat /\ s <= epoch
        /\ OddLosses \/ s = epoch
    BY <1>8, BatchesAssumption DEF WriteLog, LabelInv, TypeInv, TypeOK, Unbound
  <2>2. logf \in Seq(Line) /\ GoodLog(logf, epoch)
    BY <1>8 DEF WriteLog, TypeInv, TypeOK
  <2>3. logf' = Append(logf, LogLine) /\ LogLine.label = s
    BY <1>8 DEF WriteLog, LogLine
  <2>4. /\ Len(logf') = epoch + 1
        /\ \A k \in 1 .. epoch : logf'[k] = logf[k]
        /\ logf'[epoch + 1] = LogLine
    BY <2>1, <2>2, <2>3 DEF GoodLog
  <2>5. GoodLog(logf', epoch + 1)
    BY <2>1, <2>2, <2>3, <2>4 DEF GoodLog
  <2>6. /\ chkpt'.epoch = epoch /\ chkpt'.log = logf' /\ pc' = "save"
        /\ epoch' = epoch /\ disk' = disk
    BY <1>8 DEF WriteLog
  <2> QED
    BY <2>5, <2>6
<1>9. CASE OpenFile
  <2>1. Head(todo) \in FilesUsed
    BY <1>9 DEF OpenFile, TypeInv, TypeOK
  <2>2. /\ disk'[Head(todo)].tag = "torn"
        /\ \A g \in FilesUsed : g # Head(todo) => disk'[g] = disk[g]
    BY <1>9, <2>1, DiskUpdate, TagFacts DEF OpenFile, TypeInv
  <2> QED
    BY <1>9, <2>2 DEF OpenFile
<1>10. CASE CloseFile
  <2>1. Head(todo) \in FilesUsed
    BY <1>10 DEF CloseFile, TypeInv, LoopOK, TypeOK
  <2>2. /\ disk'[Head(todo)] = chkpt
        /\ \A g \in FilesUsed : g # Head(todo) => disk'[g] = disk[g]
    BY <1>10, <2>1, DiskUpdate DEF CloseFile, TypeInv
  <2> QED
    BY <1>10, <2>2 DEF CloseFile
<1>11. CASE NextEpoch
  BY <1>11 DEF NextEpoch
<1> QED
  BY <1>1, <1>2, <1>3, <1>4, <1>5, <1>6, <1>7, <1>8, <1>9, <1>10, <1>11
     DEF Next, Session

(* Every readable checkpoint of every reachable state carries the complete *)
(* results log of its lineage, whatever kills, restarts and changes of the *)
(* number of epochs came before (train.py:80-81, 139-143, 287-288,         *)
(* 345-355).                                                               *)
THEOREM TrainingLogComplete == Spec => []CheckpointLogComplete
<1>1. Spec => [](TypeInv /\ LabelInv /\ LogInv)
  BY TypeInit, LabelInit, LogInit, TypeStep, LabelStep, LogStep, PTL DEF Spec
<1>2. TypeInv /\ LogInv => CheckpointLogComplete
  BY DEF LogInv, CheckpointLogComplete, LogComplete, GoodLog
<1> QED
  BY <1>1, <1>2, PTL
-----------------------------------------------------------------------------
(***************************************************************************)
(* last.pth is a Journal.                                                  *)
(***************************************************************************)
LastLog == IF Readable(Last) THEN disk[Last].log ELSE <<>>
LastNext == todo # <<>> /\ Head(todo) = Last

(* In a session result.txt is the log of last.pth, or empty; last.pth is   *)
(* the first file of an epoch's saves, and once it is written agrees with  *)
(* result.txt again.                                                       *)
LastInv ==
  /\ pc = "load" => logf = <<>>
  /\ Looping => logf \in {<<>>, LastLog}
  /\ Saving => \A k \in 2 .. Len(todo) : todo[k] # Last
  /\ pc = "save" /\ LastNext =>
       SubSeq(chkpt.log, 1, Len(chkpt.log) - 1) \in {<<>>, LastLog}
  /\ pc = "write" /\ LastNext => ~Readable(Last)
  /\ Saving /\ ~LastNext => LastLog = logf

LEMMA LastInit == Init => LastInv
  BY DEF Init, LastInv, Looping, Saving

LEMMA LastStep ==
  TypeInv /\ LabelInv /\ LogInv /\ LastInv /\ [Next]_vars => LastInv'
<1> SUFFICES ASSUME TypeInv, LabelInv, LogInv, LastInv, [Next]_vars PROVE LastInv'
  OBVIOUS
<1> USE DEF LastInv, Looping, Saving, LastNext, LastLog, Readable, progress,
        network, selection, saving, durable
<1>1. CASE UNCHANGED vars
  BY <1>1 DEF vars
<1>2. ASSUME NEW m \in {"scratch", "load", "resume"}, NEW n \in EpochChoices,
             Start(m, n)
      PROVE  LastInv'
  BY <1>2 DEF Start, RemoveLog, Fresh
<1>3. CASE LoadNothing \/ LoadWeights
  BY <1>3 DEF LoadNothing, LoadWeights
<1>4. CASE LoadCheckpoint
  BY <1>4 DEF LoadCheckpoint, ResumeLog
<1>5. CASE LoadFails \/ EvaluateFails \/ LogUnbound \/ Report \/ ReportFails \/ Kill
  BY <1>5 DEF LoadFails, EvaluateFails, LogUnbound, Report, ReportFails, Kill,
              Exit, Fresh
<1>6. CASE EnterEpoch \/ LeaveLoop \/ TrainBatch \/ SkipBatch \/ NonFiniteLoss \/ Continue
  BY <1>6 DEF EnterEpoch, LeaveLoop, TrainBatch, SkipBatch, NonFiniteLoss, Continue
<1>7. CASE LastBatch \/ SkipEvaluate \/ Evaluate
  BY <1>7 DEF LastBatch, SkipEvaluate, Evaluate
<1>8. CASE WriteLog
  <2> DEFINE b == EvalPoint(epoch) /\ IsBest(results)
  <2>1. /\ logf \in Seq(Line) /\ LogLine \in Line
        /\ logf' = Append(logf, LogLine) /\ chkpt'.log = logf'
    BY <1>8 DEF WriteLog, TypeInv, TypeOK, Unbound, LogLine, Line
  <2>2. SubSeq(logf', 1, Len(logf') - 1) = logf
    BY <2>1
  <2>3. epoch \in Nat
    BY DEF TypeInv, TypeOK
  <2>4. todo' = SaveList(b)
    BY <1>8 DEF WriteLog
  <2>5. /\ Head(todo') = Last /\ todo' # <<>>
        /\ \A k \in 2 .. Len(todo') : todo'[k] # Last
    BY <2>3, <2>4 DEF SaveList, Last, Best, Deploy
  <2>6. pc = "log" /\ pc' = "save" /\ disk' = disk
    BY <1>8 DEF WriteLog
  <2> QED
    BY <2>1, <2>2, <2>5, <2>6
<1>9. CASE OpenFile
  <2>1. Head(todo) \in FilesUsed /\ Last \in FilesUsed
    BY <1>9 DEF OpenFile, TypeInv, TypeOK, FilesUsed
  <2>2. /\ disk'[Head(todo)].tag = "torn"
        /\ \A g \in FilesUsed : g # Head(todo) => disk'[g] = disk[g]
    BY <1>9, <2>1, DiskUpdate, TagFacts DEF OpenFile, TypeInv
  <2>3. /\ pc = "save" /\ pc' = "write" /\ todo # <<>>
        /\ UNCHANGED <<logf, todo, chkpt>>
    BY <1>9 DEF OpenFile
  <2> QED
    BY <2>1, <2>2, <2>3
<1>10. CASE CloseFile
  <2>1. Head(todo) \in FilesUsed /\ Last \in FilesUsed /\ todo # <<>>
    BY <1>10 DEF CloseFile, TypeInv, LoopOK, TypeOK, FilesUsed
  <2>2. /\ disk'[Head(todo)] = chkpt
        /\ \A g \in FilesUsed : g # Head(todo) => disk'[g] = disk[g]
    BY <1>10, <2>1, DiskUpdate DEF CloseFile, TypeInv
  <2>3. /\ pc = "write" /\ pc' = "save" /\ todo' = Tail(todo)
        /\ UNCHANGED <<logf, chkpt>>
    BY <1>10 DEF CloseFile
  <2>4. /\ todo' \in Seq(FilesUsed)
        /\ \A k \in 1 .. Len(todo') : todo'[k] # Last
    <3>1. todo \in Seq(FilesUsed)
      BY DEF TypeInv, TypeOK
    <3>2. \A k \in 1 .. Len(todo') : todo'[k] = todo[k + 1] /\ k + 1 \in 2 .. Len(todo)
      BY <2>1, <2>3, <3>1
    <3> QED
      BY <2>1, <2>3, <3>1, <3>2
  <2>5. ~LastNext'
    BY <2>4
  <2>6. chkpt.tag = "ok" /\ chkpt.log = logf
    BY <2>3, TagFacts DEF TypeInv, LoopOK, LogInv
  <2>7. LastLog' = logf
    BY <2>1, <2>2, <2>3, <2>6
  <2> QED
    BY <2>3, <2>4, <2>5, <2>7
<1>11. CASE NextEpoch
  BY <1>11 DEF NextEpoch
<1> QED
  BY <1>1, <1>2, <1>3, <1>4, <1>5, <1>6, <1>7, <1>8, <1>9, <1>10, <1>11
     DEF Next, Session

LEMMA JournalInit == Init => Durable!JInit
<1>1. ASSUME Init PROVE ~Readable(Last) /\ pc # "write"
  BY <1>1 DEF Init, Readable, FilesUsed, Absent
<1> QED
  BY <1>1 DEF Durable!JInit

LEMMA JournalStep ==
  TypeInv /\ LogInv /\ LastInv /\ [Next]_vars => [Durable!JNext]_(Durable!jvars)
<1> SUFFICES ASSUME TypeInv, LogInv, LastInv, [Next]_vars
             PROVE  [Durable!JNext]_(Durable!jvars)
  OBVIOUS
<1> DEFINE J == IF Readable(Last) THEN disk[Last].log ELSE <<>>
           F == IF pc = "write" /\ Head(todo) = Last THEN chkpt.log ELSE <<>>
<1> USE DEF durable, progress, network, selection, saving
<1> HIDE DEF J, F
<1>s. ASSUME J' = J, F' = F PROVE [Durable!JNext]_(Durable!jvars)
  BY <1>s DEF Durable!jvars, J, F
<1>a. pc = "write" => todo # <<>>
  BY DEF TypeInv, LoopOK
<1>b. pc = "write" => chkpt.log # <<>>
  <2>1. pc = "write" => Len(chkpt.log) = epoch + 1 /\ epoch \in Nat
    BY DEF LogInv, Saving, GoodLog, TypeInv, TypeOK
  <2> QED
    BY <2>1
<1>1. CASE UNCHANGED vars
  BY <1>1, <1>s DEF vars, J, F, Readable
<1>2. ASSUME NEW m \in {"scratch", "load", "resume"}, NEW n \in EpochChoices,
             Start(m, n)
      PROVE  [Durable!JNext]_(Durable!jvars)
  BY <1>2, <1>s DEF Start, Resting, J, F, Readable
<1>3. CASE LoadNothing \/ LoadWeights \/ LoadCheckpoint
  BY <1>3, <1>s DEF LoadNothing, LoadWeights, LoadCheckpoint, J, F, Readable
<1>4. CASE LoadFails \/ EvaluateFails \/ LogUnbound \/ Report \/ ReportFails
  BY <1>4, <1>s DEF LoadFails, EvaluateFails, LogUnbound, Report, ReportFails,
                    Exit, J, F, Readable
<1>5. CASE Kill
  <2>1. CASE pc = "write" /\ Head(todo) = Last
    <3>1. ~Readable(Last) /\ disk' = disk /\ pc' = "dead"
      BY <1>5, <1>a, <2>1 DEF LastInv, LastNext, Kill, Exit
    <3>2. Durable!Abandon
      BY <1>b, <2>1, <3>1 DEF Durable!Abandon, Readable
    <3> QED
      BY <3>2 DEF Durable!JNext
  <2>2. CASE ~(pc = "write" /\ Head(todo) = Last)
    BY <1>5, <1>s, <2>2 DEF Kill, Exit, J, F, Readable
  <2> QED
    BY <2>1, <2>2
<1>6. CASE EnterEpoch \/ LeaveLoop \/ TrainBatch \/ SkipBatch \/ NonFiniteLoss \/ Continue
  BY <1>6, <1>s DEF EnterEpoch, LeaveLoop, TrainBatch, SkipBatch, NonFiniteLoss, Continue,
                    J, F, Readable
<1>7. CASE LastBatch \/ SkipEvaluate \/ Evaluate \/ WriteLog \/ NextEpoch
  BY <1>7, <1>s DEF LastBatch, SkipEvaluate, Evaluate, WriteLog, NextEpoch,
                    J, F, Readable
<1>8. CASE OpenFile
  <2>1. Head(todo) \in FilesUsed /\ Last \in FilesUsed
    BY <1>8 DEF OpenFile, TypeInv, TypeOK, FilesUsed
  <2>2. /\ disk'[Head(todo)].tag = "torn"
        /\ \A g \in FilesUsed : g # Head(todo) => disk'[g] = disk[g]
    BY <1>8, <2>1, DiskUpdate, TagFacts DEF OpenFile, TypeInv
  <2>3. /\ pc = "save" /\ pc' = "write" /\ todo # <<>>
        /\ UNCHANGED <<todo, chkpt>>
    BY <1>8 DEF OpenFile
  <2>4. CASE Head(todo) = Last
    <3>1. SubSeq(chkpt.log, 1, Len(chkpt.log) - 1) \in {<<>>, LastLog}
      BY <2>3, <2>4 DEF LastInv, LastNext
    <3>2. Len(chkpt.log) = epoch + 1 /\ epoch \in Nat
      BY <2>3 DEF LogInv, Saving, GoodLog, TypeInv, TypeOK
    <3>3. chkpt.log # <<>>
      BY <3>2
    <3>4. Durable!Begin
      BY <2>2, <2>3, <2>4, <3>1, <3>3 DEF Durable!Begin, LastLog, Readable
    <3> QED
      BY <3>4 DEF Durable!JNext
  <2>5. CASE Head(todo) # Last
    BY <1>s, <2>1, <2>2, <2>3, <2>5 DEF J, F, Readable
  <2> QED
    BY <2>4, <2>5
<1>9. CASE CloseFile
  <2>1. Head(todo) \in FilesUsed /\ Last \in FilesUsed
    BY <1>9, <1>a DEF CloseFile, TypeInv, TypeOK, FilesUsed
  <2>2. /\ disk'[Head(todo)] = chkpt
        /\ \A g \in FilesUsed : g # Head(todo) => disk'[g] = disk[g]
    BY <1>9, <2>1, DiskUpdate DEF CloseFile, TypeInv
  <2>3. pc = "write" /\ pc' = "save" /\ chkpt.tag = "ok"
    BY <1>9, TagFacts DEF CloseFile, TypeInv, LoopOK
  <2>4. CASE Head(todo) = Last
    <3>1. Durable!Finish
      BY <1>b, <2>1, <2>2, <2>3, <2>4 DEF Durable!Finish, Readable
    <3> QED
      BY <3>1 DEF Durable!JNext
  <2>5. CASE Head(todo) # Last
    BY <1>s, <2>1, <2>2, <2>3, <2>5 DEF J, F, Readable
  <2> QED
    BY <2>4, <2>5
<1> QED
  BY <1>1, <1>2, <1>3, <1>4, <1>5, <1>6, <1>7, <1>8, <1>9 DEF Next, Session

(* last.pth implements the Journal: it grows by one epoch of its lineage,  *)
(* starts a new lineage, or is lost to a kill inside torch.save, and       *)
(* nothing else ever happens to it (train.py:80-81, 139-143, 337-358).     *)
THEOREM TrainingIsJournal == Spec => LastIsJournal
<1>1. Spec => [](TypeInv /\ LabelInv /\ LogInv /\ LastInv)
  BY TypeInit, LabelInit, LogInit, LastInit, TypeStep, LabelStep, LogStep,
     LastStep, PTL DEF Spec
<1> QED
  BY <1>1, JournalInit, JournalStep, PTL DEF Spec, LastIsJournal, Durable!JSpec
-----------------------------------------------------------------------------
(***************************************************************************)
(* What the checkpoints hold besides the log: the optimizer steps of their *)
(* epochs, the deployable weights of the last one, and the best of the     *)
(* session.                                                                *)
(***************************************************************************)

Trained == pc \in {"debugger", "eval", "log", "save", "write"}

(***************************************************************************)
(* Weights and moments.                                                    *)
(***************************************************************************)
Steps(e) == e * Batches
Taken(n) == model <= n /\ (~OddLosses => model = n)

(* The moments are those of the weights as long as there is an epoch to    *)
(* train: only the checkpoint of the last epoch has none, and a session    *)
(* that resumes it trains nothing.                                         *)
WeightInv ==
  /\ pc = "load" => model = 0 /\ opt = 0 /\ epoch = 0
  /\ (Looping \/ Saving) /\ epoch < epochs => opt = model
  /\ pc = "head" => Taken(Steps(epoch))
  /\ pc = "batch" => Taken(Steps(epoch) + i)
  /\ Trained => Taken(Steps(epoch + 1))
  /\ Saving =>
       /\ chkpt.epoch = epoch /\ chkpt.model = model
       /\ chkpt.opt = IF FinalEpoch THEN NoMoments ELSE opt
  /\ WeightsMatchEpoch

LEMMA StepsFacts ==
  ASSUME NEW e \in Nat
  PROVE  /\ Steps(e) \in Nat /\ Steps(0) = 0
         /\ Steps(e + 1) = Steps(e) + Batches
  BY BatchesAssumption DEF Steps

LEMMA WeightInit == Init => WeightInv
  BY DEF Init, WeightInv, Looping, Saving, Trained, WeightsMatchEpoch, Readable, Absent

LEMMA WeightStep ==
  ASSUME NEW n, EpochChoices = {n}
  PROVE  TypeInv /\ WeightInv /\ [Next]_vars => WeightInv'
<1> SUFFICES ASSUME TypeInv, WeightInv, [Next]_vars PROVE WeightInv'
  OBVIOUS
<1>t. /\ epochs = n /\ n \in Nat /\ epoch \in Nat /\ model \in Nat /\ opt \in Nat
      /\ i \in 0 .. Batches /\ Batches \in Nat /\ TypeOK
      /\ Steps(epoch) \in Nat /\ Steps(0) = 0
      /\ Steps(epoch + 1) = Steps(epoch) + Batches
  BY EpochsAssumption, BatchesAssumption, StepsFacts DEF TypeInv, TypeOK
<1> USE DEF progress, network, selection, saving, durable
<1>w. ASSUME disk' = disk PROVE WeightsMatchEpoch'
  BY <1>w DEF WeightInv, WeightsMatchEpoch, Readable
<1>1. CASE UNCHANGED vars
  BY <1>1, <1>w DEF vars, WeightInv, Looping, Saving, Trained, Taken, Steps, FinalEpoch
<1>2. ASSUME NEW m \in {"scratch", "load", "resume"}, NEW k \in EpochChoices,
             Start(m, k)
      PROVE  WeightInv'
  BY <1>2, <1>w DEF Start, Fresh, WeightInv, Looping, Saving, Trained
<1>3. CASE LoadNothing \/ LoadWeights
  <2>1. /\ pc' = "head" /\ UNCHANGED <<disk, epoch, epochs, model, opt>>
        /\ pc = "load"
    BY <1>3 DEF LoadNothing, LoadWeights
  <2> QED
    BY <2>1, <1>t, <1>w DEF WeightInv, Looping, Saving, Trained, Taken, Steps
<1>4. CASE LoadCheckpoint
  <2> DEFINE c == disk[Last]
  <2>1. c \in Checkpoint /\ Last \in FilesUsed /\ Readable(Last)
    BY <1>4, TagFacts DEF LoadCheckpoint, Readable, TypeInv, TypeOK, FilesUsed
  <2>2. /\ c.epoch \in Nat /\ c.model \in Nat
        /\ c.model <= Steps(c.epoch + 1)
        /\ ~OddLosses => c.model = Steps(c.epoch + 1)
        /\ c.opt = NoMoments <=> c.epoch = n - 1
        /\ c.opt # NoMoments => c.opt = c.model
    BY <2>1, <1>t DEF WeightInv, WeightsMatchEpoch, Steps, Checkpoint
  <2>3. /\ pc' = "head" /\ epochs' = epochs /\ disk' = disk
        /\ model' = c.model /\ epoch' = c.epoch + 1
        /\ opt' = IF c.opt # NoMoments THEN c.opt ELSE 0
    BY <1>4 DEF LoadCheckpoint, ResumeMoments, ResumeEpoch
  <2> HIDE DEF c
  <2>4. epoch' < epochs' => opt' = model'
    BY <1>t, <2>2, <2>3
  <2>5. Taken(Steps(epoch))'
    BY <2>2, <2>3 DEF Taken, Steps
  <2> QED
    BY <2>3, <2>4, <2>5, <1>w DEF WeightInv, Looping, Saving, Trained
<1>5. CASE LoadFails \/ EvaluateFails \/ LogUnbound \/ Report \/ ReportFails \/ Kill
  <2>1. disk' = disk /\ pc' \in {"done", "dead"}
    BY <1>5 DEF LoadFails, EvaluateFails, LogUnbound, Report, ReportFails, Kill, Exit
  <2> QED
    BY <2>1, <1>w DEF WeightInv, Looping, Saving, Trained
<1>6. CASE EnterEpoch
  <2>1. /\ pc = "head" /\ pc' = "batch" /\ i' = 0
        /\ UNCHANGED <<disk, epoch, epochs, model, opt>>
    BY <1>6 DEF EnterEpoch
  <2> QED
    BY <2>1, <1>t, <1>w DEF WeightInv, Looping, Saving, Trained, Taken, Steps
<1>7. CASE LeaveLoop
  BY <1>7, <1>w DEF LeaveLoop, WeightInv, Looping, Saving, Trained
<1>8. CASE TrainBatch
  <2>1. /\ pc = "batch" /\ pc' = "batch" /\ i' = i + 1
        /\ model' = model + 1 /\ opt' = opt + 1 /\ UNCHANGED <<disk, epoch, epochs>>
    BY <1>8 DEF TrainBatch
  <2>2. Steps(epoch)' = Steps(epoch)
    BY <2>1 DEF Steps
  <2>3. Taken(Steps(epoch) + i)'
    BY <1>t, <2>1, <2>2 DEF WeightInv, Taken
  <2> QED
    BY <2>1, <2>3, <1>w DEF WeightInv, Looping, Saving, Trained
<1>9. CASE SkipBatch
  <2>1. /\ pc = "batch" /\ pc' = "batch" /\ i' = i + 1 /\ OddLosses
        /\ UNCHANGED <<disk, epoch, epochs, model, opt>>
    BY <1>9 DEF SkipBatch
  <2>2. Steps(epoch)' = Steps(epoch)
    BY <2>1 DEF Steps
  <2>3. Taken(Steps(epoch) + i)'
    BY <1>t, <2>1, <2>2 DEF WeightInv, Taken
  <2> QED
    BY <2>1, <2>3, <1>w DEF WeightInv, Looping, Saving, Trained
<1>10. CASE NonFiniteLoss \/ LastBatch
  <2>1. /\ pc = "batch" /\ pc' \in {"debugger", "eval"}
        /\ OddLosses \/ i = Batches
        /\ UNCHANGED <<disk, epoch, epochs, model, opt>>
    BY <1>10 DEF NonFiniteLoss, LastBatch
  <2>2. Steps(epoch + 1)' = Steps(epoch + 1)
    BY <2>1 DEF Steps
  <2>3. Taken(Steps(epoch + 1))'
    BY <1>t, <2>1, <2>2 DEF WeightInv, Taken
  <2> QED
    BY <2>1, <2>3, <1>w DEF WeightInv, Looping, Saving, Trained
<1>11. CASE Continue \/ Evaluate \/ SkipEvaluate
  <2>1. /\ pc \in {"debugger", "eval"} /\ pc' \in {"eval", "log"}
        /\ UNCHANGED <<disk, epoch, epochs, model, opt>>
    BY <1>11 DEF Continue, Evaluate, SkipEvaluate
  <2> QED
    BY <2>1, <1>w DEF WeightInv, Looping, Saving, Trained, Taken, Steps
<1>12. CASE WriteLog
  <2>1. /\ pc = "log" /\ pc' = "save" /\ UNCHANGED <<disk, epoch, epochs, model, opt>>
        /\ chkpt'.epoch = epoch /\ chkpt'.model = model
        /\ chkpt'.opt = IF FinalEpoch THEN NoMoments ELSE opt
    BY <1>12 DEF WriteLog
  <2> QED
    BY <2>1, <1>w DEF WeightInv, Looping, Saving, Trained, Taken, Steps, FinalEpoch
<1>13. CASE OpenFile
  <2>1. Head(todo) \in FilesUsed
    BY <1>13, <1>t DEF OpenFile, TypeOK
  <2>2. /\ disk'[Head(todo)].tag = "torn"
        /\ \A g \in FilesUsed : g # Head(todo) => disk'[g] = disk[g]
    BY <1>13, <1>t, <2>1, DiskUpdate, TagFacts DEF OpenFile
  <2>3. WeightsMatchEpoch'
    BY <2>2 DEF WeightInv, WeightsMatchEpoch, Readable
  <2>4. /\ pc = "save" /\ pc' = "write"
        /\ UNCHANGED <<epoch, epochs, model, opt, chkpt>>
    BY <1>13 DEF OpenFile
  <2> QED
    BY <2>3, <2>4 DEF WeightInv, Looping, Saving, Trained, Taken, Steps, FinalEpoch
<1>14. CASE CloseFile
  <2>1. Head(todo) \in FilesUsed
    BY <1>14 DEF CloseFile, TypeInv, LoopOK, TypeOK
  <2>2. /\ disk'[Head(todo)] = chkpt
        /\ \A g \in FilesUsed : g # Head(todo) => disk'[g] = disk[g]
    BY <1>14, <1>t, <2>1, DiskUpdate DEF CloseFile
  <2>3. /\ pc = "write" /\ pc' = "save"
        /\ UNCHANGED <<epoch, epochs, model, opt, chkpt>>
    BY <1>14 DEF CloseFile
  <2>4. /\ chkpt.epoch = epoch /\ chkpt.model = model /\ opt = model /\ epoch < n
        /\ chkpt.opt = IF epoch = n - 1 THEN NoMoments ELSE model
    BY <1>t, <2>3 DEF WeightInv, Saving, FinalEpoch, TypeInv, LoopOK
  <2>5. /\ chkpt.model <= (chkpt.epoch + 1) * Batches
        /\ ~OddLosses => chkpt.model = (chkpt.epoch + 1) * Batches
        /\ chkpt.opt = NoMoments <=> \E k \in EpochChoices : chkpt.epoch = k - 1
        /\ chkpt.opt # NoMoments => chkpt.opt = chkpt.model
    BY <1>t, <2>3, <2>4 DEF WeightInv, Trained, Taken, Steps, NoMoments
  <2>6. WeightsMatchEpoch'
    BY <2>2, <2>5 DEF WeightInv, WeightsMatchEpoch, Readable
  <2> QED
    BY <2>3, <2>6 DEF WeightInv, Looping, Saving, Trained, Taken, Steps, FinalEpoch
<1>15. CASE NextEpoch
  <2>1. /\ pc = "save" /\ pc' = "head" /\ epoch' = epoch + 1
        /\ UNCHANGED <<disk, epochs, model, opt>>
    BY <1>15 DEF NextEpoch
  <2>2. epoch < epochs
    BY <2>1 DEF TypeInv, LoopOK
  <2> QED
    BY <2>1, <2>2, <1>w DEF WeightInv, Looping, Saving, Trained, Taken, Steps
<1> QED
  BY <1>1, <1>2, <1>3, <1>4, <1>5, <1>6, <1>7, <1>8, <1>9, <1>10, <1>11,
     <1>12, <1>13, <1>14, <1>15 DEF Next, Session

(* The weights of a checkpoint have every step of its epochs once, and its *)
(* moments are of the same steps, over any number of sessions with the     *)
(* same `epochs` (train.py:127, 131-132, 143, 345-354).                    *)
THEOREM TrainingWeights ==
  ASSUME NEW n, EpochChoices = {n}
  PROVE  Spec => []WeightsMatchEpoch
<1>1. TypeInv /\ WeightInv /\ [Next]_vars => WeightInv'
  BY WeightStep
<1>2. WeightInv => WeightsMatchEpoch
  BY DEF WeightInv
<1> QED
  BY <1>1, <1>2, TypeInit, TypeStep, WeightInit, PTL DEF Spec
-----------------------------------------------------------------------------
(***************************************************************************)
(* Deployable checkpoints.                                                 *)
(***************************************************************************)
ToSave(f) == \E k \in 1 .. Len(todo) : todo[k] = f
Stored(f) == disk[f] = chkpt

(* A file of this epoch is still to be saved, or is the checkpoint of the  *)
(* epoch; after the last epoch it stays so.                                *)
DeployInv ==
  /\ \A e \in DeployEpochs : Readable(Deploy(e)) => disk[Deploy(e)].epoch = e
  /\ Saving =>
       /\ chkpt.epoch = epoch
       /\ \A k \in 1 .. Len(todo) : todo[k] \in {Last, Best, Deploy(epoch)}
  /\ Saving /\ FinalEpoch =>
       /\ chkpt.opt = NoMoments /\ chkpt.log = logf
       /\ \A f \in {Last, Deploy(epoch)} : ToSave(f) \/ Stored(f)
  /\ ((pc = "head" /\ epoch >= epochs) \/ pc = "final") /\ s # Unbound =>
       /\ Readable(Deploy(epochs - 1))
       /\ disk[Deploy(epochs - 1)].opt = NoMoments
       /\ disk[Deploy(epochs - 1)] = disk[Last]
       /\ disk[Last].log = logf

LEMMA DeployInit == Init => DeployInv
  BY DEF Init, DeployInv, Readable, Absent, Saving, FilesUsed

(* Only a save touches the files.                                          *)
LEMMA DeployQuiet ==
  ASSUME DeployInv, disk' = disk, pc' \notin {"head", "save", "write", "final"}
  PROVE  DeployInv'
  BY DEF DeployInv, Saving, Readable

(* What is on the list: last.pth always, deploy<epoch>.pth at the end.     *)
LEMMA SaveListFiles ==
  ASSUME epoch \in Nat, epoch + 1 <= epochs, epochs \in Nat, NEW b \in BOOLEAN
  PROVE  /\ \A k \in 1 .. Len(SaveList(b)) :
              SaveList(b)[k] \in {Last, Best, Deploy(epoch)}
         /\ \E k \in 1 .. Len(SaveList(b)) : SaveList(b)[k] = Last
         /\ b => \E k \in 1 .. Len(SaveList(b)) : SaveList(b)[k] = Best
         /\ FinalEpoch => \E k \in 1 .. Len(SaveList(b)) : SaveList(b)[k] = Deploy(epoch)
         /\ ~b => \A k \in 1 .. Len(SaveList(b)) : SaveList(b)[k] # Best
<1>1. Deploy(epoch) # Best /\ Last # Best
  BY DEF Deploy, Best, Last
<1>2. DeployPoint \in BOOLEAN /\ (FinalEpoch => DeployPoint)
  BY DEF DeployPoint, FinalEpoch
<1>3. CASE b = TRUE /\ DeployPoint
  <2>1. SaveList(b) = <<Last>> \o <<Best>> \o <<Deploy(epoch)>>
    BY <1>3 DEF SaveList
  <2>2. /\ Len(SaveList(b)) = 3 /\ SaveList(b)[1] = Last
        /\ SaveList(b)[2] = Best /\ SaveList(b)[3] = Deploy(epoch)
    BY <2>1
  <2>3. 1 \in 1 .. 3 /\ 2 \in 1 .. 3 /\ 3 \in 1 .. 3 /\ 1 .. 3 = {1, 2, 3}
    OBVIOUS
  <2> QED
    BY <1>3, <2>2, <2>3
<1>4. CASE b = TRUE /\ ~DeployPoint
  <2>1. SaveList(b) = <<Last>> \o <<Best>>
    BY <1>4 DEF SaveList
  <2>2. Len(SaveList(b)) = 2 /\ SaveList(b)[1] = Last /\ SaveList(b)[2] = Best
    BY <2>1
  <2>3. 1 \in 1 .. 2 /\ 2 \in 1 .. 2 /\ 1 .. 2 = {1, 2}
    OBVIOUS
  <2> QED
    BY <1>2, <1>4, <2>2, <2>3
<1>5. CASE b = FALSE /\ DeployPoint
  <2>1. SaveList(b) = <<Last>> \o <<Deploy(epoch)>>
    BY <1>5 DEF SaveList
  <2>2. /\ Len(SaveList(b)) = 2 /\ SaveList(b)[1] = Last
        /\ SaveList(b)[2] = Deploy(epoch)
    BY <2>1
  <2>3. 1 \in 1 .. 2 /\ 2 \in 1 .. 2 /\ 1 .. 2 = {1, 2}
    OBVIOUS
  <2> QED
    BY <1>1, <1>5, <2>2, <2>3
<1>6. CASE b = FALSE /\ ~DeployPoint
  <2>1. SaveList(b) = <<Last>>
    BY <1>6 DEF SaveList
  <2>2. Len(SaveList(b)) = 1 /\ SaveList(b)[1] = Last
    BY <2>1
  <2> QED
    BY <1>1, <1>2, <1>6, <2>2
<1> QED
  BY <1>2, <1>3, <1>4, <1>5, <1>6

LEMMA SaveStep ==
  ASSUME TypeOK, NEW f \in FilesUsed, NEW c, disk' = [disk EXCEPT ![f] = c]
  PROVE  \A g \in FilesUsed : disk'[g] = IF g = f THEN c ELSE disk[g]
  BY DEF TypeOK

LEMMA DeployStep == TypeInv /\ LabelInv /\ LogInv /\ DeployInv /\ [Next]_vars => DeployInv'
<1> SUFFICES ASSUME TypeInv, LabelInv, LogInv, DeployInv, [Next]_vars
             PROVE  DeployInv'
  OBVIOUS
<1>t. /\ epochs \in EpochChoices /\ epochs \in Nat /\ epoch \in Nat /\ TypeOK
      /\ todo \in Seq(FilesUsed) /\ Last \in FilesUsed
      /\ \A e \in DeployEpochs : Deploy(e) \in FilesUsed
  BY EpochsAssumption DEF TypeInv, TypeOK, FilesUsed
<1>e. epoch < epochs => Deploy(epoch) \in FilesUsed
  BY <1>t, EpochFacts
<1>f. \A d, e : Deploy(d) = Deploy(e) => d = e
  BY DEF Deploy
<1> USE DEF progress, network, selection, saving, durable
<1>1. CASE UNCHANGED vars
  BY <1>1 DEF vars, DeployInv, Saving, Readable, FinalEpoch, ToSave, Stored
<1>2. ASSUME NEW m \in {"scratch", "load", "resume"}, NEW k \in EpochChoices,
             Start(m, k)
      PROVE  DeployInv'
  BY <1>2, DeployQuiet DEF Start
<1>3. CASE LoadNothing \/ LoadWeights \/ LoadCheckpoint
  <2>1. /\ pc = "load" /\ pc' = "head" /\ disk' = disk /\ s' = s
    BY <1>3 DEF LoadNothing, LoadWeights, LoadCheckpoint
  <2>2. s' = Unbound
    BY <2>1 DEF LabelInv
  <2> QED
    BY <2>1, <2>2 DEF DeployInv, Saving, Readable
<1>4. CASE LoadFails \/ EvaluateFails \/ LogUnbound \/ Report \/ ReportFails \/ Kill
  <2>1. disk' = disk /\ pc' \in {"done", "dead"}
    BY <1>4 DEF LoadFails, EvaluateFails, LogUnbound, Report, ReportFails, Kill, Exit
  <2> QED
    BY <2>1, DeployQuiet
<1>5. CASE EnterEpoch \/ TrainBatch \/ SkipBatch \/ NonFiniteLoss \/ Continue \/ LastBatch
           \/ Evaluate \/ SkipEvaluate
  <2>1. disk' = disk /\ pc' \in {"batch", "debugger", "eval", "log"}
    BY <1>5 DEF EnterEpoch, TrainBatch, SkipBatch, NonFiniteLoss, Continue, LastBatch,
                Evaluate, SkipEvaluate
  <2> QED
    BY <2>1, DeployQuiet
<1>6. CASE LeaveLoop
  <2>1. /\ pc = "head" /\ epoch >= epochs /\ pc' = "final"
        /\ UNCHANGED <<disk, epochs, s, logf>>
    BY <1>6 DEF LeaveLoop
  <2> QED
    BY <2>1 DEF DeployInv, Saving, Readable
<1>7. CASE WriteLog
  <2> DEFINE b == EvalPoint(epoch) /\ IsBest(results)
  <2>1. /\ pc = "log" /\ pc' = "save" /\ UNCHANGED <<disk, epoch, epochs>>
        /\ chkpt'.epoch = epoch /\ chkpt'.log = logf' /\ todo' = SaveList(b)
        /\ FinalEpoch => chkpt'.opt = NoMoments
    BY <1>7 DEF WriteLog
  <2>2. epoch + 1 <= epochs /\ b \in BOOLEAN
    BY <1>t, <2>1 DEF TypeInv, LoopOK, EvalPoint, IsBest
  <2> HIDE DEF b
  <2>3. /\ \A k \in 1 .. Len(todo') : todo'[k] \in {Last, Best, Deploy(epoch)}
        /\ \E k \in 1 .. Len(todo') : todo'[k] = Last
        /\ FinalEpoch => \E k \in 1 .. Len(todo') : todo'[k] = Deploy(epoch)
    BY <1>t, <2>1, <2>2, SaveListFiles
  <2> QED
    BY <2>1, <2>3 DEF DeployInv, Saving, Readable, FinalEpoch, ToSave
<1>8. CASE OpenFile
  <2>1. /\ pc = "save" /\ pc' = "write" /\ todo # <<>> /\ Head(todo) \in FilesUsed
        /\ disk' = [disk EXCEPT ![Head(todo)] = Torn]
        /\ UNCHANGED <<epoch, epochs, chkpt, todo, logf>> /\ epoch < epochs
    BY <1>8, <1>t DEF OpenFile, TypeInv, LoopOK
  <2>2. \A g \in FilesUsed : disk'[g] = IF g = Head(todo) THEN Torn ELSE disk[g]
    BY <1>t, <2>1, SaveStep
  <2>3. ToSave(Head(todo))
    BY <1>t, <2>1 DEF ToSave
  <2>4. \A e \in DeployEpochs : Readable(Deploy(e))' => disk'[Deploy(e)].epoch = e
    BY <1>t, <2>2, TagFacts DEF DeployInv, Readable
  <2>5. FinalEpoch => \A f \in {Last, Deploy(epoch)} : ToSave(f) \/ disk'[f] = chkpt
    BY <1>e, <1>t, <2>1, <2>2, <2>3 DEF DeployInv, Saving, Stored
  <2> QED
    BY <2>1, <2>4, <2>5 DEF DeployInv, Saving, FinalEpoch, ToSave, Stored
<1>9. CASE CloseFile
  <2>1. /\ pc = "write" /\ pc' = "save" /\ todo # <<>> /\ Head(todo) \in FilesUsed
        /\ disk' = [disk EXCEPT ![Head(todo)] = chkpt] /\ todo' = Tail(todo)
        /\ UNCHANGED <<epoch, epochs, chkpt, logf>> /\ epoch < epochs
    BY <1>9, <1>t DEF CloseFile, TypeInv, LoopOK
  <2>2. \A g \in FilesUsed : disk'[g] = IF g = Head(todo) THEN chkpt ELSE disk[g]
    BY <1>t, <2>1, SaveStep
  <2>3. /\ Head(todo) = todo[1] /\ Len(todo) \in Nat \ {0}
        /\ Len(todo') = Len(todo) - 1
        /\ \A k \in 1 .. Len(todo') : todo'[k] = todo[k + 1]
    BY <1>t, <2>1
  <2>4. /\ chkpt.epoch = epoch
        /\ \A k \in 1 .. Len(todo) : todo[k] \in {Last, Best, Deploy(epoch)}
    BY <2>1 DEF DeployInv, Saving
  <2>5. \A k \in 1 .. Len(todo') : todo'[k] \in {Last, Best, Deploy(epoch)}
    BY <2>3, <2>4
  <2>6. \A f : ToSave(f) => f = Head(todo) \/ ToSave(f)'
    <3> SUFFICES ASSUME NEW f, NEW k \in 1 .. Len(todo), todo[k] = f, f # Head(todo)
                 PROVE  ToSave(f)'
      BY DEF ToSave
    <3>1. k - 1 \in 1 .. Len(todo') /\ todo'[k - 1] = f
      BY <2>3
    <3> QED
      BY <3>1 DEF ToSave
  <2>7. \A e \in DeployEpochs : Readable(Deploy(e))' => disk'[Deploy(e)].epoch = e
    <3> SUFFICES ASSUME NEW e \in DeployEpochs, Readable(Deploy(e))'
                 PROVE  disk'[Deploy(e)].epoch = e
      OBVIOUS
    <3>1. CASE Deploy(e) = Head(todo)
      <4>1. Head(todo) \in {Last, Best, Deploy(epoch)}
        BY <2>3, <2>4
      <4>2. e \in Nat
        BY EpochsAssumption DEF DeployEpochs
      <4>3. e = epoch
        BY <3>1, <4>1, <4>2 DEF Deploy, Last, Best
      <4> QED
        BY <1>t, <2>2, <2>4, <3>1, <4>3
    <3>2. CASE Deploy(e) # Head(todo)
      BY <1>t, <2>2, <3>2 DEF DeployInv, Readable
    <3> QED
      BY <3>1, <3>2
  <2>8. FinalEpoch => \A f \in {Last, Deploy(epoch)} : ToSave(f)' \/ disk'[f] = chkpt
    BY <1>e, <1>t, <2>1, <2>2, <2>6 DEF DeployInv, Saving, Stored
  <2> QED
    BY <2>1, <2>4, <2>5, <2>7, <2>8 DEF DeployInv, Saving, FinalEpoch, Stored
<1>10. CASE NextEpoch
  <2>1. /\ pc = "save" /\ pc' = "head" /\ todo = <<>> /\ epoch' = epoch + 1
        /\ UNCHANGED <<disk, epochs, s, logf>> /\ epoch < epochs
        /\ chkpt \in Checkpoint
    BY <1>10 DEF NextEpoch, TypeInv, LoopOK
  <2>2. ASSUME FinalEpoch
        PROVE  /\ disk[Last] = chkpt /\ disk[Deploy(epoch)] = chkpt
               /\ chkpt.opt = NoMoments /\ chkpt.log = logf /\ chkpt.tag = "ok"
               /\ epochs - 1 = epoch
    BY <1>t, <2>1, <2>2, TagFacts DEF DeployInv, Saving, ToSave, Stored, FinalEpoch
  <2>3. epoch' >= epochs' => FinalEpoch
    BY <1>t, <2>1 DEF FinalEpoch
  <2> QED
    BY <2>1, <2>2, <2>3 DEF DeployInv, Saving, Readable
<1> QED
  BY <1>1, <1>2, <1>3, <1>4, <1>5, <1>6, <1>7, <1>8, <1>9, <1>10 DEF Next, Session

(* A session that trains to the end of the loop leaves the deployable      *)
(* checkpoint of the final epoch, equal to last.pth and without optimizer  *)
(* state, and every deploy<e>.pth is of epoch e (train.py:266, 354,        *)
(* 368-372).                                                               *)
THEOREM TrainingDeploys == Spec => []DeployFiles
<1>1. Spec => [](TypeInv /\ LabelInv /\ LogInv)
  BY TypeInit, LabelInit, LogInit, TypeStep, LabelStep, LogStep, PTL DEF Spec
<1>2. Spec => []DeployInv
  BY <1>1, DeployInit, DeployStep, PTL DEF Spec
<1>3. DeployInv => DeployFiles
  BY DEF DeployInv, DeployFiles
<1> QED
  BY <1>2, <1>3, PTL
-----------------------------------------------------------------------------
(***************************************************************************)
(* The best of the session.                                                *)
(***************************************************************************)
Evals(n) == {e \in start_epoch .. (n - 1) : EvalPoint(e)}

(* best_epoch and the metrics kept with it, against the first n lines of   *)
(* the log; and best.pth against them.                                     *)
BestKnown(n) ==
  /\ Evals(n) = {} => best = NothingBest
  /\ Evals(n) # {} =>
       /\ best.epoch \in Evals(n) /\ best.res = logf[best.epoch + 1].res
       /\ best.score = Score(best.res) /\ best.map = best.res.map
       /\ best.miou = best.res.miou /\ best.dice = best.res.dice
       /\ \A e \in Evals(n) :
            /\ ~Beats(logf[e + 1].res, best.res)
            /\ e < best.epoch => Beats(best.res, logf[e + 1].res)

IsBestFile(c) ==
  /\ c.tag = "ok" /\ c.epoch = best.epoch /\ c.best_epoch = best.epoch
  /\ c.best_results = best.res /\ c.log = SubSeq(logf, 1, best.epoch + 1)

BestStored(n) == Evals(n) # {} => IsBestFile(disk[Best])

Between == pc \in {"head", "batch", "debugger", "eval", "log", "final"}

BestInv ==
  /\ pc = "load" => start_epoch = 0 /\ epoch = 0 /\ best = NothingBest
  /\ Between => BestKnown(epoch) /\ BestStored(epoch)
  /\ Saving =>
       /\ BestKnown(epoch + 1)
       /\ ToSave(Best) => IsBestFile(chkpt)
       /\ ToSave(Best) \/ BestStored(epoch + 1)
  /\ Between \/ Saving => start_epoch <= epoch

LEMMA BestInit == Init => BestInv
  BY DEF Init, BestInv, Between, Saving

(* The order of evaluations: strict, and what beats the best beats all     *)
(* that do not beat it.                                                    *)
LEMMA BeatsFacts ==
  ASSUME NEW m \in Results, NEW n \in Results, NEW x \in Results
  PROVE  /\ ~Beats(m, m)
         /\ Beats(m, n) => ~Beats(n, m)
         /\ Beats(m, n) /\ ~Beats(x, n) => Beats(m, x)
<1>1. \A k \in {m, n, x} : k.map \in Nat /\ k.miou \in Nat /\ k.dice \in Nat
  BY ZeroIsResult
<1> QED
  BY <1>1 DEF Beats, Score

LEMMA IsBestFacts ==
  ASSUME NEW m \in Results
  PROVE  /\ best = NothingBest => IsBest(m)
         /\ (/\ best.res \in Results /\ best.score = Score(best.res)
             /\ best.map = best.res.map /\ best.miou = best.res.miou
             /\ best.dice = best.res.dice)
            => (IsBest(m) <=> Beats(m, best.res))
<1>1. \A k \in Results : k.map \in Nat /\ k.miou \in Nat /\ k.dice \in Nat
  BY ZeroIsResult
<1>2. best = NothingBest => IsBest(m)
  BY <1>1 DEF NothingBest, IsBest, Score
<1>3. ASSUME best.res \in Results, best.score = Score(best.res),
             best.map = best.res.map, best.miou = best.res.miou,
             best.dice = best.res.dice
      PROVE  IsBest(m) <=> Beats(m, best.res)
  BY <1>1, <1>3 DEF IsBest, Beats, Score
<1> QED
  BY <1>2, <1>3

(* A step that touches neither files nor log nor the best.                 *)
LEMMA BestQuiet ==
  ASSUME BestInv, UNCHANGED <<disk, logf, best, epoch, start_epoch>>,
         Between, Between', pc' \notin {"load", "save", "write"}
  PROVE  BestInv'
<1>1. /\ BestKnown(epoch)' <=> BestKnown(epoch)
      /\ BestStored(epoch)' <=> BestStored(epoch)
  BY DEF BestKnown, BestStored, Evals, IsBestFile
<1> QED
  BY <1>1 DEF BestInv, Saving

LEMMA PrefixOfLog ==
  ASSUME NEW l \in Seq(Line), NEW x \in Line, NEW k \in 0 .. Len(l)
  PROVE  SubSeq(Append(l, x), 1, k) = SubSeq(l, 1, k)
  OBVIOUS

LEMMA WholeLog ==
  ASSUME NEW l \in Seq(Line)
  PROVE  SubSeq(l, 1, Len(l)) = l
  OBVIOUS

(* The log line, the choice of the best and the list of saves.             *)
LEMMA BestChoice ==
  ASSUME TypeInv, LogInv, BestInv, WriteLog
  PROVE  BestInv'
<1> DEFINE b == EvalPoint(epoch) /\ IsBest(results)
<1>1. /\ pc = "log" /\ pc' = "save" /\ UNCHANGED <<disk, epoch, epochs, start_epoch>>
      /\ logf' = Append(logf, LogLine) /\ todo' = SaveList(b)
      /\ best' = IF b THEN NewBest(results, epoch) ELSE best
      /\ chkpt'.tag = "ok" /\ chkpt'.epoch = epoch /\ chkpt'.log = logf'
      /\ chkpt'.best_epoch = best'.epoch /\ chkpt'.best_results = best'.res
  BY DEF WriteLog, progress, durable
<1>2. /\ epoch \in Nat /\ start_epoch \in Nat /\ start_epoch <= epoch
      /\ BestKnown(epoch) /\ BestStored(epoch)
      /\ logf \in Seq(Line) /\ Len(logf) = epoch /\ results \in Results
      /\ epochs \in Nat /\ epoch + 1 <= epochs
  BY <1>1, EpochsAssumption
  DEF BestInv, Between, TypeInv, TypeOK, LoopOK, LogInv, Looping, GoodLog
<1>3. LogLine \in Line /\ LogLine.res = results
  BY <1>1 DEF WriteLog, LogLine, Line, TypeInv, TypeOK
<1>4. /\ logf' \in Seq(Line) /\ Len(logf') = epoch + 1
      /\ logf'[epoch + 1] = LogLine
      /\ \A k \in 1 .. epoch : logf'[k] = logf[k]
      /\ \A k \in 1 .. epoch : logf[k].res \in Results
  <2>1. /\ logf' \in Seq(Line) /\ Len(logf') = epoch + 1
        /\ logf'[epoch + 1] = LogLine
        /\ \A k \in 1 .. epoch : logf'[k] = logf[k]
    BY <1>1, <1>2, <1>3
  <2>2. \A k \in 1 .. epoch : logf[k] \in Line
    BY <1>2
  <2> QED
    BY <2>1, <2>2 DEF Line
<1>5. /\ Evals(epoch)' = Evals(epoch)
      /\ Evals(epoch + 1)' = IF EvalPoint(epoch) THEN Evals(epoch) \cup {epoch}
                             ELSE Evals(epoch)
      /\ \A e \in Evals(epoch) : e \in Nat /\ e < epoch /\ e + 1 \in 1 .. epoch
  <2>1. Evals(epoch)' = Evals(epoch)
    BY <1>1 DEF Evals
  <2>2. Evals(epoch + 1)' = Evals(epoch + 1)
    BY <1>1 DEF Evals
  <2>3. start_epoch .. ((epoch + 1) - 1) = (start_epoch .. (epoch - 1)) \cup {epoch}
    BY <1>2
  <2>4. Evals(epoch + 1) = IF EvalPoint(epoch) THEN Evals(epoch) \cup {epoch}
                           ELSE Evals(epoch)
    BY <2>3 DEF Evals
  <2>5. \A e \in Evals(epoch) : e \in Nat /\ e < epoch /\ e + 1 \in 1 .. epoch
    BY <1>2 DEF Evals
  <2> QED
    BY <2>1, <2>2, <2>4, <2>5
<1>6. b \in BOOLEAN
  BY DEF EvalPoint, IsBest
<1>7. CASE b
  <2>1. /\ EvalPoint(epoch) /\ IsBest(results) /\ b = TRUE
        /\ best' = NewBest(results, epoch)
    BY <1>1, <1>6, <1>7
  <2>2. /\ best'.epoch = epoch /\ best'.res = results /\ best'.score = Score(results)
        /\ best'.map = results.map /\ best'.miou = results.miou
        /\ best'.dice = results.dice
    BY <2>1 DEF NewBest
  <2>3. ASSUME NEW e \in Evals(epoch)
        PROVE  Beats(results, logf[e + 1].res) /\ ~Beats(logf[e + 1].res, results)
    <3>1. /\ best.epoch \in Evals(epoch) /\ best.res = logf[best.epoch + 1].res
          /\ best.score = Score(best.res) /\ best.map = best.res.map
          /\ best.miou = best.res.miou /\ best.dice = best.res.dice
          /\ ~Beats(logf[e + 1].res, best.res)
      <4>1. Evals(epoch) # {} /\ BestKnown(epoch)
        BY <1>2, <2>3
      <4> QED
        BY <2>3, <4>1, Zenon DEF BestKnown
    <3>2. best.res \in Results /\ logf[e + 1].res \in Results
      BY <1>4, <1>5, <2>3, <3>1
    <3>3. Beats(results, best.res)
      BY <1>2, <2>1, <3>1, <3>2, IsBestFacts
    <3> QED
      BY <1>2, <3>1, <3>2, <3>3, BeatsFacts
  <2>4. Evals(epoch + 1)' = Evals(epoch) \cup {epoch}
    BY <1>5, <2>1
  <2>5. logf'[epoch + 1].res = results /\ ~Beats(results, results)
    BY <1>2, <1>3, <1>4, BeatsFacts
  <2>6. \A e \in Evals(epoch) : logf'[e + 1] = logf[e + 1]
    BY <1>4, <1>5
  <2>7. BestKnown(epoch + 1)'
    <3>1. ASSUME NEW e \in Evals(epoch + 1)'
          PROVE  /\ ~Beats(logf'[e + 1].res, results)
                 /\ e < epoch => Beats(results, logf'[e + 1].res)
      <4>1. CASE e = epoch
        BY <1>2, <2>5, <4>1
      <4>2. CASE e \in Evals(epoch)
        BY <2>3, <2>6, <4>2
      <4> QED
        BY <2>4, <3>1, <4>1, <4>2
    <3>2. epoch' = epoch
      BY <1>1
    <3> QED
      BY <2>2, <2>4, <2>5, <3>1, <3>2 DEF BestKnown, Beats, Score
  <2>8. IsBestFile(chkpt)'
    <3>1. SubSeq(logf', 1, epoch + 1) = logf'
      BY <1>4, WholeLog
    <3> QED
      BY <1>1, <2>2, <3>1 DEF IsBestFile
  <2>9. ToSave(Best)'
    <3>1. \E k \in 1 .. Len(SaveList(b)) : SaveList(b)[k] = Best
      BY <1>2, <1>6, <2>1, SaveListFiles
    <3> QED
      BY <1>1, <3>1 DEF ToSave
  <2> QED
    BY <1>1, <1>2, <2>7, <2>8, <2>9 DEF BestInv, Between, Saving
<1>8. CASE ~b
  <2>1. best' = best /\ b = FALSE
    BY <1>1, <1>6, <1>8
  <2>2. \A e \in Evals(epoch) : logf'[e + 1] = logf[e + 1]
    BY <1>4, <1>5
  <2>3. ASSUME Evals(epoch + 1)' # {}
        PROVE  Evals(epoch) # {}
    <3>1. CASE EvalPoint(epoch)
      <4>1. ~IsBest(results)
        BY <1>8, <3>1
      <4>2. best # NothingBest
        BY <1>2, <4>1, IsBestFacts
      <4> QED
        BY <1>2, <4>2 DEF BestKnown
    <3>2. CASE ~EvalPoint(epoch)
      BY <1>5, <2>3, <3>2
    <3> QED
      BY <3>1, <3>2
  <2>4. ASSUME Evals(epoch) # {}
        PROVE  /\ best.epoch \in Evals(epoch) /\ best.res = logf[best.epoch + 1].res
               /\ best.score = Score(best.res) /\ best.map = best.res.map
               /\ best.miou = best.res.miou /\ best.dice = best.res.dice
               /\ \A e \in Evals(epoch) :
                    /\ ~Beats(logf[e + 1].res, best.res)
                    /\ e < best.epoch => Beats(best.res, logf[e + 1].res)
               /\ best.res \in Results
    <3>1. BestKnown(epoch)
      BY <1>2
    <3>2. /\ best.epoch \in Evals(epoch) /\ best.res = logf[best.epoch + 1].res
          /\ best.score = Score(best.res) /\ best.map = best.res.map
          /\ best.miou = best.res.miou /\ best.dice = best.res.dice
          /\ \A e \in Evals(epoch) :
               /\ ~Beats(logf[e + 1].res, best.res)
               /\ e < best.epoch => Beats(best.res, logf[e + 1].res)
      BY <2>4, <3>1, Zenon DEF BestKnown
    <3>3. best.res \in Results
      BY <1>4, <1>5, <3>2
    <3> QED
      BY <3>2, <3>3
  <2>5. ASSUME Evals(epoch) # {}, EvalPoint(epoch)
        PROVE  ~Beats(logf'[epoch + 1].res, best.res)
    <3>1. ~IsBest(results)
      BY <1>8, <2>5
    <3>2. ~Beats(results, best.res)
      BY <1>2, <2>4, <2>5, <3>1, IsBestFacts
    <3> QED
      BY <1>3, <1>4, <3>2
  <2>6. BestKnown(epoch + 1)'
    <3>1. CASE Evals(epoch + 1)' = {}
      <4>1. Evals(epoch) = {}
        BY <1>5, <3>1
      <4> QED
        BY <1>1, <1>2, <2>1, <3>1, <4>1 DEF BestKnown
    <3>2. CASE Evals(epoch + 1)' # {}
      <4>1. Evals(epoch) # {}
        BY <2>3, <3>2
      <4>2. best.epoch \in Evals(epoch + 1)' /\ best.res = logf'[best.epoch + 1].res
        BY <1>5, <2>2, <2>4, <4>1
      <4>3. ASSUME NEW e \in Evals(epoch + 1)'
            PROVE  /\ ~Beats(logf'[e + 1].res, best.res)
                   /\ e < best.epoch => Beats(best.res, logf'[e + 1].res)
        <5>1. CASE e \in Evals(epoch)
          BY <2>2, <2>4, <4>1, <5>1
        <5>2. CASE e = epoch /\ EvalPoint(epoch)
          <6>1. ~(epoch < best.epoch)
            BY <1>2, <1>5, <2>4, <4>1
          <6> QED
            BY <2>5, <4>1, <5>2, <6>1
        <5> QED
          BY <1>5, <4>3, <5>1, <5>2
      <4>4. best.score = Score(best.res)' /\ best.map = best.res.map
            /\ best.miou = best.res.miou /\ best.dice = best.res.dice
        BY <2>1, <2>4, <4>1 DEF Score
      <4>5. \A e \in Evals(epoch + 1)' :
              /\ ~Beats(logf[e + 1].res, best.res)'
              /\ e < best.epoch => Beats(best.res, logf[e + 1].res)'
        BY <2>1, <4>3 DEF Beats, Score
      <4> HIDE DEF b
      <4> QED
        BY <1>1, <2>1, <3>2, <4>2, <4>4, <4>5 DEF BestKnown
    <3> QED
      BY <3>1, <3>2
  <2>7. BestStored(epoch + 1)'
    <3> SUFFICES ASSUME Evals(epoch + 1)' # {} PROVE IsBestFile(disk[Best])'
      BY <1>1 DEF BestStored, Evals
    <3>1. Evals(epoch) # {} /\ IsBestFile(disk[Best])
      BY <1>2, <2>3 DEF BestStored
    <3>2. best.epoch + 1 \in 0 .. Len(logf)
      BY <1>2, <1>5, <2>4, <3>1
    <3>3. SubSeq(logf', 1, best.epoch + 1) = SubSeq(logf, 1, best.epoch + 1)
      BY <1>1, <1>2, <1>3, <3>2, PrefixOfLog
    <3> QED
      BY <1>1, <2>1, <3>1, <3>3 DEF IsBestFile
  <2>8. ~ToSave(Best)'
    <3>1. \A k \in 1 .. Len(SaveList(b)) : SaveList(b)[k] # Best
      BY <1>2, <1>6, <2>1, SaveListFiles
    <3> QED
      BY <1>1, <3>1 DEF ToSave
  <2> QED
    BY <1>1, <1>2, <2>6, <2>7, <2>8 DEF BestInv, Between, Saving
<1> QED
  BY <1>7, <1>8

LEMMA BestStep == TypeInv /\ LabelInv /\ LogInv /\ BestInv /\ [Next]_vars => BestInv'
<1> SUFFICES ASSUME TypeInv, LabelInv, LogInv, BestInv, [Next]_vars
             PROVE  BestInv'
  OBVIOUS
<1>t. /\ TypeOK /\ todo \in Seq(FilesUsed) /\ Best \in FilesUsed
      /\ epoch \in Nat /\ start_epoch \in Nat
  BY DEF TypeInv, TypeOK, FilesUsed
<1> USE DEF progress, network, selection, saving, durable
<1>1. CASE UNCHANGED vars
  <2>1. /\ UNCHANGED <<disk, logf, pc, epoch, start_epoch, best, chkpt, todo>>
    BY <1>1 DEF vars
  <2>2. /\ \A k : BestKnown(k)' <=> BestKnown(k)
        /\ \A k : BestStored(k)' <=> BestStored(k)
        /\ IsBestFile(chkpt)' <=> IsBestFile(chkpt)
        /\ ToSave(Best)' <=> ToSave(Best)
    BY <2>1 DEF BestKnown, BestStored, Evals, IsBestFile, ToSave
  <2> QED
    BY <2>1, <2>2 DEF BestInv, Between, Saving
<1>2. ASSUME NEW m \in {"scratch", "load", "resume"}, NEW n \in EpochChoices,
             Start(m, n)
      PROVE  BestInv'
  BY <1>2 DEF Start, Fresh, BestInv, Between, Saving
<1>3. CASE LoadNothing \/ LoadWeights \/ LoadCheckpoint
  <2>1. /\ pc = "load" /\ pc' = "head" /\ best' = best
        /\ start_epoch' = epoch' /\ epoch' \in Nat
    <3>1. CASE LoadNothing \/ LoadWeights
      BY <1>t, <3>1 DEF LoadNothing, LoadWeights, BestInv
    <3>2. CASE LoadCheckpoint
      <4>1. disk[Last] \in Checkpoint
        BY <3>2, TagFacts DEF LoadCheckpoint, Readable, TypeInv, TypeOK, FilesUsed
      <4> QED
        BY <3>2, <4>1 DEF LoadCheckpoint, ResumeEpoch, Checkpoint
    <3> QED
      BY <1>3, <3>1, <3>2
  <2>2. Evals(epoch)' = {}
    BY <2>1 DEF Evals
  <2>3. best' = NothingBest
    BY <2>1 DEF BestInv
  <2> QED
    BY <2>1, <2>2, <2>3 DEF BestInv, BestKnown, BestStored, Between, Saving
<1>4. CASE LoadFails \/ EvaluateFails \/ LogUnbound \/ Report \/ ReportFails \/ Kill
  <2>1. pc' \in {"done", "dead"}
    BY <1>4 DEF LoadFails, EvaluateFails, LogUnbound, Report, ReportFails, Kill, Exit
  <2> QED
    BY <2>1 DEF BestInv, Between, Saving
<1>5. CASE EnterEpoch \/ TrainBatch \/ SkipBatch \/ NonFiniteLoss \/ Continue \/ LastBatch
           \/ Evaluate \/ SkipEvaluate \/ LeaveLoop
  <2>1. /\ UNCHANGED <<disk, logf, best, epoch, start_epoch>>
        /\ Between /\ Between' /\ pc' \notin {"load", "save", "write"}
    BY <1>5 DEF EnterEpoch, TrainBatch, SkipBatch, NonFiniteLoss, Continue, LastBatch,
                Evaluate, SkipEvaluate, LeaveLoop, Between
  <2> QED
    BY <2>1, BestQuiet
<1>6. CASE WriteLog
  BY <1>6, BestChoice
<1>7. CASE OpenFile
  <2>1. /\ pc = "save" /\ pc' = "write" /\ todo # <<>> /\ Head(todo) \in FilesUsed
        /\ disk' = [disk EXCEPT ![Head(todo)] = Torn]
        /\ UNCHANGED <<logf, epoch, start_epoch, best, chkpt, todo>>
    BY <1>7, <1>t DEF OpenFile
  <2>2. disk'[Best] = IF Best = Head(todo) THEN Torn ELSE disk[Best]
    BY <1>t, <2>1, SaveStep
  <2>3. Best = Head(todo) => ToSave(Best)
    BY <1>t, <2>1 DEF ToSave
  <2>4. /\ BestKnown(epoch + 1)' <=> BestKnown(epoch + 1)
        /\ ToSave(Best)' <=> ToSave(Best)
        /\ IsBestFile(chkpt)' <=> IsBestFile(chkpt)
        /\ Best # Head(todo) => (BestStored(epoch + 1)' <=> BestStored(epoch + 1))
    BY <2>1, <2>2 DEF BestKnown, BestStored, Evals, IsBestFile, ToSave
  <2> QED
    BY <2>1, <2>3, <2>4 DEF BestInv, Between, Saving
<1>8. CASE CloseFile
  <2>1. /\ pc = "write" /\ pc' = "save" /\ todo # <<>> /\ Head(todo) \in FilesUsed
        /\ disk' = [disk EXCEPT ![Head(todo)] = chkpt] /\ todo' = Tail(todo)
        /\ UNCHANGED <<logf, epoch, start_epoch, best, chkpt>>
    BY <1>8, <1>t DEF CloseFile, TypeInv, LoopOK
  <2>2. disk'[Best] = IF Best = Head(todo) THEN chkpt ELSE disk[Best]
    BY <1>t, <2>1, SaveStep
  <2>3. /\ Head(todo) = todo[1] /\ Len(todo) \in Nat \ {0}
        /\ Len(todo') = Len(todo) - 1
        /\ \A k \in 1 .. Len(todo') : todo'[k] = todo[k + 1]
    BY <1>t, <2>1
  <2>4. ToSave(Best)' => ToSave(Best)
    <3> SUFFICES ASSUME NEW k \in 1 .. Len(todo'), todo'[k] = Best
                 PROVE  ToSave(Best)
      BY DEF ToSave
    <3>1. k + 1 \in 1 .. Len(todo) /\ todo[k + 1] = Best
      BY <2>3
    <3> QED
      BY <3>1 DEF ToSave
  <2>5. ToSave(Best) => Best = Head(todo) \/ ToSave(Best)'
    <3> SUFFICES ASSUME NEW k \in 1 .. Len(todo), todo[k] = Best, Best # Head(todo)
                 PROVE  ToSave(Best)'
      BY DEF ToSave
    <3>1. k - 1 \in 1 .. Len(todo') /\ todo'[k - 1] = Best
      BY <2>3
    <3> QED
      BY <3>1 DEF ToSave
  <2>6. Best = Head(todo) => ToSave(Best)
    BY <2>3 DEF ToSave
  <2>7. /\ BestKnown(epoch + 1)' <=> BestKnown(epoch + 1)
        /\ IsBestFile(chkpt)' <=> IsBestFile(chkpt)
        /\ Best # Head(todo) => (BestStored(epoch + 1)' <=> BestStored(epoch + 1))
        /\ Best = Head(todo) /\ IsBestFile(chkpt) => BestStored(epoch + 1)'
    BY <2>1, <2>2 DEF BestKnown, BestStored, Evals, IsBestFile
  <2> QED
    BY <2>1, <2>4, <2>5, <2>6, <2>7 DEF BestInv, Between, Saving
<1>9. CASE NextEpoch
  <2>1. /\ pc = "save" /\ pc' = "head" /\ todo = <<>> /\ epoch' = epoch + 1
        /\ UNCHANGED <<disk, logf, best, start_epoch>>
    BY <1>9 DEF NextEpoch
  <2>2. ~ToSave(Best)
    BY <2>1 DEF ToSave
  <2>3. /\ BestKnown(epoch)' <=> BestKnown(epoch + 1)
        /\ BestStored(epoch)' <=> BestStored(epoch + 1)
    BY <2>1 DEF BestKnown, BestStored, Evals, IsBestFile
  <2>4. start_epoch' <= epoch'
    BY <1>t, <2>1 DEF BestInv, Saving
  <2> QED
    BY <2>1, <2>2, <2>3, <2>4 DEF BestInv, Between, Saving
<1> QED
  BY <1>1, <1>2, <1>3, <1>4, <1>5, <1>6, <1>7, <1>8, <1>9 DEF Next, Session

(* Between two epochs best.pth is the checkpoint of the earliest epoch of  *)
(* the session whose evaluation no other epoch of the session beats, with  *)
(* the log up to that epoch, for any metrics and any number of sessions    *)
(* and kills (train.py:300-331, 361-362).                                  *)
THEOREM TrainingBest == Spec => []BestOfSession
<1>1. Spec => [](TypeInv /\ LabelInv /\ LogInv)
  BY TypeInit, LabelInit, LogInit, TypeStep, LabelStep, LogStep, PTL DEF Spec
<1>2. Spec => []BestInv
  BY <1>1, BestInit, BestStep, PTL DEF Spec
<1>3. BestInv => BestOfSession
  <2> SUFFICES ASSUME BestInv, pc \in {"head", "final"}, SessionEvals # {}
               PROVE  BestOfSession
    BY DEF BestOfSession
  <2>1. SessionEvals = Evals(epoch)
    BY DEF SessionEvals, Evals
  <2>2. BestKnown(epoch) /\ BestStored(epoch)
    BY DEF BestInv, Between
  <2>3. /\ best.epoch \in SessionEvals /\ best.res = logf[best.epoch + 1].res
        /\ \A e \in SessionEvals :
             /\ ~Beats(logf[e + 1].res, best.res)
             /\ e < best.epoch => Beats(best.res, logf[e + 1].res)
    BY <2>1, <2>2, Zenon DEF BestKnown
  <2>4. IsBestFile(disk[Best])
    BY <2>1, <2>2 DEF BestStored
  <2> QED
    BY <2>3, <2>4 DEF BestOfSession, IsBestFile, Readable
<1> QED
  BY <1>2, <1>3, PTL
=============================================================================
