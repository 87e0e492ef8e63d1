----------------------------- MODULE Evaluation -----------------------------
(***************************************************************************)
(* The evaluation of eval.py and utils/map.py: data_evaluate runs the      *)
(* detector over the test list and writes one file of detection-results/   *)
(* per image; eval_mAP turns ground-truth/ and detection-results/ into     *)
(* JSON files of .temp_files/, matches detections with objects through     *)
(* those files and computes the average precision of every class.          *)
(*                                                                         *)
(* A behaviour is a sequence of evaluations over the same directories;     *)
(* each can be killed, or leave through the sys.exit of `error`, with its  *)
(* files half done.  Images and classes are numbers, in the order of their *)
(* sorted names; a line that does not parse has the class Unparsable.      *)
(* A file is the sequence of its lines.  The overlap of a detection with   *)
(* the objects of its image is part of the detection, in levels; 0 is no   *)
(* intersection.  Confidences are in hundredths, as they are written.      *)
(***************************************************************************)
EXTENDS Integers, Sequences, FiniteSets

CONSTANTS
  Images, Classes,   \* finite sets of numbers
  Lists,             \* what the test list may name: sets of images
  GroundTruths,      \* what ground-truth/ may hold: image -> its objects
  Detections,        \* what im_detect may return for an image
  MinOverlap,        \* MINOVERLAP, a level of overlap
  Unit,              \* precisions are counted in fractions 1/Unit
  MaxStarts,         \* bound on the number of evaluations
  NoFile             \* stands for a file that is not there

Unparsable == -1

ASSUME ImagesAssumption == Images \subseteq Nat /\ IsFiniteSet(Images) /\ Classes \subseteq Nat
ASSUME ListsAssumption == Lists \subseteq SUBSET Images
ASSUME GroundTruthsAssumption ==
  \A g \in GroundTruths :
    /\ DOMAIN g \subseteq Images
    /\ \A k \in DOMAIN g : g[k] \in Seq([cls: Classes \cup {Unparsable}, difficult: BOOLEAN])
ASSUME DetectionsAssumption ==
  /\ Detections \subseteq Seq([cls: Classes \cup {Unparsable}, conf: Nat, ov: Seq(Nat)])
  /\ NoFile \notin Detections
  /\ \A ds \in Detections : \A j \in 1 .. Len(ds) :
       \A g \in GroundTruths : \A k \in DOMAIN g : Len(g[k]) <= Len(ds[j].ov)
ASSUME NumbersAssumption ==
  MinOverlap \in Nat \ {0} /\ Unit \in Nat \ {0} /\ MaxStarts \in Nat

VARIABLES
  gt,       \* ground-truth/
  list,     \* the test list of this evaluation
  found,    \* what im_detect returned in this evaluation
  dr,       \* detection-results/
  used,     \* .temp_files/<image>_ground_truth.json: the "used" flags
  ranked,   \* .temp_files/<class>_dr.json
  starts, pc,
  cur,      \* the image or class at hand
  tp, fp,   \* of the class at hand, one per detection matched so far
  ap        \* class -> numerator of its average precision

files == <<dr, used, ranked>>
scores == <<tp, fp, ap>>
vars == <<gt, list, found, files, starts, pc, cur, scores>>

Empty(S) == [x \in S |-> NoFile]
NotYet == -1
SmallestOf(S) == CHOOSE x \in S : \A y \in S : x <= y
LargestOf(S) == CHOOSE x \in S : \A y \in S : x >= y
Above(S, x) == {y \in S : y > x}
Files(d) == {x \in DOMAIN d : d[x] # NoFile}

Init ==
  /\ gt \in GroundTruths /\ list = {} /\ found = Empty(Images)
  /\ dr = Empty(Images) /\ used = Empty(Images) /\ ranked = Empty(Classes)
  /\ starts = 0 /\ pc = "idle" /\ cur = NotYet
  /\ tp = <<>> /\ fp = <<>> /\ ap = [c \in Classes |-> NotYet]

Resting == pc \in {"idle", "done", "exit", "dead"}
-----------------------------------------------------------------------------
(***************************************************************************)
(* data_evaluate.                                                          *)
(***************************************************************************)
(* detection-results/ is made anew, before the test list is looked at. *)
KeepOldResults == dr
FreshResults == Empty(Images)

Start(l) ==
  /\ Resting /\ starts < MaxStarts
  /\ starts' = starts + 1
  /\ list' = l /\ found' = Empty(Images)
  /\ dr' = FreshResults
  /\ pc' = IF l = {} THEN "dead" ELSE "detect"
  /\ cur' = NotYet
  /\ tp' = <<>> /\ fp' = <<>> /\ ap' = [c \in Classes |-> NotYet]
  /\ UNCHANGED <<gt, used, ranked>>

(* One image; the file is written whether or not there are detections, and *)
(* for an image that cannot be read as well.                               *)
SkipEmpty(ds) == IF ds = <<>> THEN NoFile ELSE ds
ResultFile(ds) == ds

Detect(ds) ==
  LET k == SmallestOf(Above(list, cur)) IN
  /\ pc = "detect" /\ Above(list, cur) # {}
  /\ found' = [found EXCEPT ![k] = ds]
  /\ dr' = [dr EXCEPT ![k] = ResultFile(ds)]
  /\ cur' = k
  /\ UNCHANGED <<gt, list, used, ranked, starts, pc, scores>>

(* The assertion that there are labels, then the start of eval_mAP, which  *)
(* keeps a .temp_files/ that is already there.                             *)
CheckLabels ==
  /\ pc = "detect" /\ Above(list, cur) = {}
  /\ pc' = IF DOMAIN gt = {} THEN "dead" ELSE "parse"
  /\ cur' = NotYet
  /\ UNCHANGED <<gt, list, found, files, starts, scores>>
-----------------------------------------------------------------------------
(***************************************************************************)
(* eval_mAP.                                                               *)
(***************************************************************************)
Parses(lines) == \A n \in 1 .. Len(lines) : lines[n].cls # Unparsable

(* One ground-truth file becomes a JSON file; `error` leaves the program   *)
(* with status 0 when the image has no detection file, or a line has not   *)
(* the nine fields, or ten with "difficult".                               *)
ReuseFlags(k) == IF used[k] = NoFile THEN [o \in 1 .. Len(gt[k]) |-> FALSE] ELSE used[k]
FreshFlags(k) == [o \in 1 .. Len(gt[k]) |-> FALSE]

ParseGroundTruth ==
  LET k == SmallestOf(Above(DOMAIN gt, cur)) IN
  /\ pc = "parse" /\ Above(DOMAIN gt, cur) # {}
  /\ IF dr[k] = NoFile \/ ~Parses(gt[k])
     THEN pc' = "exit" /\ UNCHANGED <<used, cur>>
     ELSE /\ used' = [used EXCEPT ![k] = FreshFlags(k)]
          /\ cur' = k
          /\ UNCHANGED pc
  /\ UNCHANGED <<gt, list, found, dr, ranked, starts, scores>>

Objects(c) == UNION {{<<k, o>> : o \in {n \in 1 .. Len(gt[k]) : gt[k][n].cls = c}}
                     : k \in DOMAIN gt}

(* gt_counter_per_class: difficult objects are not counted. *)
Counted(c) == Cardinality({p \in Objects(c) : ~gt[p[1]][p[2]].difficult})

GtClasses == {c \in Classes : Counted(c) > 0}

(* Without a class, sum_AP / n_classes divides by zero. *)
EndParse ==
  /\ pc = "parse" /\ Above(DOMAIN gt, cur) = {}
  /\ pc' = IF GtClasses = {} THEN "dead" ELSE "load"
  /\ cur' = NotYet
  /\ UNCHANGED <<gt, list, found, files, starts, scores>>

(* The detections of class c, by image and line, and the one that has n - 1 *)
(* before it: they are collected in the order of the files and stably       *)
(* sorted by decreasing confidence.                                         *)
OfClass(c) == UNION {{<<k, j>> : j \in {n \in 1 .. Len(dr[k]) : dr[k][n].cls = c}}
                     : k \in Files(dr)}
Sooner(p, q) ==
  LET a == dr[p[1]][p[2]].conf
      b == dr[q[1]][q[2]].conf
  IN  a > b \/ (a = b /\ (p[1] < q[1] \/ (p[1] = q[1] /\ p[2] < q[2])))
Sorted(c, n) == CHOOSE p \in OfClass(c) : Cardinality({q \in OfClass(c) : Sooner(q, p)}) = n - 1

Ranked(c) == [n \in 1 .. Cardinality(OfClass(c)) |->
                LET p == Sorted(c, n) IN [image |-> p[1], det |-> dr[p[1]][p[2]]]]

(* One class.  With the first one every detection file must have its       *)
(* ground-truth file; and as every class reads every file, the first one   *)
(* also meets the lines that do not parse.                                 *)
ResultsUsable == Files(dr) \subseteq DOMAIN gt /\ \A k \in Files(dr) : Parses(dr[k])

LoadResults ==
  LET c == SmallestOf(Above(GtClasses, cur)) IN
  /\ pc = "load" /\ Above(GtClasses, cur) # {}
  /\ IF cur = NotYet /\ ~ResultsUsable
     THEN pc' = "exit" /\ UNCHANGED <<ranked, cur>>
     ELSE /\ ranked' = [ranked EXCEPT ![c] = Ranked(c)]
          /\ cur' = c
          /\ UNCHANGED pc
  /\ UNCHANGED <<gt, list, found, dr, used, starts, scores>>

EndLoad ==
  /\ pc = "load" /\ Above(GtClasses, cur) = {}
  /\ pc' = "match"
  /\ cur' = SmallestOf(GtClasses)
  /\ UNCHANGED <<gt, list, found, files, starts, scores>>

(* The object of its class that a detection overlaps most, the first one   *)
(* among equals; 0 when it meets none.                                     *)
BestObject(e) ==
  LET met == {o \in 1 .. Len(gt[e.image]) :
                gt[e.image][o].cls = e.det.cls /\ e.det.ov[o] > 0}
  IN  IF met = {} THEN 0
      ELSE CHOOSE o \in met : \A p \in met :
             \/ e.det.ov[o] > e.det.ov[p]
             \/ e.det.ov[o] = e.det.ov[p] /\ o <= p

Overlaps(e) == BestObject(e) # 0 /\ e.det.ov[BestObject(e)] >= MinOverlap

(* What becomes of a detection: true positive, false positive, or, when it *)
(* finds a difficult object, neither.                                      *)
ForgetUsed(e) ==
  IF ~Overlaps(e) THEN "fp"
  ELSE IF gt[e.image][BestObject(e)].difficult THEN "neither" ELSE "tp"
Verdict(e) ==
  IF ~Overlaps(e) THEN "fp"
  ELSE IF gt[e.image][BestObject(e)].difficult THEN "neither"
  ELSE IF used[e.image][BestObject(e)] THEN "fp" ELSE "tp"

One(b) == IF b THEN 1 ELSE 0

MatchDetection ==
  /\ pc = "match" /\ Len(tp) < Len(ranked[cur])
  /\ LET e == ranked[cur][Len(tp) + 1] IN
       /\ tp' = Append(tp, One(Verdict(e) = "tp"))
       /\ fp' = Append(fp, One(Verdict(e) = "fp"))
       /\ used' = IF Verdict(e) = "tp"
                  THEN [used EXCEPT ![e.image][BestObject(e)] = TRUE] ELSE used
  /\ UNCHANGED <<gt, list, found, dr, ranked, starts, pc, cur, ap>>

(* Cumulative counts, and the precision curve between its sentinels; the   *)
(* 1e-6 that keeps 0/0 away is taken as nothing.                           *)
Cumulative(s) ==
  LET sum[n \in 0 .. Len(s)] == IF n = 0 THEN 0 ELSE sum[n - 1] + s[n]
  IN  sum
SumOf(s) == Cumulative(s)[Len(s)]

Precision(n, t, f) == IF t[n] + f[n] = 0 THEN 0 ELSE (Unit * t[n]) \div (t[n] + f[n])

(* voc_ap: the envelope from the right, and the area under it over the     *)
(* points where the recall changes, in units of 1 / (Unit * Counted).      *)
NoEnvelope(mpre) == mpre
Envelope(mpre) ==
  LET top == Len(mpre)
      env[n \in 1 .. top] ==
        IF n = top THEN mpre[n]
        ELSE LET later == env[n + 1] IN IF mpre[n] > later THEN mpre[n] ELSE later
  IN  env

VocAp(c, hits, misses) ==
  LET t == Cumulative(hits)
      f == Cumulative(misses)
      n == Len(hits)
      mrec == <<0>> \o [m \in 1 .. n |-> t[m]] \o <<Counted(c)>>
      mpre == Envelope(<<0>> \o [m \in 1 .. n |-> Precision(m, t, f)] \o <<0>>)
  IN  SumOf([m \in 1 .. (n + 1) |-> (mrec[m + 1] - mrec[m]) * mpre[m + 1]])

(* After the last class the temporary files are removed. *)
EndClass ==
  /\ pc = "match" /\ Len(tp) = Len(ranked[cur])
  /\ ap' = [ap EXCEPT ![cur] = VocAp(cur, tp, fp)]
  /\ IF Above(GtClasses, cur) # {}
     THEN /\ cur' = SmallestOf(Above(GtClasses, cur))
          /\ tp' = <<>> /\ fp' = <<>>
          /\ UNCHANGED <<used, ranked, pc>>
     ELSE /\ pc' = "done"
          /\ used' = Empty(Images) /\ ranked' = Empty(Classes)
          /\ UNCHANGED <<tp, fp, cur>>
  /\ UNCHANGED <<gt, list, found, dr, starts>>

Step ==
  \/ \E ds \in Detections : Detect(ds)
  \/ CheckLabels \/ ParseGroundTruth \/ EndParse
  \/ LoadResults \/ EndLoad \/ MatchDetection \/ EndClass

(* The process is killed, or the detector raises; the files stay. *)
Kill ==
  /\ ~Resting
  /\ pc' = "dead"
  /\ UNCHANGED <<gt, list, found, files, starts, cur, scores>>

Next == Step \/ Kill \/ \E l \in Lists : Start(l)

Spec == Init /\ [][Next]_vars
FairSpec == Spec /\ WF_vars(Step)
-----------------------------------------------------------------------------
(* The variables keep their types (eval.py:177-270, map.py:286-760).       *)
TypeOK ==
  /\ gt \in GroundTruths /\ list \in Lists \cup {{}}
  /\ \A k \in Images : /\ found[k] \in Detections \cup {NoFile}
                       /\ dr[k] \in Detections \cup {NoFile}
                       /\ used[k] # NoFile => /\ k \in DOMAIN gt
                                              /\ used[k] \in [1 .. Len(gt[k]) -> BOOLEAN]
  /\ \A c \in Classes :
       ranked[c] # NoFile => \A n \in 1 .. Len(ranked[c]) :
         ranked[c][n].image \in Images /\ ranked[c][n].det.cls = c
  /\ starts \in 0 .. MaxStarts
  /\ pc \in {"idle", "detect", "parse", "load", "match", "done", "exit", "dead"}
  /\ cur \in Images \cup Classes \cup {NotYet}
  /\ tp \in Seq({0, 1}) /\ fp \in Seq({0, 1}) /\ Len(tp) = Len(fp)
  /\ \A c \in Classes : ap[c] = NotYet \/ ap[c] \in 0 .. (Unit * Counted(c))

(* The detections of a class, as <<image, position>>, and their ranking.   *)
Found(c) == UNION {{<<k, j>> : j \in {n \in 1 .. Len(found[k]) : found[k][n].cls = c}}
                   : k \in {x \in Images : found[x] # NoFile}}
DetOf(p) == found[p[1]][p[2]]
Outranks(p, q) ==
  \/ DetOf(p).conf > DetOf(q).conf
  \/ /\ DetOf(p).conf = DetOf(q).conf
     /\ p[1] < q[1] \/ (p[1] = q[1] /\ p[2] < q[2])
Nth(c, n) ==
  CHOOSE p \in Found(c) : Cardinality({q \in Found(c) : Outranks(q, p)}) = n - 1

Entry(p) == [image |-> p[1], det |-> DetOf(p)]
Claims(p) == Overlaps(Entry(p)) /\ ~gt[p[1]][BestObject(Entry(p))].difficult
Taken(c, p) == \E q \in Found(c) : /\ Outranks(q, p) /\ Claims(q) /\ q[1] = p[1]
                                  /\ BestObject(Entry(q)) = BestObject(Entry(p))
IsHit(c, n) == Claims(Nth(c, n)) /\ ~Taken(c, Nth(c, n))
IsMiss(c, n) ==
  \/ ~Overlaps(Entry(Nth(c, n)))
  \/ Claims(Nth(c, n)) /\ Taken(c, Nth(c, n))

(* A detection is a true positive exactly when it is the best ranked of    *)
(* this evaluation's detections that overlap their object most and enough, *)
(* and a false positive when it overlaps none enough or comes later: the   *)
(* flags kept in the JSON files count no object twice, whatever files an   *)
(* earlier evaluation left behind (map.py:535-625).                        *)
FirstClaim ==
  pc = "match" => \A n \in 1 .. Len(tp) : /\ tp[n] = 1 <=> IsHit(cur, n)
                                          /\ fp[n] = 1 <=> IsMiss(cur, n)

(* The average precision of every class is the area under the precision    *)
(* envelope of this evaluation's detections: for each object found, the    *)
(* best precision at which at least that many are (map.py:103-140,         *)
(* 684-706).                                                               *)
ApIsArea ==
  \A c \in Classes : ap[c] # NotYet =>
    LET total == Cardinality(Found(c))
        hits(n) == Cardinality({m \in 1 .. n : IsHit(c, m)})
        misses(n) == Cardinality({m \in 1 .. n : IsMiss(c, m)})
        best(k) == LargestOf({(Unit * hits(n)) \div (hits(n) + misses(n)) :
                              n \in {m \in 1 .. total : hits(m) >= k}})
    IN  ap[c] = SumOf([k \in 1 .. hits(total) |-> best(k)])

AnnotationsParse == \A k \in DOMAIN gt : Parses(gt[k])
DetectionsParse == \A k \in Files(found) : Parses(found[k])

(* An evaluation returns a mAP, of every class with a countable object,    *)
(* only over the images of the test list, each with its ground truth, and  *)
(* only when every line of the two directories was understood; it leaves   *)
(* through `error` only when the test list and the ground truth name       *)
(* different images or a line does not parse, and never because of an      *)
(* image without detections or a file of an earlier evaluation             *)
(* (eval.py:186-251, map.py:388-411, 489-503).                             *)
SameImages ==
  /\ pc = "done" => /\ list = DOMAIN gt /\ AnnotationsParse /\ DetectionsParse
                    /\ GtClasses # {}
                    /\ \A c \in Classes : ap[c] # NotYet <=> c \in GtClasses
  /\ pc = "exit" => list # DOMAIN gt \/ ~AnnotationsParse \/ ~DetectionsParse

(* An evaluation of matching directories, whose annotations all parse,     *)
(* returns, unless it is killed or writes a detection that does not parse  *)
(* (eval.py:208-253, map.py:384-760).                                      *)
EvaluationReturns ==
  (pc = "detect" /\ list = DOMAIN gt /\ AnnotationsParse /\ GtClasses # {}) ~>
    pc \in {"done", "dead"} \/ (pc = "exit" /\ ~DetectionsParse)
=============================================================================
