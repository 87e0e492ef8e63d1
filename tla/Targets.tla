------------------------------ MODULE Targets ------------------------------
(***************************************************************************)
(* From annotation files to training targets: __getitem__ of               *)
(* datasets/hrsc_dataset.py for every image of a batch, the Collater that  *)
(* pads the boxes to one tensor, and the assignment of anchors to boxes in *)
(* IntegratedLoss.forward of models/losses.py.                             *)
(*                                                                         *)
(* A box is abstracted to its class, to whether it is well shaped (what    *)
(* mask_valid_boxes tests) and to its overlap with each anchor, in levels. *)
(***************************************************************************)
EXTENDS Integers, Sequences, FiniteSets

CONSTANTS
  BatchSize,      \* batch_size
  Anchors,
  Annotations,    \* what the annotation of an image may hold: its boxes
  Unreadable,     \* or files that cannot be read or parsed
  Augment,        \* --augment
  Positive,       \* the level of iou_thres
  Negligible      \* the level of iou_thres - 0.1

Images == 1 .. BatchSize
BoxType == [cls: Nat, shaped: BOOLEAN, iou: [Anchors -> Nat]]

ASSUME BatchAssumption == BatchSize \in Nat \ {0}
ASSUME AnnotationsAssumption == Annotations \subseteq Seq(BoxType)
ASSUME AugmentAssumption == Augment \in BOOLEAN
ASSUME LevelsAssumption == Positive \in Nat /\ Negligible \in Nat /\ Negligible < Positive

VARIABLES
  annots,     \* the files of the batch
  sample,     \* the samples built so far, a sequence of rows each
  batch,      \* padded_boxes
  positive,   \* positive_indices of each image, as a set of anchors
  assigned,   \* iou_argmax: the row an anchor overlaps most
  target,     \* cls_targets: a class, AllZero, or Ignored
  pc

vars == <<annots, sample, batch, positive, assigned, target, pc>>

Ignored == -1
AllZero == -2
Row(c, b) == [cls |-> c, iou |-> b.iou]

Init ==
  /\ annots \in [Images -> Annotations \cup {Unreadable}]
  /\ sample = <<>> /\ batch = <<>>
  /\ positive = <<>> /\ assigned = <<>> /\ target = <<>>
  /\ pc = "fetch"

-----------------------------------------------------------------------------
(* Indexing with a mask: the entries of s at the indices in keep.          *)
Nth(keep, r) == CHOOSE i \in keep : Cardinality({j \in keep : j <= i}) = r
Masked(s, keep) == [r \in 1 .. Cardinality(keep) |-> s[Nth(keep, r)]]

(* The boxes that are not background, and of those the well-shaped ones.   *)
GtBoxes(ann) == Masked(ann, {i \in DOMAIN ann : ann[i].cls # 0})
KeptBoxes(ann) ==
  LET gt == GtBoxes(ann) IN Masked(gt, {i \in DOMAIN gt : gt[i].shaped})

(* No image or mask behind its path; in an HRSC file a coordinate that is  *)
(* no number or a class the level does not list; in a VOC file no XML.     *)
CannotRead(ann) == ann = Unreadable

(* gt_boxes is bound only when the annotation has a box; an Augment hands  *)
(* back more values than its caller unpacks; rows are allotted for the     *)
(* boxes before the filter, and numpy fits the filtered ones into them     *)
(* when they are as many or just one.                                      *)
AllotEveryBox(ann) ==
  CannotRead(ann) \/ ann = <<>> \/ Augment \/ Len(KeptBoxes(ann)) \notin {Len(ann), 1}
Raises(ann) ==
  \/ CannotRead(ann)
  \/ ann = <<>>
  \/ Augment
  \/ Len(KeptBoxes(ann)) \notin {Len(GtBoxes(ann)), 1}

(* A single box left fills every row; only the first has its class. *)
Rows(ann) ==
  LET kept == KeptBoxes(ann) IN
  [r \in 1 .. Len(GtBoxes(ann)) |->
     IF r <= Len(kept) THEN Row(kept[r].cls, kept[r]) ELSE Row(0, kept[1])]

GetItem ==
  LET ann == annots[Len(sample) + 1] IN
  /\ pc = "fetch" /\ Len(sample) < BatchSize
  /\ IF Raises(ann)
     THEN pc' = "raised" /\ UNCHANGED sample
     ELSE sample' = Append(sample, Rows(ann)) /\ UNCHANGED pc
  /\ UNCHANGED <<annots, batch, positive, assigned, target>>

(* Shorter samples are padded with rows of -1. *)
Padding == [cls |-> -1, iou |-> [a \in Anchors |-> 0]]
MaxBoxes == CHOOSE n \in {Len(sample[k]) : k \in Images} :
              \A k \in Images : Len(sample[k]) <= n

Collate ==
  /\ pc = "fetch" /\ Len(sample) = BatchSize
  /\ batch' = [k \in Images |-> [r \in 1 .. MaxBoxes |->
                 IF r <= Len(sample[k]) THEN sample[k][r] ELSE Padding]]
  /\ pc' = "loss"
  /\ UNCHANGED <<annots, sample, positive, assigned, target>>

-----------------------------------------------------------------------------
(* bbox_annotation: the rows of an image that are not padding. *)
WithPadding(k) == batch[k]
Real(k) == Masked(batch[k], {r \in DOMAIN batch[k] : batch[k][r].cls # -1})

BestRows(rows, a) ==
  {r \in DOMAIN rows : \A q \in DOMAIN rows : rows[q].iou[a] <= rows[r].iou[a]}
BestAnchors(rows, r) ==
  {a \in Anchors : \A b \in Anchors : rows[r].iou[b] <= rows[r].iou[a]}

Above(rows, a, level) == \E r \in DOMAIN rows : rows[r].iou[a] >= level

(* A row that no anchor overlaps enough claims the anchor it overlaps most. *)
NoneForced(rows) == {}
Forced(rows) ==
  {r \in DOMAIN rows : \A a \in Anchors : rows[r].iou[a] < Positive}

(* The targets in the order they are written: ignored, all zero below the  *)
(* band, and then the positive anchors.                                    *)
ClassTargets(rows, pos, best) ==
  [a \in Anchors |->
     IF a \in pos THEN rows[best[a]].cls
     ELSE IF ~Above(rows, a, Negligible) THEN AllZero ELSE Ignored]

(* One image.  Among equal overlaps torch.max may return any index.        *)
Assign ==
  LET k == Len(positive) + 1
      rows == Real(k)
  IN /\ pc = "loss" /\ k <= BatchSize /\ rows # <<>>
     /\ \E best \in [Anchors -> DOMAIN rows], claim \in [Forced(rows) -> Anchors] :
          /\ \A a \in Anchors : best[a] \in BestRows(rows, a)
          /\ \A r \in Forced(rows) : claim[r] \in BestAnchors(rows, r)
          /\ LET pos == {a \in Anchors : Above(rows, a, Positive)}
                          \cup {claim[r] : r \in Forced(rows)}
             IN /\ positive' = Append(positive, pos)
                /\ assigned' = Append(assigned, best)
                /\ target' = Append(target, ClassTargets(rows, pos, best))
     /\ UNCHANGED <<annots, sample, batch, pc>>

LosslessImage ==
  LET k == Len(positive) + 1 IN
  /\ pc = "loss" /\ k <= BatchSize /\ Real(k) = <<>>
  /\ positive' = Append(positive, {})
  /\ UNCHANGED <<annots, sample, batch, assigned, target, pc>>

(* Without boxes the image adds a zero to both losses, and nothing else. *)
AssignNothing ==
  LET k == Len(positive) + 1 IN
  /\ pc = "loss" /\ k <= BatchSize /\ Real(k) = <<>>
  /\ positive' = Append(positive, {})
  /\ assigned' = Append(assigned, <<>>)
  /\ target' = Append(target, [a \in Anchors |-> Ignored])
  /\ UNCHANGED <<annots, sample, batch, pc>>

Next == GetItem \/ Collate \/ Assign \/ AssignNothing

Spec == Init /\ [][Next]_vars
FairSpec == Spec /\ WF_vars(Next)
-----------------------------------------------------------------------------
(* The variables keep their types (hrsc_dataset.py:69-195,                 *)
(* collater.py:64-139, losses.py:41-121).                                  *)
RowType == [cls: Nat \cup {-1}, iou: [Anchors -> Nat]]

TypeOK ==
  /\ annots \in [Images -> Annotations \cup {Unreadable}]
  /\ sample \in Seq(Seq(RowType)) /\ Len(sample) <= BatchSize
  /\ batch = <<>> \/ batch \in [Images -> Seq(RowType)]
  /\ positive \in Seq(SUBSET Anchors)
  /\ target \in Seq([Anchors -> Nat \cup {Ignored, AllZero}])
  /\ Len(assigned) = Len(positive) /\ Len(target) = Len(positive)
  /\ pc \in {"fetch", "loss", "raised"}

WellShaped(k) == ~CannotRead(annots[k]) /\ \A r \in DOMAIN annots[k] : annots[k][r].shaped
Annotated(k) == {annots[k][r] : r \in {n \in DOMAIN annots[k] : annots[k][n].cls # 0}}

(* Every annotated box claims an anchor: a positive one that overlaps it   *)
(* enough, or no less than any other anchor does.  The anchor learns this  *)
(* box, or one of the image it overlaps at least as much: the row it       *)
(* learns is its iou_argmax, not the row it was claimed for                *)
(* (losses.py:74-88).                                                      *)
EveryBoxClaimsAnchor ==
  \A k \in 1 .. Len(positive) : WellShaped(k) =>
    \A b \in Annotated(k) : \E a \in positive[k] :
      /\ b.iou[a] >= Positive \/ \A other \in Anchors : b.iou[other] <= b.iou[a]
      /\ \E c \in Annotated(k) : target[k][a] = c.cls /\ b.iou[a] <= c.iou[a]

(* The targets of an image are those of its own boxes, whatever else is in *)
(* its batch: a positive anchor has the class of a box it overlaps no less *)
(* than any other, an anchor is left out only between the two thresholds,  *)
(* and background is what overlaps every box too little                    *)
(* (collater.py:88-122, losses.py:53-88).                                  *)
TargetsFromOwnBoxes ==
  \A k \in 1 .. Len(positive) : WellShaped(k) /\ GtBoxes(annots[k]) # <<>> =>
    LET boxes == Annotated(k) IN
    \A a \in Anchors :
      /\ a \in positive[k] =>
           \E b \in boxes : /\ target[k][a] = b.cls
                            /\ \A c \in boxes : c.iou[a] <= b.iou[a]
      /\ target[k][a] = Ignored =>
           /\ \E b \in boxes : b.iou[a] >= Negligible
           /\ \A b \in boxes : b.iou[a] < Positive
      /\ target[k][a] = AllZero => \A b \in boxes : b.iou[a] < Negligible

(* The whole batch gets its targets whenever every image can be read and   *)
(* has an annotated box, all boxes are well shaped, and nothing is         *)
(* augmented: images with only background boxes, with fewer boxes than the *)
(* largest, or with boxes no anchor overlaps do not stop it                *)
(* (hrsc_dataset.py:94-195, collater.py:88-122, losses.py:54-57).          *)
GoodBatchLearned ==
  (~Augment /\ \A k \in Images : annots[k] # <<>> /\ WellShaped(k))
    ~> Len(positive) = BatchSize

(***************************************************************************)
(* What a comment of hrsc_dataset.py says, and the code does not do.       *)
(***************************************************************************)
(* "No annotation found -> a negative sample" (hrsc_dataset.py:225): the   *)
(* image is an example without boxes, not an exception.                    *)
NegativeSample ==
  pc = "raised" => annots[Len(sample) + 1] # <<>>
=============================================================================
