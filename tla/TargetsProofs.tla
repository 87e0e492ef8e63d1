--------------------------- MODULE TargetsProofs ---------------------------
(***************************************************************************)
(* What holds of Targets whatever the batch, the anchors, the annotations  *)
(* and the thresholds: every box of a well-shaped annotation claims an     *)
(* anchor, and the targets of an image are made of its own boxes, however  *)
(* its rows were filtered and padded.                                      *)
(***************************************************************************)
EXTENDS Targets, FiniteSetTheorems, SequenceTheorems, WellFoundedInduction, TLAPS

(***************************************************************************)
(* Naturals, and indexing with a mask.                                     *)
(***************************************************************************)
(* A set of natural numbers has a least element.                           *)
LEMMA HasLeast ==
  ASSUME NEW S \in SUBSET Nat, S # {}
  PROVE  \E n \in S : \A m \in S : n <= m
<1> DEFINE R == OpToRel(<, Nat)
<1>1. IsWellFoundedOn(R, Nat)
  BY NatLessThanWellFounded
<1>2. \A a, b \in Nat : <<a, b>> \in R <=> a < b
  BY DEF OpToRel
<1> HIDE DEF R
<1>3. PICK n \in S : \A m \in S : <<m, n>> \notin R
  BY <1>1, WFMin
<1>4. \A m \in S : ~(m < n) /\ m \in Nat /\ n \in Nat
  BY <1>2, <1>3
<1> QED
  BY <1>4

(* One of finitely many natural numbers is the largest.                    *)
LEMMA HasLargest ==
  ASSUME NEW n \in Nat \ {0}, NEW f \in [1 .. n -> Nat]
  PROVE  \E k \in 1 .. n : \A j \in 1 .. n : f[j] <= f[k]
<1> DEFINE Top(m) == \E k \in 1 .. m : \A j \in 1 .. m : f[j] <= f[k]
           S == {m \in 1 .. n : ~Top(m)}
<1>1. S \in SUBSET Nat /\ (n \notin S => Top(n))
  OBVIOUS
<1>2. SUFFICES ASSUME S # {}
               PROVE  FALSE
  BY <1>1
<1> HIDE DEF S
<1>3. PICK m \in S : \A l \in S : m <= l
  BY <1>1, <1>2, HasLeast
<1> USE DEF S
<1>4. m # 1
  <2>1. Top(1)
    OBVIOUS
  <2> QED
    BY <1>3, <2>1
<1>5. m - 1 \in 1 .. n /\ Top(m - 1) /\ m \in 1 .. n
  <2>1. m \in 1 .. n
    BY <1>3
  <2>2. m - 1 \in 1 .. n /\ ~(m <= m - 1)
    BY <2>1, <1>4
  <2> HIDE DEF S
  <2>3. m - 1 \notin S
    BY <1>3, <2>2
  <2> USE DEF S
  <2> QED
    BY <2>1, <2>2, <2>3
<1>6. PICK k \in 1 .. m - 1 : \A j \in 1 .. m - 1 : f[j] <= f[k]
  BY <1>5
<1>7. CASE f[m] <= f[k]
  <2>1. k \in 1 .. m /\ \A j \in 1 .. m : f[j] <= f[k]
    BY <1>5, <1>6, <1>7
  <2> QED
    BY <1>3, <2>1
<1>8. CASE f[m] > f[k]
  <2>1. m \in 1 .. m /\ \A j \in 1 .. m : f[j] <= f[m]
    BY <1>5, <1>6, <1>8
  <2> QED
    BY <1>3, <2>1
<1> QED
  BY <1>5, <1>6, <1>7, <1>8

(* The ranks of the indices in a mask are the numbers up to its size.      *)
LEMMA NthOf ==
  ASSUME NEW n \in Nat, NEW keep \in SUBSET (1 .. n)
  PROVE  /\ Cardinality(keep) \in Nat
         /\ \A r \in 1 .. Cardinality(keep) : Nth(keep, r) \in keep
         /\ \A i \in keep : \E r \in 1 .. Cardinality(keep) : Nth(keep, r) = i
<1> DEFINE Upto(i) == {j \in keep : j <= i}
           N == Cardinality(keep)
           rank == [i \in keep |-> Cardinality(Upto(i))]
<1>1. IsFiniteSet(keep) /\ N \in Nat /\ IsFiniteSet(1 .. N) /\ Cardinality(1 .. N) = N
  <2>1. IsFiniteSet(keep)
    <3>1. IsFiniteSet(1 .. n)
      BY FS_Interval
    <3> QED
      BY <3>1, FS_Subset
  <2>2. N \in Nat
    BY <2>1, FS_CardinalityType
  <2> QED
    BY <2>1, <2>2, FS_Interval
<1>2. \A i \in keep : IsFiniteSet(Upto(i)) /\ rank[i] \in 1 .. N
  <2> SUFFICES ASSUME NEW i \in keep
               PROVE  IsFiniteSet(Upto(i)) /\ rank[i] \in 1 .. N
    OBVIOUS
  <2>1. IsFiniteSet(Upto(i)) /\ Cardinality(Upto(i)) <= N
    BY <1>1, FS_Subset
  <2>2. Cardinality(Upto(i)) \in Nat /\ Cardinality(Upto(i)) # 0
    BY <2>1, FS_CardinalityType, FS_EmptySet
  <2> QED
    BY <1>1, <2>1, <2>2
<1>3. \A i, j \in keep : i < j => rank[i] < rank[j]
  <2> SUFFICES ASSUME NEW i \in keep, NEW j \in keep, i < j
               PROVE  rank[i] < rank[j]
    OBVIOUS
  <2>1. i \in Int /\ j \in Int /\ \A l \in keep : l \in Int
    OBVIOUS
  <2>2. Upto(i) \subseteq Upto(j)
    <3> SUFFICES ASSUME NEW l \in keep, l <= i
                 PROVE  l <= j
      OBVIOUS
    <3> QED
      BY <2>1
  <2>3. j \in Upto(j) /\ j \notin Upto(i)
    BY <2>1
  <2>4. Cardinality(Upto(i)) <= Cardinality(Upto(j)) /\ Cardinality(Upto(i)) # Cardinality(Upto(j))
    BY <1>2, <2>2, <2>3, FS_Subset
  <2> QED
    BY <1>2, <2>4
<1>4. \A i, j \in keep : rank[i] = rank[j] => i = j
  <2> SUFFICES ASSUME NEW i \in keep, NEW j \in keep, rank[i] = rank[j], i # j
               PROVE  FALSE
    OBVIOUS
  <2>1. i < j \/ j < i
    OBVIOUS
  <2> QED
    BY <1>2, <1>3, <2>1
<1>5. rank \in Injection(keep, 1 .. N)
  BY <1>2, <1>4 DEF Injection, IsInjective
<1>6. rank \in Surjection(keep, 1 .. N)
  BY <1>1, <1>5, FS_Injection
<1>7. \A r \in 1 .. N : \E i \in keep : rank[i] = r
  BY <1>6 DEF Surjection
<1>8. \A r \in 1 .. N : Nth(keep, r) \in keep /\ rank[Nth(keep, r)] = r
  BY <1>7 DEF Nth
<1>9. \A i \in keep : Nth(keep, rank[i]) = i
  BY <1>2, <1>4, <1>8
<1> QED
  BY <1>1, <1>2, <1>8, <1>9

(* What the mask selects is in the result, and nothing else is.            *)
LEMMA MaskedIs ==
  ASSUME NEW T, NEW s \in Seq(T), NEW keep \in SUBSET DOMAIN s
  PROVE  /\ Masked(s, keep) \in Seq(T)
         /\ Len(Masked(s, keep)) = Cardinality(keep)
         /\ \A r \in DOMAIN Masked(s, keep) : \E i \in keep : Masked(s, keep)[r] = s[i]
         /\ \A i \in keep : \E r \in DOMAIN Masked(s, keep) : Masked(s, keep)[r] = s[i]
<1> DEFINE N == Cardinality(keep)
           m == Masked(s, keep)
<1>1. Len(s) \in Nat /\ DOMAIN s = 1 .. Len(s) /\ \A i \in DOMAIN s : s[i] \in T
  BY LenProperties
<1>2. /\ N \in Nat /\ \A r \in 1 .. N : Nth(keep, r) \in keep
      /\ \A i \in keep : \E r \in 1 .. N : Nth(keep, r) = i
  BY <1>1, NthOf
<1>3. m \in [1 .. N -> T] /\ \A r \in 1 .. N : m[r] = s[Nth(keep, r)]
  BY <1>1, <1>2 DEF Masked
<1> HIDE DEF m, N
<1>4. m \in Seq(T)
  BY <1>2, <1>3, SeqDef
<1>5. Len(m) = N /\ DOMAIN m = 1 .. N
  <2>1. DOMAIN m = 1 .. N /\ DOMAIN m = 1 .. Len(m) /\ Len(m) \in Nat
    BY <1>3, <1>4, LenProperties
  <2> QED
    BY <1>2, <2>1
<1>6. m = Masked(s, keep) /\ N = Cardinality(keep)
  BY DEF m, N
<1> QED
  BY <1>2, <1>3, <1>4, <1>5, <1>6

(* A mask of the first entries cuts the sequence off behind them.          *)
LEMMA MaskedPrefix ==
  ASSUME NEW T, NEW s \in Seq(T), NEW n \in Nat, n <= Len(s), NEW keep, keep = 1 .. n
  PROVE  Masked(s, keep) = [r \in 1 .. n |-> s[r]]
<1>1. Cardinality(keep) = n
  BY FS_Interval
<1>2. \A r \in 1 .. n : Nth(keep, r) = r
  <2> SUFFICES ASSUME NEW r \in 1 .. n
               PROVE  Nth(keep, r) = r
    OBVIOUS
  <2>1. \A i \in keep : {j \in keep : j <= i} = 1 .. i /\ Cardinality(1 .. i) = i
    BY FS_Interval
  <2>2. \A i \in keep : Cardinality({j \in keep : j <= i}) = i
    BY <2>1
  <2> QED
    BY <2>2 DEF Nth
<1> QED
  BY <1>1, <1>2 DEF Masked

-----------------------------------------------------------------------------
(***************************************************************************)
(* The inductive invariant: what a sample is, what the batch makes of it,  *)
(* and what the loss has made of the images it has seen.                   *)
(***************************************************************************)
Built ==
  /\ annots \in [Images -> Annotations \cup {Unreadable}]
  /\ sample \in Seq(Seq(RowType)) /\ Len(sample) <= BatchSize
  /\ \A k \in 1 .. Len(sample) :
       annots[k] \in Annotations /\ ~Raises(annots[k]) /\ sample[k] = Rows(annots[k])

Padded(rows, s) ==
  /\ rows \in Seq(RowType) /\ Len(s) <= Len(rows)
  /\ \A r \in 1 .. Len(rows) : rows[r] = IF r <= Len(s) THEN s[r] ELSE Padding

Batched ==
  /\ pc \in {"fetch", "loss", "raised"}
  /\ IF pc = "loss"
       THEN /\ Len(sample) = BatchSize /\ batch \in [Images -> Seq(RowType)]
            /\ \A k \in Images : Padded(batch[k], sample[k])
       ELSE batch = <<>> /\ positive = <<>>

(* The targets of the rows of one image, for some choice of torch.max.     *)
Claimed(rows, claim) ==
  {a \in Anchors : Above(rows, a, Positive)} \cup {claim[r] : r \in Forced(rows)}
Matched(rows, pos, tgt) ==
  \E best \in [Anchors -> DOMAIN rows], claim \in [Forced(rows) -> Anchors] :
    /\ \A a \in Anchors : best[a] \in BestRows(rows, a)
    /\ \A r \in Forced(rows) : claim[r] \in BestAnchors(rows, r)
    /\ pos = Claimed(rows, claim) /\ tgt = ClassTargets(rows, pos, best)
Learned(k) ==
  IF sample[k] = <<>> THEN positive[k] = {} /\ target[k] = [a \in Anchors |-> Ignored]
  ELSE Matched(sample[k], positive[k], target[k])

Targeted ==
  /\ positive \in Seq(SUBSET Anchors) /\ Len(positive) <= BatchSize
  /\ assigned \in Seq([Anchors -> Nat] \cup {<<>>}) /\ Len(assigned) = Len(positive)
  /\ target \in Seq([Anchors -> Nat \cup {Ignored, AllZero}])
  /\ Len(target) = Len(positive)
  /\ \A k \in 1 .. Len(positive) : Learned(k)

Inv == Built /\ Batched /\ Targeted
-----------------------------------------------------------------------------
(***************************************************************************)
(* The rows of a sample.                                                   *)
(***************************************************************************)
LEMMA KeptIs ==
  ASSUME NEW ann \in Annotations
  PROVE  /\ ann \in Seq(BoxType) /\ GtBoxes(ann) \in Seq(BoxType) /\ KeptBoxes(ann) \in Seq(BoxType)
         /\ \A r \in DOMAIN GtBoxes(ann) :
              \E i \in DOMAIN ann : ann[i].cls # 0 /\ GtBoxes(ann)[r] = ann[i]
         /\ \A i \in DOMAIN ann : ann[i].cls # 0 =>
              \E r \in DOMAIN GtBoxes(ann) : GtBoxes(ann)[r] = ann[i]
<1> DEFINE gt == GtBoxes(ann)
           real == {i \in DOMAIN ann : ann[i].cls # 0}
           shaped == {i \in DOMAIN gt : gt[i].shaped}
<1>1. ann \in Seq(BoxType) /\ real \in SUBSET DOMAIN ann
  BY AnnotationsAssumption
<1>2. gt = Masked(ann, real)
  BY DEF GtBoxes
<1>3. gt \in Seq(BoxType)
  BY <1>1, <1>2, MaskedIs
<1>4. KeptBoxes(ann) = Masked(gt, shaped) /\ shaped \in SUBSET DOMAIN gt
  BY DEF KeptBoxes
<1>5. KeptBoxes(ann) \in Seq(BoxType)
  BY <1>3, <1>4, MaskedIs
<1>6. /\ \A r \in DOMAIN Masked(ann, real) : \E i \in real : Masked(ann, real)[r] = ann[i]
      /\ \A i \in real : \E r \in DOMAIN Masked(ann, real) : Masked(ann, real)[r] = ann[i]
  BY <1>1, MaskedIs
<1> QED
  BY <1>1, <1>2, <1>3, <1>5, <1>6

LEMMA RowsIs ==
  ASSUME NEW ann \in Annotations, ~Raises(ann)
  PROVE  /\ Rows(ann) \in Seq(RowType) /\ Len(Rows(ann)) = Len(GtBoxes(ann))
         /\ \A r \in 1 .. Len(Rows(ann)) : Rows(ann)[r].cls # -1
<1> DEFINE gt == GtBoxes(ann)
           kept == KeptBoxes(ann)
           rows == Rows(ann)
<1>1. gt \in Seq(BoxType) /\ kept \in Seq(BoxType)
  BY KeptIs
<1>2. Len(gt) \in Nat /\ Len(kept) \in Nat /\ \A r \in 1 .. Len(kept) : kept[r] \in BoxType
  BY <1>1, LenProperties
<1>3. \A r \in 1 .. Len(gt) : r <= Len(kept) \/ Len(kept) = 1
  BY <1>2 DEF Raises
<1>4. \A c \in Nat : \A b \in BoxType : Row(c, b) \in RowType /\ Row(c, b).cls # -1
  BY DEF Row, BoxType, RowType
<1>5. \A b \in BoxType : b.cls \in Nat
  BY DEF BoxType
<1>6. \A r \in 1 .. Len(gt) : rows[r] \in RowType /\ rows[r].cls # -1
  <2> SUFFICES ASSUME NEW r \in 1 .. Len(gt)
               PROVE  rows[r] \in RowType /\ rows[r].cls # -1
    OBVIOUS
  <2>1. rows[r] = IF r <= Len(kept) THEN Row(kept[r].cls, kept[r]) ELSE Row(0, kept[1])
    BY DEF Rows
  <2>2. CASE r <= Len(kept)
    <3>1. r \in 1 .. Len(kept)
      BY <1>2, <2>2
    <3> QED
      BY <1>2, <1>4, <1>5, <2>1, <2>2, <3>1
  <2>3. CASE ~(r <= Len(kept))
    <3>1. kept[1] \in BoxType
      BY <1>2, <1>3, <2>3
    <3> QED
      BY <1>4, <2>1, <2>3, <3>1
  <2> QED
    BY <2>2, <2>3
<1>7. rows = [r \in 1 .. Len(gt) |-> rows[r]]
  BY DEF Rows
<1> HIDE DEF rows, gt, kept
<1>8. rows \in [1 .. Len(gt) -> RowType]
  BY <1>6, <1>7
<1>9. rows \in Seq(RowType)
  BY <1>2, <1>8, SeqDef
<1>10. Len(rows) = Len(gt)
  <2>1. DOMAIN rows = 1 .. Len(gt) /\ DOMAIN rows = 1 .. Len(rows) /\ Len(rows) \in Nat
    BY <1>8, <1>9, LenProperties
  <2> QED
    BY <1>2, <2>1
<1> QED
  BY <1>6, <1>9, <1>10 DEF rows, gt

(* When no box is filtered, the rows are the boxes.                        *)
LEMMA RowsOfWellShaped ==
  ASSUME NEW ann \in Annotations, ~Raises(ann), \A i \in DOMAIN ann : ann[i].shaped
  PROVE  \A r \in DOMAIN GtBoxes(ann) :
           Rows(ann)[r] = Row(GtBoxes(ann)[r].cls, GtBoxes(ann)[r])
<1> DEFINE gt == GtBoxes(ann)
           shaped == {i \in DOMAIN gt : gt[i].shaped}
<1>1. gt \in Seq(BoxType) /\ \A r \in DOMAIN gt : \E i \in DOMAIN ann : gt[r] = ann[i]
  BY KeptIs
<1>2. Len(gt) \in Nat /\ DOMAIN gt = 1 .. Len(gt)
  BY <1>1, LenProperties
<1>3. shaped = 1 .. Len(gt)
  BY <1>1, <1>2
<1>4. KeptBoxes(ann) = [r \in 1 .. Len(gt) |-> gt[r]]
  <2>1. KeptBoxes(ann) = Masked(gt, shaped)
    BY DEF KeptBoxes
  <2> HIDE DEF gt, shaped
  <2> QED
    BY <1>1, <1>2, <1>3, <2>1, MaskedPrefix
<1>5. KeptBoxes(ann) \in Seq(BoxType)
  BY KeptIs
<1> HIDE DEF gt
<1>6. Len(KeptBoxes(ann)) = Len(gt)
  <2>1. DOMAIN KeptBoxes(ann) = 1 .. Len(gt) /\ DOMAIN KeptBoxes(ann) = 1 .. Len(KeptBoxes(ann))
        /\ Len(KeptBoxes(ann)) \in Nat
    BY <1>4, <1>5, LenProperties
  <2> QED
    BY <1>2, <2>1
<1>7. \A r \in 1 .. Len(gt) : Rows(ann)[r] = Row(KeptBoxes(ann)[r].cls, KeptBoxes(ann)[r])
  BY <1>2, <1>6 DEF Rows, gt
<1> QED
  BY <1>2, <1>4, <1>7 DEF gt

(* The loss strips from an image what the collater added, and only that.   *)
LEMMA RealIsSample ==
  ASSUME Inv, pc = "loss", NEW k \in Images
  PROVE  Real(k) = sample[k]
<1> DEFINE rows == batch[k]
           s == sample[k]
           real == {r \in DOMAIN rows : rows[r].cls # -1}
<1>1. k \in 1 .. Len(sample) /\ annots[k] \in Annotations /\ ~Raises(annots[k]) /\ s = Rows(annots[k])
  BY DEF Inv, Built, Batched, Images
<1>2. s \in Seq(RowType) /\ \A r \in 1 .. Len(s) : s[r].cls # -1
  BY <1>1, RowsIs
<1>3. rows \in Seq(RowType) /\ Len(s) <= Len(rows)
      /\ \A r \in 1 .. Len(rows) : rows[r] = IF r <= Len(s) THEN s[r] ELSE Padding
  BY DEF Inv, Batched, Padded
<1>4. Padding.cls = -1
  BY DEF Padding
<1>5. Real(k) = Masked(rows, real)
  BY DEF Real
<1> HIDE DEF rows, s
<1>6. Len(s) \in Nat /\ Len(rows) \in Nat /\ DOMAIN rows = 1 .. Len(rows)
  BY <1>2, <1>3, LenProperties
<1>7. real = 1 .. Len(s)
  BY <1>2, <1>3, <1>4, <1>6
<1>8. Real(k) = [r \in 1 .. Len(s) |-> rows[r]]
  BY <1>3, <1>5, <1>6, <1>7, MaskedPrefix
<1>9. s = [r \in 1 .. Len(s) |-> s[r]]
  BY <1>2, LenProperties
<1>10. \A r \in 1 .. Len(s) : rows[r] = s[r]
  BY <1>3, <1>6
<1> QED
  BY <1>8, <1>9, <1>10 DEF s

(* The batch is as long as its longest sample.                             *)
LEMMA MaxBoxesIs ==
  ASSUME Built, Len(sample) = BatchSize
  PROVE  MaxBoxes \in Nat /\ \A k \in Images : Len(sample[k]) <= MaxBoxes
<1> DEFINE f == [k \in 1 .. BatchSize |-> Len(sample[k])]
           S == {Len(sample[k]) : k \in Images}
<1>1. \A k \in Images : Len(sample[k]) \in Nat
  <2> SUFFICES ASSUME NEW k \in Images
               PROVE  Len(sample[k]) \in Nat
    OBVIOUS
  <2>1. sample[k] \in Seq(RowType)
    BY ElementOfSeq DEF Built, Images
  <2> QED
    BY <2>1, LenProperties
<1>2. f \in [1 .. BatchSize -> Nat] /\ BatchSize \in Nat \ {0}
  BY <1>1, BatchAssumption DEF Images
<1>3. PICK k \in 1 .. BatchSize : \A j \in 1 .. BatchSize : f[j] <= f[k]
  BY <1>2, HasLargest
<1>4. Len(sample[k]) \in S /\ \A j \in Images : Len(sample[j]) <= Len(sample[k])
  BY <1>3 DEF Images
<1>5. MaxBoxes \in S /\ \A j \in Images : Len(sample[j]) <= MaxBoxes
  BY <1>4 DEF MaxBoxes
<1> QED
  BY <1>1, <1>5
-----------------------------------------------------------------------------
(***************************************************************************)
(* Every step preserves the invariant.                                     *)
(***************************************************************************)
LEMMA GetItemInv ==
  ASSUME Inv, GetItem
  PROVE  Inv'
<1> DEFINE n == Len(sample) + 1
<1>1. /\ pc = "fetch" /\ Len(sample) < BatchSize /\ Len(sample) \in Nat /\ batch = <<>> /\ positive = <<>>
      /\ UNCHANGED <<annots, batch, positive, assigned, target>>
  BY LenProperties DEF Inv, Built, Batched, GetItem
<1>2. ~Raises(annots[n]) => annots[n] \in Annotations
  BY <1>1, BatchAssumption DEF Inv, Built, Images, Raises, CannotRead
<1>3. Len(positive) = 0
  BY <1>1, EmptySeq
<1>4. CASE Raises(annots[n])
  <2>1. pc' = "raised" /\ UNCHANGED sample
    BY <1>4 DEF GetItem
  <2> QED
    BY <1>1, <1>3, <2>1 DEF Inv, Built, Batched, Targeted, Learned
<1>5. CASE ~Raises(annots[n])
  <2>1. sample' = Append(sample, Rows(annots[n])) /\ UNCHANGED pc
    BY <1>5 DEF GetItem
  <2>2. Rows(annots[n]) \in Seq(RowType) /\ sample \in Seq(Seq(RowType))
    BY <1>2, <1>5, RowsIs DEF Inv, Built
  <2>3. sample' \in Seq(Seq(RowType)) /\ Len(sample') = n
    BY <2>1, <2>2
  <2>4. \A k \in 1 .. n : sample'[k] = IF k = n THEN Rows(annots[n]) ELSE sample[k]
    BY <1>1, <2>1, <2>2
  <2>5. \A k \in 1 .. n : annots[k] \in Annotations /\ ~Raises(annots[k])
                         /\ sample'[k] = Rows(annots[k])
    BY <1>1, <1>2, <1>5, <2>4 DEF Inv, Built
  <2>6. \A k \in 1 .. Len(sample') : annots'[k] \in Annotations /\ ~Raises(annots'[k])
                                    /\ sample'[k] = Rows(annots'[k])
    BY <1>1, <2>3, <2>5
  <2>7. Built'
    <3>1. n <= BatchSize
      BY <1>1, BatchAssumption
    <3> QED
      BY <1>1, <2>3, <2>6, <3>1 DEF Inv, Built
  <2>8. Batched'
    BY <1>1, <2>1 DEF Batched
  <2>9. Targeted'
    BY <1>1, <1>3 DEF Inv, Targeted, Learned
  <2> QED
    BY <2>7, <2>8, <2>9 DEF Inv
<1> QED
  BY <1>4, <1>5

LEMMA CollateInv ==
  ASSUME Inv, Collate
  PROVE  Inv'
<1>1. /\ pc = "fetch" /\ Len(sample) = BatchSize /\ pc' = "loss" /\ positive = <<>>
      /\ batch' = [k \in Images |-> [r \in 1 .. MaxBoxes |->
                     IF r <= Len(sample[k]) THEN sample[k][r] ELSE Padding]]
      /\ UNCHANGED <<annots, sample, positive, assigned, target>>
  BY DEF Inv, Batched, Collate
<1>2. MaxBoxes \in Nat /\ \A k \in Images : Len(sample[k]) <= MaxBoxes
  BY <1>1, MaxBoxesIs DEF Inv
<1>3. Padding \in RowType
  BY DEF Padding, RowType
<1>4. \A k \in Images : Padded(batch'[k], sample[k])
  <2> SUFFICES ASSUME NEW k \in Images
               PROVE  Padded(batch'[k], sample[k])
    OBVIOUS
  <2> DEFINE s == sample[k]
             rows == batch'[k]
  <2>1. s \in Seq(RowType)
    BY <1>1, ElementOfSeq DEF Inv, Built, Images
  <2>2. rows = [r \in 1 .. MaxBoxes |-> IF r <= Len(s) THEN s[r] ELSE Padding]
    BY <1>1
  <2>3. Len(s) <= MaxBoxes
    BY <1>2
  <2> HIDE DEF s, rows
  <2>4. Len(s) \in Nat /\ \A r \in 1 .. Len(s) : s[r] \in RowType
    BY <2>1, LenProperties
  <2>5. rows \in [1 .. MaxBoxes -> RowType]
    BY <1>2, <1>3, <2>2, <2>4
  <2>6. rows \in Seq(RowType)
    BY <1>2, <2>5, SeqDef
  <2>7. Len(rows) = MaxBoxes
    <3>1. DOMAIN rows = 1 .. MaxBoxes /\ DOMAIN rows = 1 .. Len(rows) /\ Len(rows) \in Nat
      BY <2>5, <2>6, LenProperties
    <3> QED
      BY <1>2, <3>1
  <2>8. Padded(rows, s)
    BY <2>2, <2>3, <2>6, <2>7 DEF Padded
  <2> QED
    BY <2>8 DEF rows, s
<1>5. batch' \in [Images -> Seq(RowType)]
  <2>1. \A k \in Images : batch'[k] \in Seq(RowType)
    BY <1>4 DEF Padded
  <2>2. batch' = [k \in Images |-> batch'[k]]
    BY <1>1
  <2> QED
    BY <2>1, <2>2
<1>6. Batched'
  BY <1>1, <1>4, <1>5 DEF Batched
<1>7. Built'
  BY <1>1 DEF Inv, Built
<1>8. Len(positive) = 0
  BY <1>1, EmptySeq
<1>9. Targeted'
  BY <1>1, <1>8 DEF Inv, Targeted, Learned
<1> QED
  BY <1>6, <1>7, <1>9 DEF Inv

(* One more image has its targets.                                         *)
LEMMA OneMore ==
  ASSUME Inv, pc = "loss", Len(positive) + 1 \in Images,
         UNCHANGED <<annots, sample, batch, pc>>,
         NEW pos \in SUBSET Anchors, NEW best \in [Anchors -> Nat] \cup {<<>>},
         NEW tgt \in [Anchors -> Nat \cup {Ignored, AllZero}],
         positive' = Append(positive, pos), assigned' = Append(assigned, best),
         target' = Append(target, tgt),
         LET s == sample[Len(positive) + 1] IN
         IF s = <<>> THEN pos = {} /\ tgt = [a \in Anchors |-> Ignored] ELSE Matched(s, pos, tgt)
  PROVE  Inv'
<1> DEFINE n == Len(positive)
<1>1. /\ positive \in Seq(SUBSET Anchors) /\ assigned \in Seq([Anchors -> Nat] \cup {<<>>})
      /\ target \in Seq([Anchors -> Nat \cup {Ignored, AllZero}])
      /\ Len(assigned) = n /\ Len(target) = n /\ n \in Nat
      /\ \A k \in 1 .. n : Learned(k)
  BY LenProperties DEF Inv, Targeted
<1>2. /\ positive' \in Seq(SUBSET Anchors) /\ Len(positive') = n + 1
      /\ \A k \in 1 .. n : positive'[k] = positive[k]
      /\ positive'[n + 1] = pos
  BY <1>1
<1>3. /\ assigned' \in Seq([Anchors -> Nat] \cup {<<>>}) /\ Len(assigned') = n + 1
  BY <1>1
<1>4. /\ target' \in Seq([Anchors -> Nat \cup {Ignored, AllZero}]) /\ Len(target') = n + 1
      /\ \A k \in 1 .. n : target'[k] = target[k]
      /\ target'[n + 1] = tgt
  BY <1>1
<1>5. n + 1 <= BatchSize
  BY DEF Images
<1>6. \A k \in 1 .. n + 1 :
        IF sample[k] = <<>> THEN positive'[k] = {} /\ target'[k] = [a \in Anchors |-> Ignored]
        ELSE Matched(sample[k], positive'[k], target'[k])
  <2>1. \A k \in 1 .. n + 1 : k = n + 1 \/ k \in 1 .. n
    BY <1>1
  <2> QED
    BY <1>1, <1>2, <1>4, <2>1 DEF Learned
<1>7. Targeted'
  BY <1>2, <1>3, <1>4, <1>5, <1>6 DEF Targeted, Learned
<1>8. Built' /\ Batched'
  BY DEF Inv, Built, Batched
<1> QED
  BY <1>7, <1>8 DEF Inv

LEMMA AssignInv ==
  ASSUME Inv, Assign
  PROVE  Inv'
<1> DEFINE k == Len(positive) + 1
           s == sample[k]
<1>1. pc = "loss" /\ k <= BatchSize /\ Real(k) # <<>> /\ UNCHANGED <<annots, sample, batch, pc>>
  BY DEF Assign
<1>2. k \in Images
  BY <1>1, LenProperties, BatchAssumption DEF Inv, Targeted, Images
<1>3. Real(k) = s
  BY <1>1, <1>2, RealIsSample
<1>4. s \in Seq(RowType) /\ s # <<>>
  BY <1>1, <1>2, <1>3, ElementOfSeq DEF Inv, Built, Batched, Images
<1>5. PICK best \in [Anchors -> DOMAIN s], claim \in [Forced(s) -> Anchors] :
        /\ \A a \in Anchors : best[a] \in BestRows(s, a)
        /\ \A r \in Forced(s) : claim[r] \in BestAnchors(s, r)
        /\ positive' = Append(positive, Claimed(s, claim))
        /\ assigned' = Append(assigned, best)
        /\ target' = Append(target, ClassTargets(s, Claimed(s, claim), best))
  <2>1. \E best \in [Anchors -> DOMAIN Real(k)], claim \in [Forced(Real(k)) -> Anchors] :
          /\ \A a \in Anchors : best[a] \in BestRows(Real(k), a)
          /\ \A r \in Forced(Real(k)) : claim[r] \in BestAnchors(Real(k), r)
          /\ positive' = Append(positive, Claimed(Real(k), claim))
          /\ assigned' = Append(assigned, best)
          /\ target' = Append(target, ClassTargets(Real(k), Claimed(Real(k), claim), best))
    BY DEF Assign, Claimed
  <2> HIDE DEF k, s
  <2> QED
    BY <1>3, <2>1
<1> DEFINE pos == Claimed(s, claim)
           tgt == ClassTargets(s, pos, best)
<1> HIDE DEF k, s
<1>6. pos \in SUBSET Anchors
  BY <1>5 DEF Claimed
<1>7. DOMAIN s = 1 .. Len(s) /\ Len(s) \in Nat /\ \A r \in DOMAIN s : s[r] \in RowType
  BY <1>4, LenProperties
<1>8. best \in [Anchors -> Nat] \cup {<<>>}
  BY <1>5, <1>7
<1>9. tgt \in [Anchors -> Nat \cup {Ignored, AllZero}]
  <2>1. \A r \in DOMAIN s : s[r].cls \in Nat
    <3>1. s = Rows(annots[k]) /\ annots[k] \in Annotations /\ ~Raises(annots[k])
      BY <1>1, <1>2 DEF Inv, Built, Batched, Images, s
    <3>2. \A r \in DOMAIN s : s[r].cls # -1
      BY <1>7, <3>1, RowsIs
    <3> QED
      BY <1>7, <3>2 DEF RowType
  <2> HIDE DEF pos
  <2>2. \A a \in Anchors : tgt[a] \in Nat \cup {Ignored, AllZero}
    BY <1>5, <2>1 DEF ClassTargets
  <2>3. tgt = [a \in Anchors |-> tgt[a]]
    BY DEF ClassTargets
  <2> QED
    BY <2>2, <2>3
<1>10. Matched(s, pos, tgt)
  BY <1>5 DEF Matched
<1> HIDE DEF pos, tgt
<1>11. /\ positive' = Append(positive, pos) /\ target' = Append(target, tgt)
       /\ assigned' = Append(assigned, best)
  BY <1>5 DEF pos, tgt
<1>12. Len(positive) + 1 \in Images /\ sample[Len(positive) + 1] # <<>>
       /\ Matched(sample[Len(positive) + 1], pos, tgt)
  BY <1>2, <1>4, <1>10 DEF k, s
<1> QED
  BY <1>1, <1>6, <1>8, <1>9, <1>11, <1>12, OneMore

LEMMA AssignNothingInv ==
  ASSUME Inv, AssignNothing
  PROVE  Inv'
<1> DEFINE k == Len(positive) + 1
           tgt == [a \in Anchors |-> Ignored]
<1>1. /\ pc = "loss" /\ k <= BatchSize /\ Real(k) = <<>> /\ UNCHANGED <<annots, sample, batch, pc>>
      /\ positive' = Append(positive, {}) /\ assigned' = Append(assigned, <<>>)
      /\ target' = Append(target, tgt)
  BY DEF AssignNothing
<1>2. k \in Images
  BY <1>1, LenProperties, BatchAssumption DEF Inv, Targeted, Images
<1>3. sample[k] = <<>>
  BY <1>1, <1>2, RealIsSample
<1>4. tgt \in [Anchors -> Nat \cup {Ignored, AllZero}]
  OBVIOUS
<1> QED
  BY <1>1, <1>2, <1>3, <1>4, OneMore

LEMMA AlwaysInv ==
  Spec => []Inv
<1>1. Init => Inv
  <2> SUFFICES ASSUME Init
               PROVE  Inv
    OBVIOUS
  <2>1. Len(sample) = 0 /\ Len(positive) = 0 /\ Len(assigned) = 0 /\ Len(target) = 0
    BY EmptySeq DEF Init
  <2> QED
    BY <2>1, BatchAssumption, EmptySeq DEF Init, Inv, Built, Batched, Targeted
<1>2. Inv /\ [Next]_vars => Inv'
  <2> SUFFICES ASSUME Inv, [Next]_vars
               PROVE  Inv'
    OBVIOUS
  <2>1. CASE UNCHANGED vars
    BY <2>1 DEF vars, Inv, Built, Batched, Targeted, Learned
  <2> QED
    BY <2>1, GetItemInv, CollateInv, AssignInv, AssignNothingInv DEF Next
<1> QED
  BY <1>1, <1>2, PTL DEF Spec
-----------------------------------------------------------------------------
(***************************************************************************)
(* What the invariant says.                                                *)
(***************************************************************************)
(* Samples, padded batches and targets have the types of their arrays.     *)
THEOREM TargetTypes ==
  Spec => []TypeOK
<1>1. Inv => TypeOK
  BY DEF Inv, Built, Batched, Targeted, TypeOK
<1> QED
  BY <1>1, AlwaysInv, PTL

(* For a well-shaped annotation the targets are those of its boxes.        *)
LEMMA LearnedFromBoxes ==
  ASSUME Inv, NEW k \in 1 .. Len(positive), WellShaped(k)
  PROVE  LET gt == GtBoxes(annots[k]) IN
         /\ annots[k] \in Annotations
         /\ gt \in Seq(BoxType) /\ DOMAIN gt = DOMAIN sample[k]
         /\ \A r \in DOMAIN gt : sample[k][r].cls = gt[r].cls /\ sample[k][r].iou = gt[r].iou
         /\ IF gt = <<>> THEN positive[k] = {} ELSE Matched(sample[k], positive[k], target[k])
<1> DEFINE gt == GtBoxes(annots[k])
           s == sample[k]
<1>1. k \in 1 .. Len(sample) /\ k \in Images
  <2>1. Len(positive) = 0 \/ Len(sample) = BatchSize
    BY EmptySeq DEF Inv, Batched
  <2> QED
    BY <2>1, BatchAssumption, LenProperties DEF Inv, Targeted, Images
<1>2. annots[k] \in Annotations /\ ~Raises(annots[k]) /\ s = Rows(annots[k])
  BY <1>1 DEF Inv, Built
<1>3. gt \in Seq(BoxType) /\ s \in Seq(RowType) /\ Len(s) = Len(gt)
  BY <1>2, KeptIs, RowsIs
<1>4. DOMAIN gt = 1 .. Len(gt) /\ DOMAIN s = 1 .. Len(s)
  BY <1>3, LenProperties
<1>5. \A r \in DOMAIN gt : s[r] = Row(gt[r].cls, gt[r])
  BY <1>2, RowsOfWellShaped DEF WellShaped
<1>6. gt = <<>> <=> s = <<>>
  BY <1>3, EmptySeq
<1>7. Learned(k)
  BY DEF Inv, Targeted
<1>8. \A r \in DOMAIN gt : s[r].cls = gt[r].cls /\ s[r].iou = gt[r].iou
  <2>1. \A c, b : Row(c, b).cls = c /\ Row(c, b).iou = b.iou
    BY DEF Row
  <2> HIDE DEF gt, s
  <2> QED
    BY <1>5, <2>1
<1>9. IF s = <<>> THEN positive[k] = {} ELSE Matched(s, positive[k], target[k])
  BY <1>7 DEF Learned
<1> HIDE DEF gt, s
<1>10. /\ gt \in Seq(BoxType) /\ DOMAIN gt = DOMAIN s
       /\ \A r \in DOMAIN gt : s[r].cls = gt[r].cls /\ s[r].iou = gt[r].iou
       /\ IF gt = <<>> THEN positive[k] = {} ELSE Matched(s, positive[k], target[k])
  BY <1>3, <1>4, <1>6, <1>8, <1>9
<1> QED
  BY <1>2, <1>10 DEF gt, s

(* The rows of a well-shaped annotation are its boxes, and the targets are *)
(* those of the rows.                                                      *)
LEMMA MatchedBoxes ==
  ASSUME Inv, NEW k \in 1 .. Len(positive), WellShaped(k), NEW b \in Annotated(k)
  PROVE  LET s == sample[k]  gt == GtBoxes(annots[k]) IN
         /\ gt \in Seq(BoxType) /\ DOMAIN gt = DOMAIN s
         /\ \A r \in DOMAIN gt : s[r].cls = gt[r].cls /\ s[r].iou = gt[r].iou
         /\ \A r \in DOMAIN gt : gt[r] \in Annotated(k)
         /\ \E r \in DOMAIN gt : gt[r] = b
         /\ Matched(s, positive[k], target[k])
<1> DEFINE s == sample[k]
           gt == GtBoxes(annots[k])
<1>1. /\ annots[k] \in Annotations
      /\ gt \in Seq(BoxType) /\ DOMAIN gt = DOMAIN s
      /\ \A r \in DOMAIN gt : s[r].cls = gt[r].cls /\ s[r].iou = gt[r].iou
      /\ gt # <<>> => Matched(s, positive[k], target[k])
  BY LearnedFromBoxes
<1>2. /\ \A r \in DOMAIN gt : \E i \in DOMAIN annots[k] : annots[k][i].cls # 0 /\ gt[r] = annots[k][i]
      /\ \A i \in DOMAIN annots[k] : annots[k][i].cls # 0 => \E r \in DOMAIN gt : gt[r] = annots[k][i]
  BY <1>1, KeptIs
<1> HIDE DEF s, gt
<1>3. \A r \in DOMAIN gt : gt[r] \in Annotated(k)
  BY <1>2 DEF Annotated
<1>4. PICK r \in DOMAIN gt : gt[r] = b
  BY <1>2 DEF Annotated
<1>5. gt # <<>>
  BY <1>4
<1> QED
  BY <1>1, <1>3, <1>4, <1>5 DEF s, gt

(* Every box of a well-shaped annotation claims a positive anchor, which   *)
(* learns it or a box that overlaps the anchor no less.                    *)
THEOREM TargetsClaimAnchors ==
  Spec => []EveryBoxClaimsAnchor
<1>1. ASSUME Inv
      PROVE  EveryBoxClaimsAnchor
  <2> SUFFICES ASSUME NEW k \in 1 .. Len(positive), WellShaped(k), NEW b \in Annotated(k)
               PROVE  \E a \in positive[k] :
                        /\ b.iou[a] >= Positive \/ \A other \in Anchors : b.iou[other] <= b.iou[a]
                        /\ \E c \in Annotated(k) : target[k][a] = c.cls /\ b.iou[a] <= c.iou[a]
    BY DEF EveryBoxClaimsAnchor
  <2> DEFINE s == sample[k]
             gt == GtBoxes(annots[k])
  <2>1. /\ gt \in Seq(BoxType) /\ DOMAIN gt = DOMAIN s
        /\ \A r \in DOMAIN gt : s[r].cls = gt[r].cls /\ s[r].iou = gt[r].iou
        /\ \A r \in DOMAIN gt : gt[r] \in Annotated(k)
        /\ \E r \in DOMAIN gt : gt[r] = b
        /\ Matched(s, positive[k], target[k])
    BY <1>1, MatchedBoxes
  <2> HIDE DEF s, gt
  <2>2. PICK r \in DOMAIN gt : gt[r] = b
    BY <2>1
  <2>3. PICK best \in [Anchors -> DOMAIN s], claim \in [Forced(s) -> Anchors] :
          /\ \A a \in Anchors : best[a] \in BestRows(s, a)
          /\ \A q \in Forced(s) : claim[q] \in BestAnchors(s, q)
          /\ positive[k] = Claimed(s, claim)
          /\ target[k] = ClassTargets(s, positive[k], best)
    BY <2>1 DEF Matched
  <2>4. r \in DOMAIN s /\ s[r].iou = b.iou
    BY <2>1, <2>2
  <2>5. \E a \in positive[k] :
          a \in Anchors /\ (b.iou[a] >= Positive \/ \A other \in Anchors : b.iou[other] <= b.iou[a])
    <3>1. CASE r \in Forced(s)
      <4>1. claim[r] \in positive[k] /\ claim[r] \in BestAnchors(s, r)
        BY <2>3, <3>1 DEF Claimed
      <4> QED
        BY <2>4, <4>1 DEF BestAnchors
    <3>2. CASE r \notin Forced(s)
      <4>1. PICK a \in Anchors : ~(s[r].iou[a] < Positive)
        BY <2>4, <3>2 DEF Forced
      <4>2. gt[r] \in BoxType
        BY <2>1, <2>2, LenProperties, ElementOfSeq
      <4>3. s[r].iou[a] \in Nat /\ Positive \in Nat
        BY <2>1, <4>2, LevelsAssumption DEF BoxType
      <4>4. s[r].iou[a] >= Positive
        BY <4>1, <4>3
      <4>5. a \in positive[k]
        BY <2>3, <2>4, <4>4 DEF Claimed, Above
      <4> QED
        BY <2>4, <4>4, <4>5
    <3> QED
      BY <3>1, <3>2
  <2>6. PICK a \in positive[k] :
          a \in Anchors /\ (b.iou[a] >= Positive \/ \A other \in Anchors : b.iou[other] <= b.iou[a])
    BY <2>5
  <2>7. best[a] \in DOMAIN gt /\ s[best[a]].cls = gt[best[a]].cls
    BY <2>1, <2>3, <2>6
  <2>8. target[k][a] = gt[best[a]].cls
    BY <2>3, <2>6, <2>7 DEF ClassTargets
  <2>9. b.iou[a] <= gt[best[a]].iou[a]
    BY <2>1, <2>2, <2>3, <2>6, <2>7 DEF BestRows
  <2> QED
    BY <2>1, <2>6, <2>7, <2>8, <2>9
<1> QED
  BY <1>1, AlwaysInv, PTL

(* The targets of an image come from its own boxes: neither the padding    *)
(* nor another image of the batch leaves a trace in them.                  *)
THEOREM TargetsComeFromOwnBoxes ==
  Spec => []TargetsFromOwnBoxes
<1>1. ASSUME Inv
      PROVE  TargetsFromOwnBoxes
  <2> SUFFICES ASSUME NEW k \in 1 .. Len(positive), WellShaped(k), GtBoxes(annots[k]) # <<>>,
                      NEW a \in Anchors
               PROVE  LET boxes == Annotated(k)
                      IN  /\ a \in positive[k] =>
                               \E b \in boxes : /\ target[k][a] = b.cls
                                                /\ \A c \in boxes : c.iou[a] <= b.iou[a]
                          /\ target[k][a] = Ignored =>
                               /\ \E b \in boxes : b.iou[a] >= Negligible
                               /\ \A b \in boxes : b.iou[a] < Positive
                          /\ target[k][a] = AllZero => \A b \in boxes : b.iou[a] < Negligible
    BY DEF TargetsFromOwnBoxes
  <2> DEFINE s == sample[k]
             gt == GtBoxes(annots[k])
             boxes == Annotated(k)
  <2>1. gt \in Seq(BoxType) /\ annots[k] \in Annotations
    BY <1>1, LearnedFromBoxes
  <2>2. \A r \in DOMAIN gt : gt[r] \in boxes
    BY <2>1, KeptIs DEF Annotated
  <2>3. \A b \in boxes : \E r \in DOMAIN gt : gt[r] = b
    BY <2>1, KeptIs DEF Annotated
  <2>4. /\ gt \in Seq(BoxType) /\ DOMAIN gt = DOMAIN s
        /\ \A r \in DOMAIN gt : s[r].cls = gt[r].cls /\ s[r].iou = gt[r].iou
        /\ Matched(s, positive[k], target[k])
    BY <1>1, LearnedFromBoxes
  <2> HIDE DEF s, gt, boxes
  <2>5. \A r \in DOMAIN gt : gt[r].cls \in Nat /\ gt[r].iou \in [Anchors -> Nat]
    <3>1. \A r \in DOMAIN gt : gt[r] \in BoxType
      BY <2>4, LenProperties
    <3> QED
      BY <3>1 DEF BoxType
  <2>6. PICK best \in [Anchors -> DOMAIN s], claim \in [Forced(s) -> Anchors] :
          /\ \A c \in Anchors : best[c] \in BestRows(s, c)
          /\ positive[k] = Claimed(s, claim)
          /\ target[k] = ClassTargets(s, positive[k], best)
    BY <2>4 DEF Matched
  <2>7. best[a] \in DOMAIN gt /\ \A q \in DOMAIN gt : gt[q].iou[a] <= gt[best[a]].iou[a]
    BY <2>4, <2>6 DEF BestRows
  <2>8. target[k][a] = IF a \in positive[k] THEN gt[best[a]].cls
                       ELSE IF ~Above(s, a, Negligible) THEN AllZero ELSE Ignored
    BY <2>4, <2>6, <2>7 DEF ClassTargets
  <2>9. a \in positive[k] => /\ gt[best[a]] \in boxes /\ target[k][a] = gt[best[a]].cls
                             /\ \A c \in boxes : c.iou[a] <= gt[best[a]].iou[a]
    BY <2>2, <2>3, <2>7, <2>8
  <2>10. \A level \in Nat : Above(s, a, level) <=> \E b \in boxes : b.iou[a] >= level
    <3>1. \A level : Above(s, a, level) => \E b \in boxes : b.iou[a] >= level
      <4> SUFFICES ASSUME NEW level, Above(s, a, level)
                   PROVE  \E b \in boxes : b.iou[a] >= level
        OBVIOUS
      <4>1. PICK r \in DOMAIN s : s[r].iou[a] >= level
        BY DEF Above
      <4>2. gt[r] \in boxes /\ gt[r].iou[a] >= level
        BY <2>2, <2>4, <4>1
      <4> QED
        BY <4>2
    <3>2. \A level : (\E b \in boxes : b.iou[a] >= level) => Above(s, a, level)
      <4> SUFFICES ASSUME NEW level, NEW b \in boxes, b.iou[a] >= level
                   PROVE  Above(s, a, level)
        OBVIOUS
      <4>1. PICK r \in DOMAIN gt : gt[r] = b
        BY <2>3
      <4>2. r \in DOMAIN s /\ s[r].iou[a] >= level
        BY <2>4, <4>1
      <4> QED
        BY <4>2 DEF Above
    <3> QED
      BY <3>1, <3>2
  <2>11. \A b \in boxes : b.iou[a] \in Nat
    BY <2>3, <2>5
  <2>12. Negligible \in Nat /\ Positive \in Nat
    BY LevelsAssumption
  <2>13. a \notin positive[k] => ~Above(s, a, Positive)
    BY <2>6 DEF Claimed
  <2>14. a \in positive[k] => target[k][a] \in Nat
    BY <2>5, <2>7, <2>8
  <2>15. target[k][a] = Ignored => /\ \E b \in boxes : b.iou[a] >= Negligible
                                   /\ \A b \in boxes : b.iou[a] < Positive
    <3> SUFFICES ASSUME target[k][a] = Ignored
                 PROVE  /\ \E b \in boxes : b.iou[a] >= Negligible
                        /\ \A b \in boxes : b.iou[a] < Positive
      OBVIOUS
    <3>1. a \notin positive[k]
      BY <2>14 DEF Ignored
    <3>2. Above(s, a, Negligible) /\ ~Above(s, a, Positive)
      BY <2>8, <2>13, <3>1 DEF Ignored, AllZero
    <3> QED
      BY <2>10, <2>11, <2>12, <3>2
  <2>16. target[k][a] = AllZero => \A b \in boxes : b.iou[a] < Negligible
    <3> SUFFICES ASSUME target[k][a] = AllZero
                 PROVE  \A b \in boxes : b.iou[a] < Negligible
      OBVIOUS
    <3>1. a \notin positive[k]
      BY <2>14 DEF AllZero
    <3>2. ~Above(s, a, Negligible)
      BY <2>8, <3>1 DEF Ignored, AllZero
    <3> QED
      BY <2>10, <2>11, <2>12, <3>2
  <2> QED
    BY <2>9, <2>15, <2>16 DEF boxes
<1> QED
  BY <1>1, AlwaysInv, PTL
=============================================================================
