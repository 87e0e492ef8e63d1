-------------------------- MODULE EvaluationProofs --------------------------
(***************************************************************************)
(* What holds of Evaluation whatever the images, the annotations and the   *)
(* detections are, and however often an evaluation was killed before.      *)
(***************************************************************************)
EXTENDS Evaluation, FiniteSetTheorems, SequenceTheorems, WellFoundedInduction, TLAPS

(***************************************************************************)
(* Least elements and ranks.                                               *)
(***************************************************************************)
(* A set of natural numbers has a least element.                           *)
LEMMA HasLeast ==
  ASSUME NEW S \in SUBSET Nat, S # {}
  PROVE  \E n \in S : \A m \in S : n <= m
<1> DEFINE R == OpToRel(<, Nat)
<1>1. IsWellFoundedOn(R, Nat)
  BY NatLessThanWellFounded
<1>2. \A a, b \in Nat : <<a, b>> \in R <=> a < b
  BY DEF OpToRel
<1> HIDE DEF R
<1>3. PICK n \in S : \A m \in S : <<m, n>> \notin R
  BY <1>1, WFMin
<1>4. \A m \in S : ~(m < n) /\ m \in Nat /\ n \in Nat
  BY <1>2, <1>3
<1> QED
  BY <1>4

LEMMA SmallestIs ==
  ASSUME NEW S \in SUBSET Nat, S # {}
  PROVE  SmallestOf(S) \in S /\ \A m \in S : SmallestOf(S) <= m
  BY HasLeast DEF SmallestOf

(* In a strict order of a finite set, L[x] the elements before x, each     *)
(* element has a rank of its own, and every rank is taken.                 *)
LEMMA RankOf ==
  ASSUME NEW S, IsFiniteSet(S), NEW L \in [S -> SUBSET S],
         \A x \in S : x \notin L[x],
         \A x, y \in S : x \in L[y] => L[x] \subseteq L[y],
         \A x, y \in S : x # y => x \in L[y] \/ y \in L[x]
  PROVE  /\ Cardinality(S) \in Nat
         /\ \A x \in S : Cardinality(L[x]) + 1 \in 1 .. Cardinality(S)
         /\ \A x, y \in S : x \in L[y] => Cardinality(L[x]) < Cardinality(L[y])
         /\ \A n \in 1 .. Cardinality(S) : \E x \in S : Cardinality(L[x]) = n - 1
<1> DEFINE N == Cardinality(S)
           rank == [x \in S |-> Cardinality(L[x]) + 1]
<1>1. N \in Nat /\ IsFiniteSet(1 .. N) /\ Cardinality(1 .. N) = N
  <2>1. N \in Nat
    BY FS_CardinalityType
  <2> QED
    BY <2>1, FS_Interval
<1>2. \A x \in S : IsFiniteSet(L[x]) /\ Cardinality(L[x]) \in Nat
  BY FS_Subset, FS_CardinalityType
<1>3. \A x \in S : Cardinality(L[x]) < N
  <2> SUFFICES ASSUME NEW x \in S
               PROVE  Cardinality(L[x]) < N
    OBVIOUS
  <2>1. L[x] \subseteq S /\ x \notin L[x]
    OBVIOUS
  <2>2. Cardinality(L[x]) <= N /\ Cardinality(L[x]) # N
    BY <2>1, FS_Subset
  <2> QED
    BY <1>1, <1>2, <2>2
<1>4. \A x, y \in S : x \in L[y] => Cardinality(L[x]) < Cardinality(L[y])
  <2> SUFFICES ASSUME NEW x \in S, NEW y \in S, x \in L[y]
               PROVE  Cardinality(L[x]) < Cardinality(L[y])
    OBVIOUS
  <2>1. L[x] \subseteq L[y] /\ x \notin L[x]
    OBVIOUS
  <2>2. Cardinality(L[x]) <= Cardinality(L[y]) /\ Cardinality(L[x]) # Cardinality(L[y])
    BY <1>2, <2>1, FS_Subset
  <2> QED
    BY <1>2, <2>2
<1>5. \A x, y \in S : rank[x] = rank[y] => x = y
  <2> SUFFICES ASSUME NEW x \in S, NEW y \in S, rank[x] = rank[y], x # y
               PROVE  FALSE
    OBVIOUS
  <2>1. x \in L[y] \/ y \in L[x]
    OBVIOUS
  <2> QED
    BY <1>2, <1>4, <2>1
<1>6. rank \in [S -> 1 .. N]
  BY <1>1, <1>2, <1>3
<1>7. rank \in Injection(S, 1 .. N)
  BY <1>5, <1>6 DEF Injection, IsInjective
<1>8. rank \in Surjection(S, 1 .. N)
  BY <1>1, <1>7, FS_Injection
<1>9. \A n \in 1 .. N : \E x \in S : rank[x] = n
  BY <1>8 DEF Surjection
<1>10. \A n \in 1 .. N : \E x \in S : Cardinality(L[x]) = n - 1
  <2> SUFFICES ASSUME NEW n \in 1 .. N
               PROVE  \E x \in S : Cardinality(L[x]) = n - 1
    OBVIOUS
  <2>1. PICK x \in S : rank[x] = n
    BY <1>9
  <2>2. Cardinality(L[x]) + 1 = n /\ n \in Nat
    BY <1>1, <2>1
  <2> QED
    BY <1>2, <2>2
<1>11. \A x \in S : Cardinality(L[x]) + 1 \in 1 .. N
  BY <1>1, <1>2, <1>3
<1> QED
  BY <1>1, <1>4, <1>10, <1>11

(* A finite set that is not empty has a first element.                     *)
LEMMA HasFirst ==
  ASSUME NEW S, IsFiniteSet(S), S # {}, NEW L \in [S -> SUBSET S],
         \A x \in S : x \notin L[x],
         \A x, y \in S : x \in L[y] => L[x] \subseteq L[y],
         \A x, y \in S : x # y => x \in L[y] \/ y \in L[x]
  PROVE  \E x \in S : L[x] = {}
<1>1. Cardinality(S) \in Nat /\ Cardinality(S) # 0
  BY FS_CardinalityType, FS_EmptySet
<1>2. \A n \in 1 .. Cardinality(S) : \E x \in S : Cardinality(L[x]) = n - 1
  BY RankOf
<1>3. PICK x \in S : Cardinality(L[x]) = 1 - 1
  BY <1>1, <1>2
<1>4. IsFiniteSet(L[x])
  BY FS_Subset
<1>5. L[x] = {}
  BY <1>3, <1>4, FS_EmptySet
<1> QED
  BY <1>5

(* A finite set of integers has a greatest element.                        *)
LEMMA LargestIs ==
  ASSUME NEW S \in SUBSET Int, S # {}, IsFiniteSet(S)
  PROVE  LargestOf(S) \in S /\ \A m \in S : LargestOf(S) >= m
<1> DEFINE L == [x \in S |-> {y \in S : y > x}]
<1>1. L \in [S -> SUBSET S] /\ \A x, y \in S : y \in L[x] <=> y > x
  OBVIOUS
<1> HIDE DEF L
<1>a. \A x \in S : x \in Int
  OBVIOUS
<1>b. \A x \in S : x \notin L[x]
  BY <1>1, <1>a
<1>c. \A x, y \in S : x \in L[y] => L[x] \subseteq L[y]
  <2> SUFFICES ASSUME NEW x \in S, NEW y \in S, x \in L[y], NEW z \in L[x]
               PROVE  z \in L[y]
    OBVIOUS
  <2>1. z \in S /\ z > x /\ x > y
    BY <1>1
  <2>2. z > y
    BY <1>a, <2>1
  <2> QED
    BY <1>1, <2>1, <2>2
<1>d. \A x, y \in S : x # y => x \in L[y] \/ y \in L[x]
  BY <1>1, <1>a
<1>e. L \in [S -> SUBSET S]
  BY <1>1
<1>3. PICK x \in S : L[x] = {}
  BY <1>b, <1>c, <1>d, <1>e, HasFirst
<1>4. \A m \in S : ~(m > x) /\ m \in Int /\ x \in Int
  BY <1>1, <1>3
<1>5. \A m \in S : x >= m
  BY <1>4
<1> QED
  BY <1>5 DEF LargestOf

LEMMA GeAntisymmetric == \A x, y \in Int : x >= y /\ y >= x => x = y
  OBVIOUS

(* The first of those with the greatest value.                             *)
LEMMA HasBest ==
  ASSUME NEW n \in Nat, NEW met \in SUBSET (1 .. n), met # {}, NEW v \in [met -> Nat]
  PROVE  \E o \in met : \A p \in met : v[o] > v[p] \/ (v[o] = v[p] /\ o <= p)
<1> DEFINE L == [x \in met |-> {y \in met : v[y] > v[x] \/ (v[y] = v[x] /\ y < x)}]
<1>1. IsFiniteSet(met)
  <2>1. IsFiniteSet(1 .. n)
    BY FS_Interval
  <2> QED
    BY <2>1, FS_Subset
<1>2. /\ L \in [met -> SUBSET met]
      /\ \A x, y \in met : y \in L[x] <=> v[y] > v[x] \/ (v[y] = v[x] /\ y < x)
  OBVIOUS
<1>3. \A x \in met : v[x] \in Nat /\ x \in Nat
  OBVIOUS
<1> HIDE DEF L
<1>4. /\ \A x \in met : x \notin L[x]
      /\ \A x, y \in met : x # y => x \in L[y] \/ y \in L[x]
  BY <1>2, <1>3
<1>5. \A x, y \in met : x \in L[y] => L[x] \subseteq L[y]
  <2> SUFFICES ASSUME NEW x \in met, NEW y \in met, x \in L[y], NEW z \in L[x]
               PROVE  z \in L[y]
    OBVIOUS
  <2>1. z \in met
    BY <1>2
  <2>2. (v[x] > v[y] \/ (v[x] = v[y] /\ x < y)) /\ (v[z] > v[x] \/ (v[z] = v[x] /\ z < x))
    BY <1>2, <2>1
  <2>3. v[z] > v[y] \/ (v[z] = v[y] /\ z < y)
    BY <1>3, <2>1, <2>2
  <2> QED
    BY <1>2, <2>1, <2>3
<1>6. PICK x \in met : L[x] = {}
  <2>1. L \in [met -> SUBSET met]
    BY <1>2
  <2>2. \A x, y \in met : x # y => x \in L[y] \/ y \in L[x]
    BY <1>4
  <2>3. \A x \in met : x \notin L[x]
    BY <1>4
  <2> QED
    BY <1>1, <2>1, <2>2, <2>3, <1>5, HasFirst, ZenonT(60)
<1>7. \A y \in met : ~(v[y] > v[x] \/ (v[y] = v[x] /\ y < x))
  BY <1>2, <1>6
<1>8. \A y \in met : v[x] > v[y] \/ (v[x] = v[y] /\ x <= y)
  BY <1>3, <1>7
<1> QED
  BY <1>8

(* The object BestObject chooses is one of those a detection meets.        *)
Met(e) == {o \in 1 .. Len(gt[e.image]) : gt[e.image][o].cls = e.det.cls /\ e.det.ov[o] > 0}

LEMMA BestObjectIs ==
  ASSUME NEW e, Len(gt[e.image]) \in Nat, \A o \in 1 .. Len(gt[e.image]) : e.det.ov[o] \in Nat
  PROVE  BestObject(e) # 0 => BestObject(e) \in Met(e)
<1>1. BestObject(e) = IF Met(e) = {} THEN 0
        ELSE CHOOSE o \in Met(e) : \A p \in Met(e) :
               e.det.ov[o] > e.det.ov[p] \/ (e.det.ov[o] = e.det.ov[p] /\ o <= p)
  BY DEF BestObject, Met
<1>2. SUFFICES ASSUME Met(e) # {}
               PROVE  \E o \in Met(e) : \A p \in Met(e) :
                        e.det.ov[o] > e.det.ov[p] \/ (e.det.ov[o] = e.det.ov[p] /\ o <= p)
  BY <1>1
<1> DEFINE v == [o \in Met(e) |-> e.det.ov[o]]
<1>3. Met(e) \in SUBSET (1 .. Len(gt[e.image])) /\ v \in [Met(e) -> Nat]
  BY DEF Met
<1>4. \A o \in Met(e) : v[o] = e.det.ov[o]
  OBVIOUS
<1> HIDE DEF v
<1>5. \E o \in Met(e) : \A p \in Met(e) : v[o] > v[p] \/ (v[o] = v[p] /\ o <= p)
  BY <1>2, <1>3, HasBest
<1> QED
  BY <1>4, <1>5
-----------------------------------------------------------------------------
(***************************************************************************)
(* What im_detect returned, and what ground-truth/ holds.                  *)
(***************************************************************************)
Det == [cls: Classes \cup {Unparsable}, conf: Nat, ov: Seq(Nat)]
Object == [cls: Classes \cup {Unparsable}, difficult: BOOLEAN]

(* Finitely many lists of pairs.                                           *)
LEMMA PiecesFinite ==
  ASSUME NEW S, IsFiniteSet(S), NEW n \in [S -> Nat]
  PROVE  IsFiniteSet(UNION {{k} \X (1 .. n[k]) : k \in S})
<1> DEFINE piece == [k \in S |-> {k} \X (1 .. n[k])]
           T == {piece[k] : k \in S}
<1>1. IsFiniteSet(T)
  <2>1. piece \in Surjection(S, T)
    BY DEF Surjection
  <2> QED
    BY <2>1, FS_Surjection
<1>2. \A P \in T : IsFiniteSet(P)
  <2> SUFFICES ASSUME NEW k \in S
               PROVE  IsFiniteSet({k} \X (1 .. n[k]))
    OBVIOUS
  <2>1. n[k] \in Nat
    OBVIOUS
  <2>2. IsFiniteSet(1 .. n[k])
    BY <2>1, FS_Interval
  <2>3. IsFiniteSet({k})
    BY FS_Singleton
  <2> QED
    BY <2>2, <2>3, FS_Product
<1>3. UNION T = UNION {{k} \X (1 .. n[k]) : k \in S}
  OBVIOUS
<1> QED
  BY <1>1, <1>2, <1>3, FS_UNION

LEMMA DetectionTyped ==
  ASSUME NEW ds \in Detections
  PROVE  /\ ds # NoFile /\ Len(ds) \in Nat
         /\ \A j \in 1 .. Len(ds) : ds[j] \in Det
<1>1. ds # NoFile /\ ds \in Seq(Det)
  BY DetectionsAssumption DEF Det
<1> QED
  BY <1>1, LenProperties

LEMMA ObjectClass == \A x \in Object : x.cls \in Int
<1>1. Classes \cup {Unparsable} \subseteq Int
  BY ImagesAssumption DEF Unparsable
<1>2. \A x \in Object : x.cls \in Classes \cup {Unparsable}
  BY DEF Object
<1> QED
  BY <1>1, <1>2

LEMMA GroundTruthTyped ==
  ASSUME gt \in GroundTruths
  PROVE  /\ DOMAIN gt \subseteq Images
         /\ \A k \in DOMAIN gt : /\ Len(gt[k]) \in Nat
                                 /\ \A o \in 1 .. Len(gt[k]) : gt[k][o] \in Object
<1>1. DOMAIN gt \subseteq Images /\ \A k \in DOMAIN gt : gt[k] \in Seq(Object)
  BY GroundTruthsAssumption DEF Object
<1> QED
  BY <1>1, LenProperties

(* The overlaps of a detection are with the objects of its image.          *)
LEMMA OverlapsTyped ==
  ASSUME gt \in GroundTruths, NEW k \in DOMAIN gt,
         NEW ds \in Detections, NEW j \in 1 .. Len(ds)
  PROVE  \A o \in 1 .. Len(gt[k]) : ds[j].ov[o] \in Nat
<1>1. ds[j] \in Det
  BY DetectionTyped
<1>2. Len(gt[k]) <= Len(ds[j].ov) /\ Len(gt[k]) \in Nat
  BY DetectionsAssumption, GroundTruthTyped
<1>3. ds[j].ov \in Seq(Nat)
  BY <1>1 DEF Det
<1>4. Len(ds[j].ov) \in Nat /\ ds[j].ov \in [1 .. Len(ds[j].ov) -> Nat]
  BY <1>3, LenProperties
<1> QED
  BY <1>2, <1>4

FoundOK == found \in [Images -> Detections \cup {NoFile}]

LEMMA FoundTyped ==
  ASSUME FoundOK, NEW c
  PROVE  \A p \in Found(c) :
           /\ p = <<p[1], p[2]>> /\ p[1] \in Images /\ p[1] \in Nat /\ p[2] \in Nat
           /\ found[p[1]] \in Detections /\ p[2] \in 1 .. Len(found[p[1]])
           /\ DetOf(p) = found[p[1]][p[2]]
           /\ DetOf(p) \in Det /\ DetOf(p).cls = c /\ DetOf(p).conf \in Nat
<1> SUFFICES ASSUME NEW k \in Images, found[k] # NoFile, NEW j \in 1 .. Len(found[k]),
                    found[k][j].cls = c
             PROVE  LET p == <<k, j>> IN
                    /\ p = <<p[1], p[2]>> /\ p[1] \in Images /\ p[1] \in Nat /\ p[2] \in Nat
                    /\ found[p[1]] \in Detections /\ p[2] \in 1 .. Len(found[p[1]])
                    /\ DetOf(p) = found[p[1]][p[2]]
                    /\ DetOf(p) \in Det /\ DetOf(p).cls = c /\ DetOf(p).conf \in Nat
  BY DEF Found
<1>1. found[k] \in Detections
  BY DEF FoundOK
<1>2. Len(found[k]) \in Nat /\ found[k][j] \in Det
  BY <1>1, DetectionTyped
<1>3. k \in Nat /\ j \in Nat
  BY <1>2, ImagesAssumption
<1>4. found[k][j].conf \in Nat
  BY <1>2 DEF Det
<1> QED
  BY <1>1, <1>2, <1>3, <1>4 DEF DetOf

LEMMA FoundFinite ==
  ASSUME FoundOK, NEW c
  PROVE  IsFiniteSet(Found(c))
<1> DEFINE n == [k \in Images |-> IF found[k] = NoFile THEN 0 ELSE Len(found[k])]
<1>1. n \in [Images -> Nat]
  BY DetectionTyped DEF FoundOK
<1>2. \A k \in Images : found[k] # NoFile => n[k] = Len(found[k])
  OBVIOUS
<1> HIDE DEF n
<1>3. IsFiniteSet(UNION {{k} \X (1 .. n[k]) : k \in Images})
  BY <1>1, ImagesAssumption, PiecesFinite
<1>4. Found(c) \subseteq UNION {{k} \X (1 .. n[k]) : k \in Images}
  BY <1>2 DEF Found
<1> QED
  BY <1>3, <1>4, FS_Subset

(* The ranking of the detections of a class.                               *)
LEMMA Ranking ==
  ASSUME FoundOK, NEW c
  PROVE  /\ Cardinality(Found(c)) \in Nat
         /\ \A n \in 1 .. Cardinality(Found(c)) : Nth(c, n) \in Found(c)
         /\ \A p \in Found(c) : \E n \in 1 .. Cardinality(Found(c)) : p = Nth(c, n)
         /\ \A m, n \in 1 .. Cardinality(Found(c)) :
              Outranks(Nth(c, m), Nth(c, n)) <=> m < n
<1> DEFINE F == Found(c)
           L == [p \in F |-> {q \in F : Outranks(q, p)}]
           N == Cardinality(F)
<1>1. IsFiniteSet(F)
  BY FoundFinite
<1>2. \A p \in F : /\ p = <<p[1], p[2]>> /\ p[1] \in Nat /\ p[2] \in Nat /\ DetOf(p).conf \in Nat
  BY FoundTyped
<1>3. L \in [F -> SUBSET F] /\ \A p, q \in F : q \in L[p] <=> Outranks(q, p)
  OBVIOUS
<1>4. \A n : Nth(c, n) = CHOOSE p \in F : Cardinality({q \in F : Outranks(q, p)}) = n - 1
  BY DEF Nth
<1>5. \A p \in F : L[p] = {q \in F : Outranks(q, p)}
  OBVIOUS
<1> HIDE DEF L, F
<1>6. \A p \in F : ~Outranks(p, p)
  BY <1>2 DEF Outranks
<1>7. \A p, q, r \in F : Outranks(p, q) /\ Outranks(q, r) => Outranks(p, r)
  BY <1>2 DEF Outranks
<1>8. \A p, q \in F : p # q => Outranks(p, q) \/ Outranks(q, p)
  BY <1>2 DEF Outranks
<1>9. /\ \A p \in F : p \notin L[p]
      /\ \A p, q \in F : p \in L[q] => L[p] \subseteq L[q]
      /\ \A p, q \in F : p # q => p \in L[q] \/ q \in L[p]
  BY <1>3, <1>6, <1>7, <1>8
<1>10. /\ N \in Nat
       /\ \A p \in F : Cardinality(L[p]) + 1 \in 1 .. N
       /\ \A p, q \in F : p \in L[q] => Cardinality(L[p]) < Cardinality(L[q])
       /\ \A n \in 1 .. N : \E p \in F : Cardinality(L[p]) = n - 1
  BY <1>1, <1>3, <1>9, RankOf
<1>11. \A p \in F : IsFiniteSet(L[p]) /\ Cardinality(L[p]) \in Nat
  BY <1>1, <1>3, FS_Subset, FS_CardinalityType
<1>12. \A n \in 1 .. N : Nth(c, n) \in F /\ Cardinality(L[Nth(c, n)]) = n - 1
  BY <1>4, <1>5, <1>10
<1>13. \A p \in F : p = Nth(c, Cardinality(L[p]) + 1)
  <2> SUFFICES ASSUME NEW p \in F
               PROVE  p = Nth(c, Cardinality(L[p]) + 1)
    OBVIOUS
  <2> DEFINE q == Nth(c, Cardinality(L[p]) + 1)
  <2>1. q \in F /\ Cardinality(L[q]) = Cardinality(L[p])
    BY <1>10, <1>11, <1>12
  <2> HIDE DEF q
  <2>2. CASE p # q
    <3>1. p \in L[q] \/ q \in L[p]
      BY <1>9, <2>1, <2>2
    <3> QED
      BY <1>10, <1>11, <2>1, <3>1
  <2> QED
    BY <2>2 DEF q
<1>14. \A p \in F : \E n \in 1 .. N : p = Nth(c, n)
  BY <1>10, <1>13
<1>15. \A m, n \in 1 .. N : Outranks(Nth(c, m), Nth(c, n)) <=> m < n
  <2> SUFFICES ASSUME NEW m \in 1 .. N, NEW n \in 1 .. N
               PROVE  Outranks(Nth(c, m), Nth(c, n)) <=> m < n
    OBVIOUS
  <2> DEFINE p == Nth(c, m)
             q == Nth(c, n)
  <2>1. /\ p \in F /\ q \in F /\ m \in Nat /\ n \in Nat
        /\ Cardinality(L[p]) = m - 1 /\ Cardinality(L[q]) = n - 1
    BY <1>10, <1>12
  <2> HIDE DEF p, q
  <2>2. Outranks(p, q) => m < n
    BY <1>3, <1>10, <2>1
  <2>3. Outranks(q, p) => n < m
    BY <1>3, <1>10, <2>1
  <2>4. ASSUME m < n
        PROVE  Outranks(p, q)
    <3>1. p # q
      BY <2>1, <2>4
    <3>2. ~Outranks(q, p)
      BY <2>1, <2>3, <2>4
    <3> QED
      BY <1>8, <2>1, <3>1, <3>2
  <2>5. Outranks(p, q) <=> m < n
    BY <2>2, <2>4
  <2> QED
    BY <2>5 DEF p, q
<1> QED
  BY <1>10, <1>12, <1>14, <1>15 DEF F
-----------------------------------------------------------------------------
(***************************************************************************)
(* Cumulative counts and the envelope.                                     *)
(***************************************************************************)
(* Induction up to a bound, with the set of the numbers for which the      *)
(* statement holds.                                                        *)
LEMMA UpTo ==
  ASSUME NEW N \in Nat, NEW G, 0 \in G, \A n \in 0 .. (N - 1) : n \in G => n + 1 \in G
  PROVE  \A n \in 0 .. N : n \in G
<1> DEFINE Bad == {n \in 0 .. N : n \notin G}
<1>1. SUFFICES ASSUME Bad # {}
               PROVE  FALSE
  OBVIOUS
<1>2. PICK b \in Bad : \A m \in Bad : b <= m
  <2>1. Bad \in SUBSET Nat
    OBVIOUS
  <2> HIDE DEF Bad
  <2> QED
    BY <1>1, <2>1, HasLeast
<1>3. b \in 0 .. N /\ b # 0 /\ b \notin G
  BY <1>2
<1>4. b - 1 \in 0 .. (N - 1) /\ b - 1 \in 0 .. N /\ ~(b <= b - 1) /\ (b - 1) + 1 = b
  BY <1>3
<1>5. b - 1 \in G
  BY <1>2, <1>4
<1> QED
  BY <1>3, <1>4, <1>5

LEMMA SameUpper ==
  ASSUME NEW m \in Nat, NEW n \in Nat, 1 .. m = 1 .. n
  PROVE  m = n
<1>1. m = 0 \/ m \in 1 .. n
  OBVIOUS
<1>2. n = 0 \/ n \in 1 .. m
  OBVIOUS
<1> QED
  BY <1>1, <1>2

LEMMA CumulativeIs ==
  ASSUME NEW s, Len(s) \in Nat
  PROVE  /\ Cumulative(s)[0] = 0
         /\ \A n \in 1 .. Len(s) : Cumulative(s)[n] = Cumulative(s)[n - 1] + s[n]
<1> DEFINE N == Len(s)
           Sum(f, n) == f = [m \in 0 .. n |-> IF m = 0 THEN 0 ELSE f[m - 1] + s[m]]
           G == {n \in 0 .. N : \E f : Sum(f, n)}
<1>1. 0 \in G
  <2> DEFINE f == [m \in 0 .. 0 |-> 0]
  <2>1. Sum(f, 0)
    OBVIOUS
  <2> HIDE DEF f
  <2>2. \E g : Sum(g, 0)
    BY <2>1
  <2> QED
    BY <2>2
<1>2. ASSUME NEW n \in 0 .. (N - 1), n \in G
      PROVE  n + 1 \in G
  <2>1. PICK f : Sum(f, n)
    BY <1>2
  <2>2. n \in Nat /\ n + 1 \in 0 .. N
    OBVIOUS
  <2> DEFINE g == [m \in 0 .. (n + 1) |-> IF m = n + 1 THEN f[n] + s[n + 1] ELSE f[m]]
  <2>3. \A m \in 0 .. (n + 1) : g[m] = IF m = 0 THEN 0 ELSE g[m - 1] + s[m]
    <3> SUFFICES ASSUME NEW m \in 0 .. (n + 1)
                 PROVE  g[m] = IF m = 0 THEN 0 ELSE g[m - 1] + s[m]
      OBVIOUS
    <3>1. CASE m = n + 1
      <4>1. m # 0 /\ m - 1 = n /\ m - 1 \in 0 .. (n + 1) /\ m - 1 # n + 1
        BY <2>2, <3>1
      <4> QED
        BY <3>1, <4>1
    <3>2. CASE m # n + 1
      <4>1. m \in 0 .. n
        BY <2>2, <3>2
      <4>2. f[m] = IF m = 0 THEN 0 ELSE f[m - 1] + s[m]
        BY <2>1, <4>1
      <4>3. m # 0 => m - 1 \in 0 .. (n + 1) /\ m - 1 # n + 1
        BY <2>2, <4>1
      <4> QED
        BY <3>2, <4>2, <4>3
    <3> QED
      BY <3>1, <3>2
  <2>4. Sum(g, n + 1)
    BY <2>3
  <2> QED
    BY <2>2, <2>4
<1>3. N \in Nat
  OBVIOUS
<1>4. N \in G
  <2> HIDE DEF G
  <2>1. \A n \in 0 .. N : n \in G
    BY <1>1, <1>2, <1>3, UpTo
  <2> QED
    BY <1>3, <2>1
<1>5. \E f : Sum(f, N)
  BY <1>4
<1>6. Cumulative(s) = CHOOSE f : Sum(f, N)
  BY DEF Cumulative
<1>7. Sum(Cumulative(s), N)
  BY <1>5, <1>6
<1> QED
  BY <1>3, <1>7

LEMMA EnvelopeIs ==
  ASSUME NEW s, NEW T \in Nat, T # 0, T = Len(s)
  PROVE  /\ Envelope(s)[T] = s[T]
         /\ \A n \in 1 .. (T - 1) :
              Envelope(s)[n] = IF s[n] > Envelope(s)[n + 1] THEN s[n] ELSE Envelope(s)[n + 1]
<1> DEFINE Value(f, m) == IF m = T THEN s[m] ELSE IF s[m] > f[m + 1] THEN s[m] ELSE f[m + 1]
           Env(f, n) == f = [m \in (T - n) .. T |-> Value(f, m)]
           G == {n \in 0 .. (T - 1) : \E f : Env(f, n)}
<1>1. T \in Nat /\ T - 1 \in Nat /\ T - 0 = T
  OBVIOUS
<1>2. 0 \in G
  <2> DEFINE f == [m \in T .. T |-> s[m]]
  <2>1. \A m \in T .. T : m = T
    OBVIOUS
  <2>2. f = [m \in T .. T |-> Value(f, m)]
    BY <2>1
  <2>3. Env(f, 0)
    BY <1>1, <2>2
  <2> HIDE DEF f
  <2>4. \E g : Env(g, 0)
    BY <2>3
  <2>5. 0 \in 0 .. (T - 1)
    BY <1>1
  <2> QED
    BY <2>4, <2>5
<1>3. ASSUME NEW n \in 0 .. ((T - 1) - 1), n \in G
      PROVE  n + 1 \in G
  <2>1. PICK f : Env(f, n)
    BY <1>3
  <2> DEFINE k == T - (n + 1)
  <2>2. n \in Nat /\ n + 1 \in 0 .. (T - 1) /\ k \in Nat /\ k # T /\ k + 1 = T - n /\ k < T
    BY <1>1
  <2> HIDE DEF k
  <2> DEFINE g == [m \in k .. T |->
                     IF m = k THEN IF s[k] > f[k + 1] THEN s[k] ELSE f[k + 1] ELSE f[m]]
  <2>3. ASSUME NEW m \in k .. T
        PROVE  g[m] = Value(g, m)
    <3>1. CASE m = k
      <4>1. g[k + 1] = f[k + 1]
        BY <1>1, <2>2
      <4>2. g[m] = IF s[k] > f[k + 1] THEN s[k] ELSE f[k + 1]
        BY <3>1
      <4> HIDE DEF g
      <4> QED
        BY <2>2, <3>1, <4>1, <4>2
    <3>2. CASE m # k
      <4>1. m \in (T - n) .. T
        BY <1>1, <2>2, <3>2
      <4>2. f[m] = Value(f, m)
        BY <2>1, <4>1
      <4>3. g[m] = f[m]
        BY <3>2
      <4>4. m # T => g[m + 1] = f[m + 1]
        BY <1>1, <2>2, <3>2
      <4> HIDE DEF g
      <4> QED
        BY <4>2, <4>3, <4>4
    <3> QED
      BY <3>1, <3>2
  <2>4. g = [m \in k .. T |-> Value(g, m)]
    BY <2>3
  <2>5. Env(g, n + 1)
    BY <2>4 DEF k
  <2> HIDE DEF g
  <2> QED
    BY <2>2, <2>5
<1>4. T - 1 \in G
  <2> HIDE DEF G
  <2>1. \A n \in 0 .. (T - 1) : n \in G
    BY <1>1, <1>2, <1>3, UpTo
  <2> QED
    BY <1>1, <2>1
<1>5. T - (T - 1) = 1
  BY <1>1
<1>6. \E f : f = [m \in 1 .. T |-> Value(f, m)]
  BY <1>4, <1>5
<1>7. Envelope(s) = CHOOSE f : f = [m \in 1 .. T |-> Value(f, m)]
  BY DEF Envelope
<1>8. Envelope(s) = [m \in 1 .. T |-> Value(Envelope(s), m)]
  BY <1>6, <1>7
<1>9. \A m \in 1 .. T : Envelope(s)[m] = Value(Envelope(s), m)
  BY <1>8
<1> QED
  BY <1>1, <1>9

(* The cumulative sum of a 0/1 sequence counts its ones.                   *)
LEMMA CountIs ==
  ASSUME NEW N \in Nat, NEW s, Len(s) = N, NEW P \in SUBSET (1 .. N),
         \A m \in 1 .. N : s[m] = IF m \in P THEN 1 ELSE 0
  PROVE  \A n \in 0 .. N : /\ Cumulative(s)[n] = Cardinality({m \in 1 .. n : m \in P})
                           /\ Cumulative(s)[n] \in Nat
<1> DEFINE Q(n) == {m \in 1 .. n : m \in P}
           G == {n \in 0 .. N : /\ IsFiniteSet(Q(n)) /\ Cumulative(s)[n] = Cardinality(Q(n))
                                /\ Cumulative(s)[n] \in Nat}
<1>1. /\ Cumulative(s)[0] = 0
      /\ \A n \in 1 .. N : Cumulative(s)[n] = Cumulative(s)[n - 1] + s[n]
  BY CumulativeIs
<1>2. 0 \in G
  <2>1. Q(0) = {}
    OBVIOUS
  <2>2. IsFiniteSet(Q(0)) /\ Cardinality(Q(0)) = 0
    BY <2>1, FS_EmptySet
  <2> QED
    BY <1>1, <2>2
<1>3. ASSUME NEW n \in 0 .. (N - 1), n \in G
      PROVE  n + 1 \in G
  <2>1. /\ n \in Nat /\ n + 1 \in 1 .. N /\ n + 1 \in 0 .. N /\ (n + 1) - 1 = n
        /\ IsFiniteSet(Q(n)) /\ Cumulative(s)[n] = Cardinality(Q(n)) /\ Cumulative(s)[n] \in Nat
    BY <1>3
  <2>2. Cumulative(s)[n + 1] = Cumulative(s)[n] + s[n + 1]
    BY <1>1, <2>1
  <2>3. CASE n + 1 \in P
    <3>1. Q(n + 1) = Q(n) \cup {n + 1} /\ n + 1 \notin Q(n)
      BY <2>1, <2>3
    <3>2. s[n + 1] = 1
      BY <2>1, <2>3
    <3> HIDE DEF Q
    <3>3. IsFiniteSet(Q(n + 1)) /\ Cardinality(Q(n + 1)) = Cardinality(Q(n)) + 1
      BY <2>1, <3>1, FS_AddElement
    <3> QED
      BY <2>1, <2>2, <3>2, <3>3
  <2>4. CASE n + 1 \notin P
    <3>1. Q(n + 1) = Q(n)
      BY <2>1, <2>4
    <3>2. s[n + 1] = 0
      BY <2>1, <2>4
    <3> HIDE DEF Q
    <3>3. IsFiniteSet(Q(n + 1)) /\ Cumulative(s)[n + 1] = Cumulative(s)[n]
      BY <2>1, <2>2, <3>1, <3>2
    <3> QED
      BY <2>1, <3>1, <3>3
  <2> QED
    BY <2>3, <2>4
<1> HIDE DEF G
<1>4. \A n \in 0 .. N : n \in G
  BY <1>2, <1>3, UpTo
<1> QED
  BY <1>4 DEF G

(***************************************************************************)
(* The area under the envelope e of the precisions p, summed over the      *)
(* points where the recall h changes (A), and summed over the objects      *)
(* found (B), b[k] being the best precision at which k objects are.        *)
(***************************************************************************)
Curve(N, H, C, U, h, p, e, A, b, B) ==
  /\ N \in Nat /\ H \in SUBSET (1 .. N) /\ C \in Nat /\ U \in Nat
  /\ h[0] = 0 /\ h[N] <= C /\ \A n \in 0 .. N : h[n] \in Nat
  /\ \A n \in 1 .. N : h[n] = IF n \in H THEN h[n - 1] + 1 ELSE h[n - 1]
  /\ \A n \in 1 .. N : p[n] \in 0 .. U
  /\ e[N + 1] = 0 /\ \A n \in 1 .. N : e[n] = IF p[n] > e[n + 1] THEN p[n] ELSE e[n + 1]
  /\ A[0] = 0 /\ A[N + 1] = A[N] + (C - h[N]) * e[N + 1]
  /\ \A n \in 1 .. N : A[n] = A[n - 1] + (h[n] - h[n - 1]) * e[n]
  /\ \A k \in 1 .. h[N] : b[k] = LargestOf({p[n] : n \in {m \in 1 .. N : h[m] >= k}})
  /\ B[0] = 0 /\ \A k \in 1 .. h[N] : B[k] = B[k - 1] + b[k]

LEMMA AreaUnder ==
  ASSUME NEW N, NEW H, NEW C, NEW U, NEW h, NEW p, NEW e, NEW A, NEW b, NEW B,
         Curve(N, H, C, U, h, p, e, A, b, B)
  PROVE  A[N + 1] = B[h[N]] /\ A[N + 1] \in 0 .. (U * C)
<1> USE DEF Curve
<1>1. \A n \in 0 .. N : \A m \in 0 .. n : h[m] <= h[n]
  <2> DEFINE G == {n \in 0 .. N : \A m \in 0 .. n : h[m] <= h[n]}
  <2>1. 0 \in G
    OBVIOUS
  <2>2. ASSUME NEW n \in 0 .. (N - 1), n \in G
        PROVE  n + 1 \in G
    <3>1. n \in Nat /\ n + 1 \in 1 .. N /\ n + 1 \in 0 .. N /\ (n + 1) - 1 = n /\ n \in 0 .. N
      OBVIOUS
    <3>2. h[n + 1] >= h[n] /\ h[n] \in Nat /\ h[n + 1] \in Nat
      <4>1. h[n + 1] = IF n + 1 \in H THEN h[n] + 1 ELSE h[n]
        BY <3>1
      <4>2. h[n] \in Nat
        BY <3>1
      <4> QED
        BY <4>1, <4>2
    <3>3. ASSUME NEW m \in 0 .. (n + 1)
          PROVE  h[m] <= h[n + 1]
      <4>1. CASE m = n + 1
        BY <3>2, <4>1
      <4>2. CASE m # n + 1
        <5>1. m \in 0 .. n /\ m \in 0 .. N
          BY <3>1, <4>2
        <5>2. h[m] <= h[n] /\ h[m] \in Nat
          BY <2>2, <5>1
        <5> QED
          BY <3>2, <5>2
      <4> QED
        BY <4>1, <4>2
    <3> QED
      BY <3>1, <3>3
  <2> HIDE DEF G
  <2>3. \A n \in 0 .. N : n \in G
    BY <2>1, <2>2, UpTo
  <2> QED
    BY <2>3 DEF G
<1>2. \A n \in 1 .. N : /\ \E m \in n .. N : e[n] = p[m]
                        /\ \A m \in n .. N : e[n] >= p[m]
  <2> DEFINE Top(n) == /\ e[n] \in Nat
                       /\ n # N + 1 => \E m \in n .. N : e[n] = p[m]
                       /\ \A m \in n .. N : e[n] >= p[m]
             G == {j \in 0 .. N : Top((N + 1) - j)}
  <2>1. 0 \in G
    <3>1. (N + 1) - 0 = N + 1 /\ (N + 1) .. N = {} /\ 0 \in Nat
      OBVIOUS
    <3> QED
      BY <3>1
  <2>2. ASSUME NEW j \in 0 .. (N - 1), j \in G
        PROVE  j + 1 \in G
    <3> DEFINE n == (N + 1) - (j + 1)
    <3>1. n \in 1 .. N /\ n + 1 = (N + 1) - j /\ j + 1 \in 0 .. N /\ n \in Nat
      OBVIOUS
    <3>2. Top(n + 1)
      BY <2>2, <3>1
    <3> HIDE DEF n
    <3>3. p[n] \in Nat /\ e[n] = IF p[n] > e[n + 1] THEN p[n] ELSE e[n + 1]
      BY <3>1
    <3>4. e[n] \in Nat /\ e[n] >= p[n] /\ e[n] >= e[n + 1] /\ e[n + 1] \in Nat
      BY <3>2, <3>3
    <3>5. ASSUME NEW m \in n .. N
          PROVE  e[n] >= p[m]
      <4>1. CASE m = n
        BY <3>4, <4>1
      <4>2. CASE m # n
        <5>1. m \in (n + 1) .. N /\ m \in 1 .. N
          BY <3>1, <4>2
        <5>2. e[n + 1] >= p[m] /\ p[m] \in Nat
          BY <3>2, <5>1
        <5> QED
          BY <3>4, <5>2
      <4> QED
        BY <4>1, <4>2
    <3>6. \E m \in n .. N : e[n] = p[m]
      <4>1. n \in n .. N
        BY <3>1
      <4>2. CASE e[n] = p[n]
        BY <4>1, <4>2
      <4>3. CASE e[n] # p[n]
        <5>1. e[n] = e[n + 1] /\ e[n + 1] # 0
          BY <3>3, <3>4, <4>3
        <5>2. n + 1 # N + 1
          BY <5>1
        <5>3. PICK m \in (n + 1) .. N : e[n + 1] = p[m]
          BY <3>2, <5>2
        <5>4. m \in n .. N
          BY <3>1, <5>3
        <5> QED
          BY <5>1, <5>3, <5>4
      <4> QED
        BY <4>2, <4>3
    <3>7. Top(n)
      BY <3>4, <3>5, <3>6
    <3> QED
      BY <3>1, <3>7 DEF n
  <2> HIDE DEF G
  <2>3. \A j \in 0 .. N : j \in G
    BY <2>1, <2>2, UpTo
  <2> SUFFICES ASSUME NEW n \in 1 .. N
               PROVE  Top(n)
    OBVIOUS
  <2>4. (N + 1) - n \in 0 .. N /\ (N + 1) - ((N + 1) - n) = n
    OBVIOUS
  <2>5. Top((N + 1) - ((N + 1) - n))
    BY <2>3, <2>4 DEF G
  <2> HIDE DEF Top
  <2> QED
    BY <2>4, <2>5
<1>3. \A n \in H : h[n] \in 1 .. h[N] /\ b[h[n]] = e[n]
  <2> SUFFICES ASSUME NEW n \in H
               PROVE  h[n] \in 1 .. h[N] /\ b[h[n]] = e[n]
    OBVIOUS
  <2>1. /\ n \in 1 .. N /\ n \in 0 .. N /\ n - 1 \in 0 .. N /\ n \in Nat /\ N \in 0 .. N
        /\ h[n] = h[n - 1] + 1
    OBVIOUS
  <2>2. h[n] \in Nat /\ h[n - 1] \in Nat /\ h[N] \in Nat /\ h[n] <= h[N]
    BY <1>1, <2>1
  <2>3. h[n] \in 1 .. h[N]
    BY <2>1, <2>2
  <2> DEFINE V == {p[m] : m \in {i \in 1 .. N : h[i] >= h[n]}}
  <2>4. ASSUME NEW m \in 1 .. N
        PROVE  h[m] >= h[n] <=> m \in n .. N
    <3>1. CASE m \in n .. N
      <4>1. m \in 0 .. N /\ n \in 0 .. m
        BY <2>1, <3>1
      <4>2. h[n] <= h[m] /\ h[m] \in Nat
        BY <1>1, <4>1
      <4> QED
        BY <2>2, <3>1, <4>2
    <3>2. CASE m \notin n .. N
      <4>1. m \in 0 .. (n - 1) /\ m \in 0 .. N
        BY <2>1, <3>2
      <4>2. h[m] <= h[n - 1] /\ h[m] \in Nat
        BY <1>1, <2>1, <4>1
      <4> QED
        BY <2>1, <2>2, <3>2, <4>2
    <3> QED
      BY <3>1, <3>2
  <2>5. V = {p[m] : m \in n .. N}
    <3>1. {i \in 1 .. N : h[i] >= h[n]} = n .. N
      BY <2>1, <2>4
    <3> QED
      BY <3>1
  <2>6. \A m \in n .. N : p[m] \in 0 .. U
    BY <2>1
  <2>7. V \in SUBSET (0 .. U) /\ V \in SUBSET Int
    BY <2>5, <2>6
  <2>8. IsFiniteSet(V)
    <3>1. IsFiniteSet(0 .. U)
      BY FS_Interval
    <3> QED
      BY <2>7, <3>1, FS_Subset
  <2>9. e[n] \in V /\ \A x \in V : e[n] >= x
    BY <1>2, <2>1, <2>5
  <2>10. b[h[n]] = LargestOf(V)
    BY <2>3
  <2> HIDE DEF V
  <2>11. LargestOf(V) \in V /\ \A x \in V : LargestOf(V) >= x
    BY <2>7, <2>8, <2>9, LargestIs
  <2>12. LargestOf(V) = e[n]
    <3>1. LargestOf(V) >= e[n] /\ e[n] >= LargestOf(V) /\ LargestOf(V) \in Int /\ e[n] \in Int
      BY <2>7, <2>9, <2>11
    <3> QED
      BY <3>1, GeAntisymmetric
  <2> QED
    BY <2>3, <2>10, <2>12
<1>4. \A n \in 1 .. N : e[n] \in 0 .. U
  <2> SUFFICES ASSUME NEW n \in 1 .. N
               PROVE  e[n] \in 0 .. U
    OBVIOUS
  <2>1. PICK m \in n .. N : e[n] = p[m]
    BY <1>2
  <2>2. m \in 1 .. N
    OBVIOUS
  <2> QED
    BY <2>1, <2>2
<1>5. \A n \in 0 .. N : A[n] = B[h[n]] /\ A[n] \in Nat /\ A[n] <= U * h[n]
  <2> DEFINE G == {n \in 0 .. N : A[n] = B[h[n]] /\ A[n] \in Nat /\ A[n] <= U * h[n]}
  <2>1. 0 \in G
    <3>1. U * 0 = 0
      OBVIOUS
    <3>2. A[0] = 0 /\ h[0] = 0 /\ B[0] = 0
      OBVIOUS
    <3>3. A[0] = B[h[0]] /\ A[0] \in Nat /\ A[0] <= U * h[0]
      BY <3>1, <3>2
    <3> QED
      BY <3>3
  <2>2. ASSUME NEW n \in 0 .. (N - 1), n \in G
        PROVE  n + 1 \in G
    <3>1. n \in Nat /\ n + 1 \in 1 .. N /\ n + 1 \in 0 .. N /\ (n + 1) - 1 = n /\ n \in 0 .. N
      OBVIOUS
    <3>2. /\ A[n] = B[h[n]] /\ A[n] \in Nat /\ A[n] <= U * h[n]
          /\ A[n + 1] = A[n] + (h[n + 1] - h[n]) * e[n + 1]
          /\ h[n] \in Nat /\ h[n + 1] \in Nat /\ e[n + 1] \in 0 .. U
      BY <1>4, <2>2, <3>1
    <3>3. CASE n + 1 \in H
      <4>1. h[n + 1] = h[n] + 1 /\ h[n + 1] \in 1 .. h[N] /\ b[h[n + 1]] = e[n + 1]
        BY <1>3, <3>1, <3>3
      <4>2. h[n + 1] - h[n] = 1 /\ h[n + 1] - 1 = h[n]
        BY <3>2, <4>1
      <4>3. 1 * e[n + 1] = e[n + 1] /\ e[n + 1] \in Nat /\ e[n + 1] <= U
        BY <3>2
      <4>4. A[n + 1] = A[n] + e[n + 1]
        BY <3>2, <4>2, <4>3
      <4>5. B[h[n + 1]] = B[h[n]] + e[n + 1]
        BY <4>1, <4>2
      <4>6. U * h[n + 1] = U * h[n] + U /\ U * h[n] \in Nat
        <5>1. \A x \in Nat : U * (x + 1) = U * x + U /\ U * x \in Nat
          OBVIOUS
        <5> QED
          BY <3>2, <4>1, <5>1
      <4>7. A[n + 1] \in Nat /\ A[n + 1] <= U * h[n + 1]
        BY <3>2, <4>3, <4>4, <4>6
      <4> QED
        BY <3>1, <3>2, <4>4, <4>5, <4>7
    <3>4. CASE n + 1 \notin H
      <4>1. h[n + 1] = h[n]
        BY <3>1, <3>4
      <4>2. h[n + 1] - h[n] = 0
        BY <3>2, <4>1
      <4>3. 0 * e[n + 1] = 0
        BY <3>2
      <4>4. A[n + 1] = A[n]
        BY <3>2, <4>2, <4>3
      <4> QED
        BY <3>1, <3>2, <4>1, <4>4
    <3> QED
      BY <3>3, <3>4
  <2> HIDE DEF G
  <2>3. \A n \in 0 .. N : n \in G
    BY <2>1, <2>2, UpTo
  <2> QED
    BY <2>3 DEF G
<1>6. N \in 0 .. N /\ h[N] \in Nat
  OBVIOUS
<1>7. A[N] = B[h[N]] /\ A[N] \in Nat /\ A[N] <= U * h[N]
  BY <1>5, <1>6
<1>8. (C - h[N]) * e[N + 1] = 0
  BY <1>6
<1>9. A[N + 1] = A[N]
  BY <1>7, <1>8
<1>10. U * h[N] <= U * C /\ U * h[N] \in Nat /\ U * C \in Nat
  BY <1>6
<1> QED
  BY <1>7, <1>9, <1>10
-----------------------------------------------------------------------------
(***************************************************************************)
(* The inductive invariant.                                                *)
(***************************************************************************)
Total(c) == Cardinality(Found(c))
Hits(c, n) == Cardinality({m \in 1 .. n : IsHit(c, m)})
Misses(c, n) == Cardinality({m \in 1 .. n : IsMiss(c, m)})
Best(c, k) ==
  LargestOf({(Unit * Hits(c, n)) \div (Hits(c, n) + Misses(c, n)) :
             n \in {m \in 1 .. Total(c) : Hits(c, m) >= k}})
Area(c) == SumOf([k \in 1 .. Hits(c, Total(c)) |-> Best(c, k)])

(* One of the n best ranked detections of c claims object o of image k.    *)
Claimed(c, n, k, o) ==
  \E m \in 1 .. n : /\ Claims(Nth(c, m)) /\ Nth(c, m)[1] = k
                    /\ BestObject(Entry(Nth(c, m))) = o

Types ==
  /\ gt \in GroundTruths /\ list \in Lists \cup {{}} /\ FoundOK
  /\ DOMAIN used = Images /\ DOMAIN ranked = Classes /\ ap \in [Classes -> Int]
  /\ \A k \in Images : used[k] # NoFile => /\ k \in DOMAIN gt
                                           /\ used[k] \in [1 .. Len(gt[k]) -> BOOLEAN]
  /\ \A c \in Classes :
       ranked[c] # NoFile => \A n \in 1 .. Len(ranked[c]) :
         ranked[c][n].image \in Images /\ ranked[c][n].det.cls = c
  /\ starts \in 0 .. MaxStarts
  /\ pc \in {"idle", "detect", "parse", "load", "match", "done", "exit", "dead"}
  /\ cur \in Images \cup Classes \cup {NotYet}
  /\ tp \in Seq({0, 1}) /\ fp \in Seq({0, 1}) /\ Len(tp) = Len(fp)

(* The files are those of this evaluation, for the images of its list.     *)
OwnFiles ==
  /\ dr = found
  /\ pc = "detect" => /\ cur \in list \cup {NotYet}
                      /\ \A k \in Images : found[k] # NoFile <=> k \in list /\ k <= cur
  /\ pc \in {"parse", "load", "match"} =>
       \A k \in Images : found[k] # NoFile <=> k \in list

Directories ==
  /\ pc = "parse" => /\ cur \in DOMAIN gt \cup {NotYet}
                     /\ \A k \in DOMAIN gt : k <= cur => k \in list
  /\ pc = "load" => /\ GtClasses # {} /\ DOMAIN gt \subseteq list
                    /\ cur # NotYet => list \subseteq DOMAIN gt
  /\ pc \in {"match", "done"} => list = DOMAIN gt /\ GtClasses # {}
  /\ pc = "exit" => list # DOMAIN gt \/ ~AnnotationsParse \/ ~DetectionsParse

(* What .temp_files/ holds: the unused objects, then the ranked detections *)
(* of the classes and the objects that those of the class at hand claim.   *)
TempFiles ==
  /\ pc = "parse" => \A k \in DOMAIN gt : k <= cur => used[k] = FreshFlags(k)
  /\ pc = "load" => /\ cur \in GtClasses \cup {NotYet}
                    /\ \A k \in DOMAIN gt : used[k] = FreshFlags(k)
                    /\ \A c \in GtClasses : c <= cur => ranked[c] = Ranked(c)
  /\ pc = "match" =>
       /\ cur \in GtClasses /\ \A c \in GtClasses : ranked[c] = Ranked(c)
       /\ \A k \in DOMAIN gt :
            /\ used[k] \in [1 .. Len(gt[k]) -> BOOLEAN]
            /\ \A o \in 1 .. Len(gt[k]) :
                 /\ gt[k][o].cls = cur => (used[k][o] <=> Claimed(cur, Len(tp), k, o))
                 /\ gt[k][o].cls > cur => ~used[k][o]

Scores ==
  /\ pc = "match" => Len(tp) <= Total(cur)
  /\ FirstClaim
  /\ \A c \in Classes : ap[c] # NotYet => ap[c] = Area(c) /\ ap[c] \in 0 .. (Unit * Counted(c))
  /\ pc \in {"idle", "detect", "parse", "load"} =>
       tp = <<>> /\ fp = <<>> /\ \A c \in Classes : ap[c] = NotYet
  /\ pc = "match" => \A c \in Classes : ap[c] # NotYet <=> c \in GtClasses /\ c < cur
  /\ pc = "done" => \A c \in Classes : ap[c] # NotYet <=> c \in GtClasses

(* The lines that have been read parse.                                    *)
Readings ==
  /\ pc = "parse" => \A k \in DOMAIN gt : k <= cur => Parses(gt[k])
  /\ pc = "load" => AnnotationsParse /\ (cur # NotYet => DetectionsParse)
  /\ pc \in {"match", "done"} => AnnotationsParse /\ DetectionsParse

FilesInv == Types /\ OwnFiles /\ Directories /\ TempFiles /\ Scores
EvalInv == FilesInv /\ Readings
-----------------------------------------------------------------------------
(***************************************************************************)
(* What depends on the annotations and the detections only.                *)
(***************************************************************************)
LEMMA SameFound ==
  ASSUME found' = found
  PROVE  /\ \A c : Found(c)' = Found(c) /\ Total(c)' = Total(c)
         /\ \A c, n : Nth(c, n)' = Nth(c, n)
         /\ \A p : Entry(p)' = Entry(p) /\ DetOf(p)' = DetOf(p)
<1>1. \A c : Found(c)' = Found(c)
  BY DEF Found
<1>2. \A c : Total(c)' = Total(c)
  BY <1>1 DEF Total
<1>3. \A c, n : Nth(c, n)' = Nth(c, n)
  BY DEF Nth, Found, Outranks, DetOf
<1>4. \A p : Entry(p)' = Entry(p) /\ DetOf(p)' = DetOf(p)
  BY DEF Entry, DetOf
<1> QED
  BY <1>1, <1>2, <1>3, <1>4

LEMMA SameCounted ==
  ASSUME gt' = gt
  PROVE  /\ \A c : Counted(c)' = Counted(c) /\ Objects(c)' = Objects(c)
         /\ GtClasses' = GtClasses /\ \A k : FreshFlags(k)' = FreshFlags(k)
         /\ \A e : BestObject(e)' = BestObject(e)
<1>1. \A c : Objects(c)' = Objects(c)
  BY DEF Objects
<1>2. \A c : Counted(c)' = Counted(c)
  BY DEF Counted, Objects
<1>3. GtClasses' = GtClasses
  BY <1>2 DEF GtClasses
<1>4. \A k : FreshFlags(k)' = FreshFlags(k)
  BY DEF FreshFlags
<1>5. \A e : BestObject(e)' = BestObject(e)
  BY DEF BestObject
<1> QED
  BY <1>1, <1>2, <1>3, <1>4, <1>5

LEMMA SameVerdicts ==
  ASSUME gt' = gt, found' = found
  PROVE  /\ \A c, n : (IsHit(c, n)' <=> IsHit(c, n)) /\ (IsMiss(c, n)' <=> IsMiss(c, n))
         /\ \A c, n, k, o : Claimed(c, n, k, o)' <=> Claimed(c, n, k, o)
         /\ \A c : Area(c)' = Area(c)
<1> DEFINE Obj(p) == BestObject(Entry(p))
<1>a. \A p : Obj(p)' = Obj(p) /\ Entry(p)' = Entry(p)
  <2> SUFFICES ASSUME NEW p
               PROVE  Obj(p)' = Obj(p) /\ Entry(p)' = Entry(p)
    OBVIOUS
  <2>1. Entry(p)' = Entry(p)
    BY SameFound
  <2>2. Obj(p)' = Obj(p)
    BY DEF BestObject, Entry, DetOf
  <2> QED
    BY <2>1, <2>2
<1>b. \A p : Overlaps(Entry(p))' <=> Overlaps(Entry(p))
  BY <1>a DEF Overlaps
<1>c. \A p : Claims(p)' <=> Claims(p)
  BY <1>a, <1>b DEF Claims
<1>d. \A p, q : Outranks(p, q)' <=> Outranks(p, q)
  BY DEF Outranks, DetOf
<1>e. /\ \A c : Found(c)' = Found(c)
      /\ \A c, n : Nth(c, n)' = Nth(c, n)
  BY SameFound
<1>f. \A c, p : Taken(c, p)' <=> Taken(c, p)
  BY <1>a, <1>c, <1>d, <1>e DEF Taken
<1>1. \A c, n : IsHit(c, n)' <=> IsHit(c, n)
  BY <1>c, <1>e, <1>f DEF IsHit
<1>2. \A c, n : IsMiss(c, n)' <=> IsMiss(c, n)
  BY <1>b, <1>c, <1>e, <1>f DEF IsMiss
<1>3. \A c, n, k, o : Claimed(c, n, k, o)' <=> Claimed(c, n, k, o)
  BY <1>a, <1>c, <1>e DEF Claimed
<1>4. \A c, n : Hits(c, n)' = Hits(c, n) /\ Misses(c, n)' = Misses(c, n)
  BY <1>1, <1>2 DEF Hits, Misses
<1>5. \A c : Total(c)' = Total(c)
  BY SameFound
<1>6. ASSUME NEW c, NEW k
      PROVE  Best(c, k)' = Best(c, k)
  <2> DEFINE S == {m \in 1 .. Total(c) : Hits(c, m) >= k}
             V == {(Unit * Hits(c, n)) \div (Hits(c, n) + Misses(c, n)) : n \in S}
  <2>1. S' = S
    BY <1>4, <1>5
  <2> HIDE DEF S
  <2>2. V' = V
    BY <1>4, <2>1
  <2>3. Best(c, k) = LargestOf(V)
    BY DEF Best, S
  <2>4. Best(c, k)' = LargestOf(V')
    BY DEF Best, S
  <2> QED
    BY <2>2, <2>3, <2>4
<1>7. ASSUME NEW c
      PROVE  Area(c)' = Area(c)
  <2>1. Hits(c, Total(c))' = Hits(c, Total(c))
    BY <1>4, <1>5
  <2> QED
    BY <1>6, <2>1 DEF Area
<1> QED
  BY <1>1, <1>2, <1>3, <1>7

(***************************************************************************)
(* The ranked detections of the model are those of the property.           *)
(***************************************************************************)
LEMMA RankedIs ==
  ASSUME FoundOK, dr = found, NEW c
  PROVE  /\ Ranked(c) = [n \in 1 .. Total(c) |-> Entry(Nth(c, n))]
         /\ Len(Ranked(c)) = Total(c) /\ Total(c) \in Nat
<1>1. OfClass(c) = Found(c)
  <2>1. Files(dr) = {x \in Images : found[x] # NoFile}
    BY DEF Files, FoundOK
  <2> QED
    BY <2>1 DEF OfClass, Found
<1>2. \A p, q : Sooner(p, q) <=> Outranks(p, q)
  BY DEF Sooner, Outranks, DetOf
<1>3. \A n : Sorted(c, n) = Nth(c, n)
  <2> SUFFICES ASSUME NEW n
               PROVE  Sorted(c, n) = Nth(c, n)
    OBVIOUS
  <2>1. \A p : {q \in OfClass(c) : Sooner(q, p)} = {q \in Found(c) : Outranks(q, p)}
    BY <1>1, <1>2
  <2>2. \A p : p \in OfClass(c) /\ Cardinality({q \in OfClass(c) : Sooner(q, p)}) = n - 1
           <=> p \in Found(c) /\ Cardinality({q \in Found(c) : Outranks(q, p)}) = n - 1
    BY <1>1, <2>1
  <2> QED
    BY <2>2 DEF Sorted, Nth
<1>4. Ranked(c) = [n \in 1 .. Total(c) |-> Entry(Nth(c, n))]
  <2>1. \A n : LET p == Sorted(c, n) IN
               [image |-> p[1], det |-> dr[p[1]][p[2]]] = Entry(Nth(c, n))
    BY <1>3 DEF Entry, DetOf
  <2> QED
    BY <1>1, <2>1 DEF Ranked, Total
<1>5. Total(c) \in Nat
  BY Ranking DEF Total
<1>6. Ranked(c) \in Seq({Entry(Nth(c, n)) : n \in 1 .. Total(c)})
  <2>1. \A n \in 1 .. Total(c) :
          Ranked(c)[n] \in {Entry(Nth(c, m)) : m \in 1 .. Total(c)}
    BY <1>4
  <2>2. DOMAIN Ranked(c) = 1 .. Total(c)
    BY <1>4
  <2>3. Ranked(c) \in [1 .. Total(c) -> {Entry(Nth(c, m)) : m \in 1 .. Total(c)}]
    BY <1>4, <2>1, <2>2
  <2> QED
    BY <1>5, <2>3
<1>7. DOMAIN Ranked(c) = 1 .. Len(Ranked(c)) /\ Len(Ranked(c)) \in Nat
  BY <1>6, LenProperties
<1>8. 1 .. Len(Ranked(c)) = 1 .. Total(c)
  BY <1>4, <1>7
<1>9. Len(Ranked(c)) = Total(c)
  BY <1>5, <1>7, <1>8, SameUpper
<1> QED
  BY <1>4, <1>5, <1>9

(* The images with detections are annotated, as they are from "match" on.  *)
Annotated == \A k \in Images : found[k] # NoFile => k \in DOMAIN gt

(* A detection finds an object of its class.                               *)
LEMMA ObjectFound ==
  ASSUME gt \in GroundTruths, FoundOK, Annotated, NEW c, NEW p \in Found(c),
         BestObject(Entry(p)) # 0
  PROVE  /\ p[1] \in DOMAIN gt /\ BestObject(Entry(p)) \in 1 .. Len(gt[p[1]])
         /\ gt[p[1]][BestObject(Entry(p))].cls = c
<1>1. /\ p[1] \in Images /\ found[p[1]] \in Detections /\ p[2] \in 1 .. Len(found[p[1]])
      /\ DetOf(p) = found[p[1]][p[2]] /\ DetOf(p).cls = c
  BY FoundTyped
<1>2. p[1] \in DOMAIN gt
  BY <1>1, DetectionTyped DEF Annotated
<1>3. Entry(p).image = p[1] /\ Entry(p).det = DetOf(p)
  BY DEF Entry
<1>4. Len(gt[Entry(p).image]) \in Nat
  BY <1>2, <1>3, GroundTruthTyped
<1>5. \A o \in 1 .. Len(gt[Entry(p).image]) : Entry(p).det.ov[o] \in Nat
  BY <1>1, <1>2, <1>3, OverlapsTyped
<1>6. BestObject(Entry(p)) \in Met(Entry(p))
  BY <1>4, <1>5, BestObjectIs
<1> QED
  BY <1>1, <1>2, <1>3, <1>6 DEF Met

LEMMA ClaimIs ==
  ASSUME gt \in GroundTruths, FoundOK, Annotated, NEW c, NEW p \in Found(c), Claims(p)
  PROVE  /\ p[1] \in DOMAIN gt /\ BestObject(Entry(p)) \in 1 .. Len(gt[p[1]])
         /\ gt[p[1]][BestObject(Entry(p))].cls = c
         /\ ~gt[p[1]][BestObject(Entry(p))].difficult
<1>1. BestObject(Entry(p)) # 0 /\ ~gt[p[1]][BestObject(Entry(p))].difficult
  BY DEF Claims, Overlaps
<1> QED
  BY <1>1, ObjectFound

(* An object is taken when a better ranked detection claims it.            *)
LEMMA TakenIs ==
  ASSUME FoundOK, NEW c, NEW n \in 1 .. Total(c)
  PROVE  Taken(c, Nth(c, n)) <=>
           Claimed(c, n - 1, Nth(c, n)[1], BestObject(Entry(Nth(c, n))))
<1> DEFINE p == Nth(c, n)
<1>1. Total(c) \in Nat /\ p \in Found(c) /\ n \in Nat
  BY Ranking DEF Total
<1>2. ASSUME NEW q \in Found(c), Outranks(q, p)
      PROVE  \E m \in 1 .. (n - 1) : q = Nth(c, m)
  <2>1. PICK m \in 1 .. Total(c) : q = Nth(c, m)
    BY Ranking DEF Total
  <2>2. m < n
    BY <1>2, <2>1, Ranking DEF Total
  <2>3. m \in 1 .. (n - 1)
    BY <1>1, <2>1, <2>2
  <2> QED
    BY <2>1, <2>3
<1>3. ASSUME NEW m \in 1 .. (n - 1)
      PROVE  Nth(c, m) \in Found(c) /\ Outranks(Nth(c, m), p)
  <2>1. m \in 1 .. Total(c) /\ m < n
    BY <1>1
  <2> QED
    BY <2>1, Ranking DEF Total
<1> HIDE DEF p
<1>4. Taken(c, p) => Claimed(c, n - 1, p[1], BestObject(Entry(p)))
  BY <1>2 DEF Taken, Claimed
<1>5. Claimed(c, n - 1, p[1], BestObject(Entry(p))) => Taken(c, p)
  BY <1>3 DEF Taken, Claimed
<1> QED
  BY <1>4, <1>5 DEF p

LEMMA CountedFinite ==
  ASSUME gt \in GroundTruths, NEW c
  PROVE  IsFiniteSet({p \in Objects(c) : ~gt[p[1]][p[2]].difficult}) /\ Counted(c) \in Nat
<1> DEFINE n == [k \in DOMAIN gt |-> Len(gt[k])]
<1>1. n \in [DOMAIN gt -> Nat] /\ IsFiniteSet(DOMAIN gt)
  BY GroundTruthTyped, ImagesAssumption, FS_Subset
<1>2. \A k \in DOMAIN gt : n[k] = Len(gt[k])
  OBVIOUS
<1> HIDE DEF n
<1>3. IsFiniteSet(UNION {{k} \X (1 .. n[k]) : k \in DOMAIN gt})
  BY <1>1, PiecesFinite
<1>4. Objects(c) \subseteq UNION {{k} \X (1 .. n[k]) : k \in DOMAIN gt}
  BY <1>2 DEF Objects
<1>5. IsFiniteSet({p \in Objects(c) : ~gt[p[1]][p[2]].difficult})
  <2>1. {p \in Objects(c) : ~gt[p[1]][p[2]].difficult}
          \subseteq UNION {{k} \X (1 .. n[k]) : k \in DOMAIN gt}
    BY <1>4
  <2> QED
    BY <1>3, <2>1, FS_Subset
<1> QED
  BY <1>5, FS_CardinalityType DEF Counted

(* No more detections are hits than there are objects to find.             *)
LEMMA HitsBounded ==
  ASSUME gt \in GroundTruths, FoundOK, Annotated, NEW c
  PROVE  Hits(c, Total(c)) \in Nat /\ Hits(c, Total(c)) <= Counted(c)
<1> DEFINE S == {m \in 1 .. Total(c) : IsHit(c, m)}
           T == {p \in Objects(c) : ~gt[p[1]][p[2]].difficult}
           f == [m \in S |-> <<Nth(c, m)[1], BestObject(Entry(Nth(c, m)))>>]
<1>1. Total(c) \in Nat
  BY Ranking DEF Total
<1>2. ASSUME NEW m \in S
      PROVE  f[m] \in T
  <2>1. Nth(c, m) \in Found(c) /\ Claims(Nth(c, m))
    BY Ranking DEF IsHit, Total
  <2> DEFINE p == Nth(c, m)
             o == BestObject(Entry(p))
  <2>2. p[1] \in DOMAIN gt /\ o \in 1 .. Len(gt[p[1]]) /\ gt[p[1]][o].cls = c
        /\ ~gt[p[1]][o].difficult
    BY <2>1, ClaimIs
  <2>3. f[m] = <<p[1], o>>
    OBVIOUS
  <2> HIDE DEF p, o, f
  <2>4. <<p[1], o>> \in Objects(c)
    BY <2>2 DEF Objects
  <2> QED
    BY <2>2, <2>3, <2>4
<1>3. ASSUME NEW m \in S, NEW n \in S, m < n
      PROVE  f[m] # f[n]
  <2> SUFFICES ASSUME f[m] = f[n]
               PROVE  FALSE
    OBVIOUS
  <2>1. /\ Nth(c, m)[1] = Nth(c, n)[1]
        /\ BestObject(Entry(Nth(c, m))) = BestObject(Entry(Nth(c, n)))
    OBVIOUS
  <2>2. m \in 1 .. (n - 1) /\ n \in 1 .. Total(c) /\ Claims(Nth(c, m)) /\ ~Taken(c, Nth(c, n))
    BY <1>1, <1>3 DEF IsHit
  <2>3. Claimed(c, n - 1, Nth(c, n)[1], BestObject(Entry(Nth(c, n))))
    BY <2>1, <2>2 DEF Claimed
  <2> QED
    BY <2>2, <2>3, TakenIs
<1>4. \A m, n \in S : f[m] = f[n] => m = n
  <2>1. \A m, n \in S : m # n => m < n \/ n < m
    BY <1>1
  <2> QED
    BY <1>3, <2>1
<1>5. f \in [S -> T]
  BY <1>2
<1>6. f \in Injection(S, T)
  BY <1>4, <1>5 DEF Injection, IsInjective
<1>7. IsFiniteSet(T)
  BY CountedFinite
<1> HIDE DEF f, S, T
<1>8. IsFiniteSet(S) /\ Cardinality(S) <= Cardinality(T)
  BY <1>6, <1>7, FS_Injection
<1>9. Cardinality(S) \in Nat
  BY <1>8, FS_CardinalityType
<1> QED
  BY <1>8, <1>9 DEF Hits, Counted, S, T

LEMMA Fraction ==
  ASSUME NEW a \in Nat, NEW b \in Nat, a + b # 0, NEW U \in Nat
  PROVE  (U * a) \div (a + b) \in 0 .. U
<1>1. \A x, d \in Nat : d # 0 => x \div d \in Nat
  OBVIOUS
<1>2. \A x, d, u \in Nat : d # 0 /\ x <= u * d => x \div d <= u
  BY SMTT(60)
<1>3. U * a \in Nat /\ a + b \in Nat /\ U * a <= U * (a + b)
  OBVIOUS
<1>4. (U * a) \div (a + b) \in Nat
  BY <1>1, <1>3
<1>5. (U * a) \div (a + b) <= U
  BY <1>2, <1>3
<1> QED
  BY <1>4, <1>5

LEMMA LenOf ==
  ASSUME NEW N \in Nat, NEW S, NEW s \in [1 .. N -> S]
  PROVE  s \in Seq(S) /\ Len(s) = N
<1>1. s \in Seq(S)
  OBVIOUS
<1>2. DOMAIN s = 1 .. Len(s) /\ Len(s) \in Nat
  BY <1>1, LenProperties
<1>3. 1 .. N = 1 .. Len(s)
  BY <1>2
<1> QED
  BY <1>1, <1>2, <1>3, SameUpper

(* A sequence of numbers between two sentinels.                            *)
LEMMA Fenced ==
  ASSUME NEW N \in Nat, NEW s \in [1 .. N -> Nat], NEW a \in Nat, NEW b \in Nat,
         NEW q, q = <<a>> \o s \o <<b>>
  PROVE  /\ Len(q) = N + 2 /\ q[1] = a /\ q[N + 2] = b
         /\ \A m \in 1 .. N : q[m + 1] = s[m]
<1>1. s \in Seq(Nat) /\ Len(s) = N
  BY LenOf
<1>2. <<a>> \in Seq(Nat) /\ <<b>> \in Seq(Nat) /\ Len(<<a>>) = 1 /\ Len(<<b>>) = 1
      /\ <<a>>[1] = a /\ <<b>>[1] = b
  OBVIOUS
<1> DEFINE r == <<a>> \o s
<1>3. /\ r \in Seq(Nat) /\ Len(r) = N + 1
      /\ \A i \in 1 .. (N + 1) : r[i] = IF i <= 1 THEN <<a>>[i] ELSE s[i - 1]
  <2>1. /\ r \in Seq(Nat) /\ Len(r) = 1 + N
        /\ \A i \in 1 .. (1 + N) : r[i] = IF i <= 1 THEN <<a>>[i] ELSE s[i - 1]
    BY <1>1, <1>2, ConcatProperties
  <2>2. 1 + N = N + 1
    OBVIOUS
  <2> QED
    BY <2>1, <2>2
<1> HIDE DEF r
<1>4. /\ q \in Seq(Nat) /\ Len(q) = (N + 1) + 1
      /\ \A i \in 1 .. ((N + 1) + 1) : q[i] = IF i <= N + 1 THEN r[i] ELSE <<b>>[i - (N + 1)]
  <2>1. q = r \o <<b>>
    BY DEF r
  <2> QED
    BY <1>2, <1>3, <2>1, ConcatProperties
<1>5. (N + 1) + 1 = N + 2 /\ 1 \in 1 .. (N + 1) /\ (N + 2) - (N + 1) = 1
      /\ N + 2 \in 1 .. (N + 2) /\ ~(N + 2 <= N + 1)
  OBVIOUS
<1>6. q[1] = a
  BY <1>2, <1>3, <1>4, <1>5
<1>7. q[N + 2] = b
  BY <1>2, <1>4, <1>5
<1>8. ASSUME NEW m \in 1 .. N
      PROVE  q[m + 1] = s[m]
  <2>1. m + 1 \in 1 .. (N + 1) /\ m + 1 \in 1 .. (N + 2) /\ ~(m + 1 <= 1) /\ (m + 1) - 1 = m
        /\ m + 1 <= N + 1
    OBVIOUS
  <2>2. q[m + 1] = r[m + 1]
    BY <1>4, <1>5, <2>1
  <2>3. r[m + 1] = s[m]
    BY <1>3, <2>1
  <2> QED
    BY <2>2, <2>3
<1> QED
  BY <1>4, <1>5, <1>6, <1>7, <1>8

(***************************************************************************)
(* voc_ap of the verdicts of a class is the area under its envelope.       *)
(***************************************************************************)
LEMMA VocApIs ==
  ASSUME gt \in GroundTruths, FoundOK, Annotated, NEW c, NEW hits, NEW misses,
         Len(hits) = Total(c), Len(misses) = Total(c),
         \A n \in 1 .. Total(c) : /\ hits[n] = IF IsHit(c, n) THEN 1 ELSE 0
                                  /\ misses[n] = IF IsMiss(c, n) THEN 1 ELSE 0
  PROVE  VocAp(c, hits, misses) = Area(c) /\ Area(c) \in 0 .. (Unit * Counted(c))
<1> DEFINE N == Total(c)
           C == Counted(c)
           t == Cumulative(hits)
           f == Cumulative(misses)
           prec == [m \in 1 .. N |-> Precision(m, t, f)]
           mrec == <<0>> \o [m \in 1 .. N |-> t[m]] \o <<C>>
           fenced == <<0>> \o prec \o <<0>>
           mpre == Envelope(fenced)
           terms == [m \in 1 .. (N + 1) |-> (mrec[m + 1] - mrec[m]) * mpre[m + 1]]
           bests == [k \in 1 .. Hits(c, N) |-> Best(c, k)]
           H == {m \in 1 .. N : IsHit(c, m)}
           M == {m \in 1 .. N : IsMiss(c, m)}
<1>1. VocAp(c, hits, misses) = SumOf(terms) /\ Area(c) = SumOf(bests)
  BY DEF VocAp, Area
<1>2. N \in Nat
  BY Ranking DEF Total
<1>3. C \in Nat /\ Hits(c, N) \in Nat /\ Hits(c, N) <= C
  BY CountedFinite, HitsBounded
<1>4. \A m \in 1 .. N : (m \in H <=> IsHit(c, m)) /\ (m \in M <=> IsMiss(c, m))
  OBVIOUS
<1>5. H \in SUBSET (1 .. N) /\ M \in SUBSET (1 .. N)
  OBVIOUS
<1>6. ASSUME NEW n \in 0 .. N
      PROVE  {m \in 1 .. n : m \in H} = {m \in 1 .. n : IsHit(c, m)}
             /\ {m \in 1 .. n : m \in M} = {m \in 1 .. n : IsMiss(c, m)}
  BY <1>2
<1>7. \A n \in 1 .. N : /\ hits[n] = IF n \in H THEN 1 ELSE 0
                        /\ misses[n] = IF n \in M THEN 1 ELSE 0
  BY <1>4
<1> HIDE DEF H, M, N
<1>8. \A n \in 0 .. N : t[n] = Hits(c, n) /\ t[n] \in Nat
  <2>1. \A n \in 0 .. N : t[n] = Cardinality({m \in 1 .. n : m \in H}) /\ t[n] \in Nat
    BY <1>2, <1>5, <1>7, CountIs DEF N
  <2> QED
    BY <1>6, <2>1 DEF Hits
<1>9. \A n \in 0 .. N : f[n] = Misses(c, n) /\ f[n] \in Nat
  <2>1. \A n \in 0 .. N : f[n] = Cardinality({m \in 1 .. n : m \in M}) /\ f[n] \in Nat
    BY <1>2, <1>5, <1>7, CountIs DEF N
  <2> QED
    BY <1>6, <2>1 DEF Misses
<1>10. t[0] = 0 /\ \A n \in 1 .. N : t[n] = t[n - 1] + hits[n]
  BY <1>2, CumulativeIs DEF N
<1> HIDE DEF t, f, C
<1>11. \A n \in 1 .. N : t[n] = IF n \in H THEN t[n - 1] + 1 ELSE t[n - 1]
  <2> SUFFICES ASSUME NEW n \in 1 .. N
               PROVE  t[n] = IF n \in H THEN t[n - 1] + 1 ELSE t[n - 1]
    OBVIOUS
  <2>1. n - 1 \in 0 .. N
    BY <1>2
  <2>2. t[n - 1] \in Nat
    BY <1>8, <2>1
  <2> QED
    BY <1>7, <1>10, <2>2
<1>12. \A n \in 1 .. N : Precision(n, t, f) \in 0 .. Unit
  <2> SUFFICES ASSUME NEW n \in 1 .. N
               PROVE  Precision(n, t, f) \in 0 .. Unit
    OBVIOUS
  <2>1. t[n] \in Nat /\ f[n] \in Nat /\ Unit \in Nat
    BY <1>2, <1>8, <1>9, NumbersAssumption
  <2>2. t[n] + f[n] # 0 => (Unit * t[n]) \div (t[n] + f[n]) \in 0 .. Unit
    BY <2>1, Fraction
  <2> QED
    BY <2>1, <2>2 DEF Precision
<1>13. \A n \in 1 .. N : prec[n] = Precision(n, t, f) /\ prec[n] \in 0 .. Unit
  BY <1>12
<1>14. prec \in [1 .. N -> Nat]
  BY <1>12, NumbersAssumption
<1>15. /\ Len(fenced) = N + 2 /\ fenced[N + 2] = 0
       /\ \A m \in 1 .. N : fenced[m + 1] = prec[m]
  <2> HIDE DEF prec
  <2> QED
    BY <1>2, <1>14, Fenced
<1>16. /\ mrec[1] = 0 /\ mrec[N + 2] = C /\ \A m \in 1 .. N : mrec[m + 1] = t[m]
  <2> DEFINE s == [m \in 1 .. N |-> t[m]]
  <2>1. s \in [1 .. N -> Nat] /\ \A m \in 1 .. N : s[m] = t[m]
    BY <1>2, <1>8
  <2>2. mrec = <<0>> \o s \o <<C>> /\ C \in Nat
    BY <1>3 DEF C
  <2> HIDE DEF s, mrec
  <2>3. mrec[1] = 0 /\ mrec[N + 2] = C /\ \A m \in 1 .. N : mrec[m + 1] = s[m]
    BY <1>2, <2>1, <2>2, Fenced
  <2> QED
    BY <2>1, <2>3
<1> HIDE DEF fenced, prec
<1>17. /\ mpre[N + 2] = 0
       /\ \A n \in 1 .. N : mpre[n + 1] = IF prec[n] > mpre[(n + 1) + 1] THEN prec[n]
                                          ELSE mpre[(n + 1) + 1]
  <2>1. N + 2 \in Nat /\ N + 2 # 0 /\ \A n \in 1 .. N : n + 1 \in 1 .. ((N + 2) - 1)
    BY <1>2
  <2>2. /\ mpre[N + 2] = fenced[N + 2]
        /\ \A n \in 1 .. ((N + 2) - 1) :
             mpre[n] = IF fenced[n] > mpre[n + 1] THEN fenced[n] ELSE mpre[n + 1]
    BY <1>15, <2>1, EnvelopeIs
  <2> QED
    BY <1>15, <2>1, <2>2
<1> HIDE DEF mpre, mrec
<1> DEFINE e == [n \in 1 .. (N + 1) |-> mpre[n + 1]]
           A == Cumulative(terms)
           B == Cumulative(bests)
<1>18. /\ e[N + 1] = 0
       /\ \A n \in 1 .. N : e[n] = IF prec[n] > e[n + 1] THEN prec[n] ELSE e[n + 1]
  <2>1. (N + 1) + 1 = N + 2 /\ N + 1 \in 1 .. (N + 1)
        /\ \A n \in 1 .. N : n \in 1 .. (N + 1) /\ n + 1 \in 1 .. (N + 1)
    BY <1>2
  <2> QED
    BY <1>17, <2>1
<1>19. /\ Len(terms) = N + 1
       /\ \A n \in 1 .. N : terms[n] = (t[n] - t[n - 1]) * e[n]
       /\ terms[N + 1] = (C - t[N]) * e[N + 1]
  <2>1. /\ N + 1 \in Nat /\ N + 1 \in 1 .. (N + 1) /\ (N + 1) + 1 = N + 2
        /\ \A n \in 1 .. N : n \in 1 .. (N + 1) /\ n - 1 \in 0 .. N
        /\ \A n \in 1 .. N : n # 1 => n - 1 \in 1 .. N /\ (n - 1) + 1 = n
        /\ N # 0 => N \in 1 .. N
    BY <1>2
  <2>2. ASSUME NEW n \in 1 .. (N + 1)
        PROVE  mrec[n] = t[n - 1]
    <3>1. CASE n = 1
      BY <1>10, <1>16, <3>1
    <3>2. CASE n # 1
      <4>1. n - 1 \in 1 .. N /\ (n - 1) + 1 = n
        BY <1>2, <3>2
      <4> QED
        BY <1>16, <4>1
    <3> QED
      BY <3>1, <3>2
  <2>3. Len(terms) = N + 1
    <3>1. terms \in [1 .. (N + 1) -> {terms[n] : n \in 1 .. (N + 1)}]
      OBVIOUS
    <3> HIDE DEF terms
    <3> QED
      BY <2>1, <3>1, LenOf
  <2>4. \A n \in 1 .. (N + 1) : terms[n] = (mrec[n + 1] - mrec[n]) * e[n]
    BY <2>1
  <2>5. \A n \in 1 .. N : terms[n] = (t[n] - t[n - 1]) * e[n]
    BY <1>16, <2>1, <2>2, <2>4
  <2>6. terms[N + 1] = (C - t[N]) * e[N + 1]
    <3>1. mrec[(N + 1) + 1] = C
      BY <1>16, <2>1
    <3>2. mrec[N + 1] = t[N]
      <4>1. (N + 1) - 1 = N
        BY <1>2
      <4> QED
        BY <2>1, <2>2, <4>1
    <3> QED
      BY <2>1, <2>4, <3>1, <3>2
  <2> QED
    BY <2>3, <2>5, <2>6
<1>20. Len(bests) = Hits(c, N) /\ \A k \in 1 .. Hits(c, N) : bests[k] = Best(c, k)
  <2>1. bests \in [1 .. Hits(c, N) -> {bests[k] : k \in 1 .. Hits(c, N)}]
        /\ \A k \in 1 .. Hits(c, N) : bests[k] = Best(c, k)
    OBVIOUS
  <2> HIDE DEF bests
  <2> QED
    BY <1>3, <2>1, LenOf
<1>21. ASSUME NEW k \in 1 .. Hits(c, N)
       PROVE  bests[k] = LargestOf({prec[n] : n \in {m \in 1 .. N : t[m] >= k}})
  <2>1. {m \in 1 .. N : Hits(c, m) >= k} = {m \in 1 .. N : t[m] >= k}
    <3>1. \A m \in 1 .. N : t[m] = Hits(c, m)
      BY <1>2, <1>8
    <3> QED
      BY <3>1
  <2>2. ASSUME NEW n \in {m \in 1 .. N : t[m] >= k}
        PROVE  (Unit * Hits(c, n)) \div (Hits(c, n) + Misses(c, n)) = prec[n]
    <3>1. n \in 0 .. N /\ t[n] >= 1 /\ k \in Nat
      BY <1>2, <1>3, <1>8
    <3>2. t[n] = Hits(c, n) /\ f[n] = Misses(c, n) /\ t[n] \in Nat /\ f[n] \in Nat
      BY <1>8, <1>9, <3>1
    <3>3. t[n] + f[n] # 0
      BY <3>1, <3>2
    <3>4. prec[n] = (Unit * t[n]) \div (t[n] + f[n])
      BY <1>13, <3>3 DEF Precision
    <3> QED
      BY <3>2, <3>4
  <2>3. {(Unit * Hits(c, n)) \div (Hits(c, n) + Misses(c, n)) :
         n \in {m \in 1 .. N : Hits(c, m) >= k}}
          = {prec[n] : n \in {m \in 1 .. N : t[m] >= k}}
    BY <2>1, <2>2
  <2> QED
    BY <1>20, <2>3 DEF Best, N
<1> HIDE DEF e, terms, bests
<1>22. /\ A[0] = 0 /\ \A n \in 1 .. (N + 1) : A[n] = A[n - 1] + terms[n]
  <2>1. N + 1 \in Nat
    BY <1>2
  <2> QED
    BY <1>19, <2>1, CumulativeIs
<1>23. /\ B[0] = 0 /\ \A k \in 1 .. Hits(c, N) : B[k] = B[k - 1] + bests[k]
  BY <1>3, <1>20, CumulativeIs
<1>24. SumOf(terms) = A[N + 1] /\ SumOf(bests) = B[Hits(c, N)]
  BY <1>19, <1>20 DEF SumOf
<1>25. t[N] = Hits(c, N) /\ \A n \in 0 .. N : t[n] \in Nat
  BY <1>2, <1>8
<1> HIDE DEF A, B
<1>26. A[N + 1] = A[N] + (C - t[N]) * e[N + 1]
       /\ \A n \in 1 .. N : A[n] = A[n - 1] + (t[n] - t[n - 1]) * e[n]
  <2>1. N + 1 \in 1 .. (N + 1) /\ (N + 1) - 1 = N /\ \A n \in 1 .. N : n \in 1 .. (N + 1)
    BY <1>2
  <2> QED
    BY <1>19, <1>22, <2>1
<1>27. A[N + 1] = B[t[N]] /\ A[N + 1] \in 0 .. (Unit * C)
  <2>1. t[0] = 0 /\ t[N] <= C /\ C \in Nat /\ Unit \in Nat
    BY <1>3, <1>10, <1>25, NumbersAssumption DEF C
  <2>2. \A n \in 1 .. N : prec[n] \in 0 .. Unit
    BY <1>13
  <2>3. \A k \in 1 .. t[N] : bests[k] = LargestOf({prec[n] : n \in {m \in 1 .. N : t[m] >= k}})
    BY <1>21, <1>25
  <2>4. A[0] = 0 /\ B[0] = 0 /\ \A k \in 1 .. t[N] : B[k] = B[k - 1] + bests[k]
    BY <1>22, <1>23, <1>25
  <2> QED
    <3>1. Curve(N, H, C, Unit, t, prec, e, A, bests, B)
      BY <1>2, <1>5, <1>11, <1>18, <1>25, <1>26, <2>1, <2>2, <2>3, <2>4 DEF Curve
    <3> QED
      BY <3>1, AreaUnder
<1> QED
  BY <1>1, <1>24, <1>25, <1>27 DEF C
-----------------------------------------------------------------------------
(***************************************************************************)
(* The invariant, action by action.                                        *)
(***************************************************************************)
LEMMA SameRanked ==
  ASSUME dr' = dr
  PROVE  \A c : Ranked(c)' = Ranked(c)
<1>1. \A c : OfClass(c)' = OfClass(c)
  BY DEF OfClass, Files
<1>2. \A c, n : Sorted(c, n)' = Sorted(c, n)
  BY DEF Sorted, OfClass, Files, Sooner
<1> QED
  BY <1>1, <1>2 DEF Ranked

LEMMA NextSmallest ==
  ASSUME NEW S \in SUBSET Nat, NEW x, Above(S, x) # {}
  PROVE  /\ SmallestOf(Above(S, x)) \in S /\ SmallestOf(Above(S, x)) > x
         /\ \A y \in S : y > x => SmallestOf(Above(S, x)) <= y
<1>1. Above(S, x) \in SUBSET Nat /\ \A y : y \in Above(S, x) <=> y \in S /\ y > x
  BY DEF Above
<1>2. /\ SmallestOf(Above(S, x)) \in Above(S, x)
      /\ \A y \in Above(S, x) : SmallestOf(Above(S, x)) <= y
  BY <1>1, SmallestIs
<1> QED
  BY <1>1, <1>2

(* Images and classes are numbers, and NotYet comes before them.           *)
LEMMA NumbersOf ==
  ASSUME Types
  PROVE  /\ Images \subseteq Nat /\ Classes \subseteq Nat /\ GtClasses \in SUBSET Classes
         /\ GtClasses \in SUBSET Nat
         /\ DOMAIN gt \in SUBSET Images /\ DOMAIN gt \in SUBSET Nat
         /\ list \in SUBSET Images /\ list \in SUBSET Nat
         /\ cur \in Int /\ NotYet = -1
<1>1. Images \subseteq Nat /\ Classes \subseteq Nat
  BY ImagesAssumption
<1>2. GtClasses \in SUBSET Classes
  BY DEF GtClasses
<1>3. DOMAIN gt \in SUBSET Images
  BY GroundTruthTyped DEF Types
<1>4. list \in SUBSET Images
  BY ListsAssumption DEF Types
<1>5. NotYet = -1 /\ NotYet \in Int
  BY DEF NotYet
<1>6. cur \in Int
  BY <1>1, <1>5 DEF Types
<1> QED
  BY <1>1, <1>2, <1>3, <1>4, <1>5, <1>6

LEMMA FreshTyped ==
  ASSUME NEW k
  PROVE  /\ FreshFlags(k) \in [1 .. Len(gt[k]) -> BOOLEAN]
         /\ \A o \in 1 .. Len(gt[k]) : ~FreshFlags(k)[o]
  BY DEF FreshFlags

(* The average precisions that are kept.                                   *)
LEMMA ScoresKept ==
  ASSUME Scores, gt' = gt, found' = found, ap' = ap, tp' = tp, fp' = fp,
         pc' \notin {"match", "done"},
         pc' \in {"idle", "detect", "parse", "load"} => pc \in {"idle", "detect", "parse", "load"}
  PROVE  Scores'
<1>1. \A c : Area(c)' = Area(c) /\ Counted(c)' = Counted(c)
  BY SameVerdicts, SameCounted
<1> QED
  BY <1>1 DEF Scores, FirstClaim

LEMMA EvalInit ==
  ASSUME Init
  PROVE  FilesInv
<1>1. FoundOK /\ dr = found /\ DOMAIN used = Images /\ DOMAIN ranked = Classes
  BY DEF Init, Empty, FoundOK
<1>2. /\ \A k \in Images : used[k] = NoFile
      /\ \A c \in Classes : ranked[c] = NoFile /\ ap[c] = NotYet
  BY DEF Init, Empty
<1>3. ap \in [Classes -> Int]
  BY DEF Init, NotYet
<1>4. tp \in Seq({0, 1}) /\ fp \in Seq({0, 1}) /\ Len(tp) = Len(fp)
      /\ tp = <<>> /\ fp = <<>>
  BY DEF Init
<1>5. starts \in 0 .. MaxStarts
  BY NumbersAssumption DEF Init
<1>6. gt \in GroundTruths /\ list = {} /\ pc = "idle" /\ cur = NotYet
  BY DEF Init
<1>7. Types
  BY <1>1, <1>2, <1>3, <1>4, <1>5, <1>6 DEF Types
<1>8. OwnFiles /\ Directories /\ TempFiles
  BY <1>1, <1>6 DEF OwnFiles, Directories, TempFiles
<1>9. Scores
  BY <1>2, <1>4, <1>6 DEF Scores, FirstClaim
<1> QED
  BY <1>7, <1>8, <1>9 DEF FilesInv

LEMMA StartKeeps ==
  ASSUME FilesInv, NEW l \in Lists, Start(l)
  PROVE  FilesInv'
<1> USE DEF FilesInv
<1>1. gt' = gt /\ used' = used /\ ranked' = ranked
  BY DEF Start
<1>2. FoundOK' /\ dr' = found' /\ \A k \in Images : found'[k] = NoFile
  BY DEF Start, FreshResults, Empty, FoundOK
<1>3. /\ \A c \in Classes : ap'[c] = NotYet
      /\ ap' \in [Classes -> Int]
  BY DEF Start, NotYet
<1>4. tp' \in Seq({0, 1}) /\ fp' \in Seq({0, 1}) /\ Len(tp') = Len(fp')
      /\ tp' = <<>> /\ fp' = <<>>
  BY DEF Start
<1>5. starts' \in 0 .. MaxStarts
  BY NumbersAssumption DEF Start, Types
<1>6. list' \in Lists /\ pc' \in {"dead", "detect"} /\ cur' = NotYet
  BY DEF Start
<1>7. Types'
  BY <1>1, <1>2, <1>3, <1>4, <1>5, <1>6 DEF Types
<1>8. OwnFiles'
  <2>1. \A k \in list' : ~(k <= NotYet)
    BY <1>6, <1>7, ImagesAssumption, ListsAssumption DEF NotYet
  <2> QED
    BY <1>2, <1>6, <2>1 DEF OwnFiles
<1>9. Directories' /\ TempFiles'
  BY <1>6 DEF Directories, TempFiles
<1>10. Scores'
  BY <1>3, <1>4, <1>6 DEF Scores, FirstClaim
<1> QED
  BY <1>7, <1>8, <1>9, <1>10

LEMMA DetectKeeps ==
  ASSUME FilesInv, NEW ds \in Detections, Detect(ds)
  PROVE  FilesInv'
<1> USE DEF FilesInv
<1> DEFINE k == SmallestOf(Above(list, cur))
<1>1. pc = "detect" /\ Above(list, cur) # {}
  BY DEF Detect
<1>2. /\ gt' = gt /\ list' = list /\ used' = used /\ ranked' = ranked /\ starts' = starts
      /\ pc' = pc /\ tp' = tp /\ fp' = fp /\ ap' = ap
  BY DEF Detect, scores
<1>3. cur' = k /\ found' = [found EXCEPT ![k] = ds] /\ dr' = [dr EXCEPT ![k] = ds]
  BY DEF Detect, ResultFile
<1>4. k \in list /\ k > cur /\ \A y \in list : y > cur => k <= y
  BY <1>1, NumbersOf, NextSmallest
<1> HIDE DEF k
<1>5. k \in Images /\ k \in Nat /\ cur \in Int /\ \A y \in Images : y \in Nat
  BY <1>4, NumbersOf
<1>6. FoundOK'
  BY <1>3, <1>5 DEF FoundOK, Types
<1>7. Types'
  <2>1. cur' \in Images \cup Classes \cup {NotYet}
    BY <1>3, <1>5
  <2> QED
    BY <1>2, <1>6, <2>1 DEF Types
<1>8. OwnFiles'
  <2>1. dr' = found'
    BY <1>3 DEF OwnFiles
  <2>2. ASSUME NEW y \in Images
        PROVE  found'[y] # NoFile <=> y \in list /\ y <= k
    <3>1. CASE y = k
      <4>1. found'[y] = ds
        BY <1>3, <1>5, <3>1 DEF FoundOK, Types
      <4>2. ds # NoFile
        BY DetectionTyped
      <4> QED
        BY <1>4, <1>5, <3>1, <4>1, <4>2
    <3>2. CASE y # k
      <4>1. found'[y] = found[y]
        BY <1>3, <3>2 DEF FoundOK, Types
      <4>2. found[y] # NoFile <=> y \in list /\ y <= cur
        BY <1>1 DEF OwnFiles
      <4>3. y \in list => (y <= cur <=> y <= k)
        BY <1>4, <1>5, <3>2
      <4> QED
        BY <4>1, <4>2, <4>3
    <3> QED
      BY <3>1, <3>2
  <2> QED
    BY <1>1, <1>2, <1>3, <1>4, <2>1, <2>2 DEF OwnFiles
<1>9. Directories' /\ TempFiles'
  BY <1>1, <1>2 DEF Directories, TempFiles
<1>10. Scores'
  BY <1>1, <1>2 DEF Scores, FirstClaim
<1> QED
  BY <1>7, <1>8, <1>9, <1>10

LEMMA CheckLabelsKeeps ==
  ASSUME FilesInv, CheckLabels
  PROVE  FilesInv'
<1> USE DEF FilesInv
<1>1. pc = "detect" /\ Above(list, cur) = {} /\ pc' \in {"dead", "parse"} /\ cur' = NotYet
  BY DEF CheckLabels
<1>2. /\ gt' = gt /\ list' = list /\ found' = found /\ dr' = dr /\ used' = used
      /\ ranked' = ranked /\ starts' = starts /\ tp' = tp /\ fp' = fp /\ ap' = ap
  BY DEF CheckLabels, files, scores
<1>3. Types'
  BY <1>1, <1>2 DEF Types, FoundOK
<1>4. \A k \in list : k <= cur
  <2>1. \A k \in list : ~(k > cur)
    BY <1>1 DEF Above
  <2> QED
    BY <2>1, NumbersOf
<1>5. \A k \in DOMAIN gt : ~(k <= NotYet)
  BY NumbersOf
<1>6. OwnFiles'
  BY <1>1, <1>2, <1>4 DEF OwnFiles
<1>7. Directories' /\ TempFiles'
  BY <1>1, <1>2, <1>5 DEF Directories, TempFiles
<1>8. Scores'
  BY <1>1, <1>2, ScoresKept
<1> QED
  BY <1>3, <1>6, <1>7, <1>8

(* Whether lines parse depends on the annotations and the detections only. *)
LEMMA SameLines ==
  ASSUME gt' = gt, found' = found
  PROVE  (AnnotationsParse' <=> AnnotationsParse) /\ (DetectionsParse' <=> DetectionsParse)
BY DEF AnnotationsParse, DetectionsParse

LEMMA ParseKeeps ==
  ASSUME FilesInv, ParseGroundTruth
  PROVE  FilesInv'
<1> USE DEF FilesInv
<1> DEFINE k == SmallestOf(Above(DOMAIN gt, cur))
<1>1. pc = "parse" /\ Above(DOMAIN gt, cur) # {}
  BY DEF ParseGroundTruth
<1>2. /\ gt' = gt /\ list' = list /\ found' = found /\ dr' = dr
      /\ ranked' = ranked /\ starts' = starts /\ tp' = tp /\ fp' = fp /\ ap' = ap
  BY DEF ParseGroundTruth, scores
<1>3. \/ /\ dr[k] = NoFile \/ ~Parses(gt[k])
         /\ pc' = "exit" /\ used' = used /\ cur' = cur
      \/ /\ dr[k] # NoFile /\ used' = [used EXCEPT ![k] = FreshFlags(k)]
         /\ cur' = k /\ pc' = pc
  BY DEF ParseGroundTruth
<1>4. k \in DOMAIN gt /\ k > cur /\ \A y \in DOMAIN gt : y > cur => k <= y
  BY <1>1, NumbersOf, NextSmallest
<1> HIDE DEF k
<1>5. k \in Images /\ k \in Nat /\ cur \in Int /\ \A y \in DOMAIN gt : y \in Nat
  BY <1>4, NumbersOf
<1>6. dr[k] # NoFile <=> k \in list
  BY <1>1, <1>5 DEF OwnFiles
<1>7. Types'
  <2>1. cur' \in Images \cup Classes \cup {NotYet}
        /\ pc' \in {"idle", "detect", "parse", "load", "match", "done", "exit", "dead"}
    BY <1>1, <1>3, <1>5 DEF Types
  <2>2. DOMAIN used' = Images
    BY <1>3 DEF Types
  <2>3. ASSUME NEW y \in Images, used'[y] # NoFile
        PROVE  y \in DOMAIN gt /\ used'[y] \in [1 .. Len(gt[y]) -> BOOLEAN]
    <3>1. CASE used'[y] = used[y]
      BY <2>3, <3>1 DEF Types
    <3>2. CASE used'[y] # used[y]
      <4>1. y = k /\ used'[y] = FreshFlags(k)
        BY <1>3, <1>5, <3>2 DEF Types
      <4> QED
        BY <1>4, <4>1, FreshTyped
    <3> QED
      BY <3>1, <3>2
  <2> QED
    BY <1>2, <2>1, <2>2, <2>3 DEF Types, FoundOK
<1>8. OwnFiles'
  BY <1>1, <1>2, <1>3 DEF OwnFiles
<1>9. Directories' /\ TempFiles'
  <2>1. CASE pc' = "exit"
    <3>1. list # DOMAIN gt \/ ~Parses(gt[k])
      BY <1>1, <1>3, <1>4, <1>6, <2>1
    <3>2. list' # DOMAIN gt' \/ ~AnnotationsParse'
      BY <1>2, <1>4, <3>1, SameLines DEF AnnotationsParse
    <3> QED
      BY <2>1, <3>2 DEF Directories, TempFiles
  <2>2. CASE pc' # "exit"
    <3>1. used' = [used EXCEPT ![k] = FreshFlags(k)] /\ cur' = k /\ pc' = "parse"
      BY <1>1, <1>3, <2>2
    <3>2. ASSUME NEW y \in DOMAIN gt, y <= k
          PROVE  y \in list /\ used'[y] = FreshFlags(y)
      <4>1. CASE y = k
        BY <1>3, <1>5, <1>6, <2>2, <3>1, <4>1 DEF Types
      <4>2. CASE y # k
        <5>1. y <= cur
          BY <1>4, <1>5, <3>2, <4>2
        <5>2. used'[y] = used[y]
          BY <3>1, <4>2
        <5> QED
          BY <1>1, <5>1, <5>2 DEF Directories, TempFiles
      <4> QED
        BY <4>1, <4>2
    <3>3. \A y : FreshFlags(y)' = FreshFlags(y)
      BY <1>2, SameCounted
    <3>4. Directories'
      BY <1>2, <1>4, <3>1, <3>2 DEF Directories
    <3>5. TempFiles'
      BY <1>2, <3>1, <3>2, <3>3 DEF TempFiles
    <3> QED
      BY <3>4, <3>5
  <2> QED
    BY <2>1, <2>2
<1>10. Scores'
  BY <1>1, <1>2, <1>3, ScoresKept
<1> QED
  BY <1>7, <1>8, <1>9, <1>10

LEMMA EndParseKeeps ==
  ASSUME FilesInv, EndParse
  PROVE  FilesInv'
<1> USE DEF FilesInv
<1>1. /\ pc = "parse" /\ Above(DOMAIN gt, cur) = {} /\ cur' = NotYet
      /\ pc' = IF GtClasses = {} THEN "dead" ELSE "load"
  BY DEF EndParse
<1>2. /\ gt' = gt /\ list' = list /\ found' = found /\ dr' = dr /\ used' = used
      /\ ranked' = ranked /\ starts' = starts /\ tp' = tp /\ fp' = fp /\ ap' = ap
  BY DEF EndParse, files, scores
<1>3. Types'
  BY <1>1, <1>2 DEF Types, FoundOK
<1>4. \A k \in DOMAIN gt : k <= cur
  <2>1. \A k \in DOMAIN gt : ~(k > cur)
    BY <1>1 DEF Above
  <2> QED
    BY <2>1, NumbersOf
<1>5. \A c \in GtClasses : ~(c <= NotYet)
  BY NumbersOf
<1>6. GtClasses' = GtClasses /\ \A k : FreshFlags(k)' = FreshFlags(k)
  BY <1>2, SameCounted
<1>7. OwnFiles'
  BY <1>1, <1>2 DEF OwnFiles
<1>8. Directories'
  BY <1>1, <1>2, <1>4, <1>6 DEF Directories
<1>9. TempFiles'
  BY <1>1, <1>2, <1>4, <1>5, <1>6 DEF TempFiles
<1>10. Scores'
  BY <1>1, <1>2, ScoresKept
<1> QED
  BY <1>3, <1>7, <1>8, <1>9, <1>10

LEMMA LoadKeeps ==
  ASSUME FilesInv, LoadResults
  PROVE  FilesInv'
<1> USE DEF FilesInv
<1> DEFINE c == SmallestOf(Above(GtClasses, cur))
<1>1. pc = "load" /\ Above(GtClasses, cur) # {}
  BY DEF LoadResults
<1>2. /\ gt' = gt /\ list' = list /\ found' = found /\ dr' = dr /\ used' = used
      /\ starts' = starts /\ tp' = tp /\ fp' = fp /\ ap' = ap
  BY DEF LoadResults, scores
<1>3. \/ /\ cur = NotYet /\ ~ResultsUsable
         /\ pc' = "exit" /\ ranked' = ranked /\ cur' = cur
      \/ /\ ~(cur = NotYet /\ ~ResultsUsable)
         /\ ranked' = [ranked EXCEPT ![c] = Ranked(c)] /\ cur' = c /\ pc' = pc
  BY DEF LoadResults
<1>4. c \in GtClasses /\ c > cur /\ \A y \in GtClasses : y > cur => c <= y
  BY <1>1, NumbersOf, NextSmallest
<1> HIDE DEF c
<1>5. c \in Classes /\ c \in Nat /\ cur \in Int /\ \A y \in GtClasses : y \in Nat /\ y \in Classes
  BY <1>4, NumbersOf
<1>6. GtClasses' = GtClasses /\ \A k : FreshFlags(k)' = FreshFlags(k)
  BY <1>2, SameCounted
<1>7. \A y : Ranked(y)' = Ranked(y)
  BY <1>2, SameRanked
<1>8. Files(dr) = list
  <2>1. DOMAIN dr = Images /\ \A k \in Images : dr[k] # NoFile <=> k \in list
    BY <1>1 DEF OwnFiles, Types, FoundOK
  <2> QED
    BY <2>1, NumbersOf DEF Files
<1>9. Types'
  <2>1. cur' \in Images \cup Classes \cup {NotYet}
        /\ pc' \in {"idle", "detect", "parse", "load", "match", "done", "exit", "dead"}
    BY <1>1, <1>3, <1>5 DEF Types
  <2>2. DOMAIN ranked' = Classes
    BY <1>3 DEF Types
  <2>3. ASSUME NEW y \in Classes, ranked'[y] # NoFile, NEW n \in 1 .. Len(ranked'[y])
        PROVE  ranked'[y][n].image \in Images /\ ranked'[y][n].det.cls = y
    <3>1. CASE ranked'[y] = ranked[y]
      BY <2>3, <3>1 DEF Types
    <3>2. CASE ranked'[y] # ranked[y]
      <4>1. y = c /\ ranked'[y] = Ranked(c)
        BY <1>3, <1>5, <3>2 DEF Types
      <4>2. FoundOK /\ dr = found
        BY DEF Types, OwnFiles
      <4>3. Len(Ranked(c)) = Total(c) /\ Ranked(c) = [m \in 1 .. Total(c) |-> Entry(Nth(c, m))]
        BY <4>2, RankedIs
      <4>4. n \in 1 .. Total(c) /\ ranked'[y][n] = Entry(Nth(c, n))
        BY <4>1, <4>3
      <4>5. Nth(c, n) \in Found(c)
        BY <4>2, <4>4, Ranking DEF Total
      <4>6. Nth(c, n)[1] \in Images /\ DetOf(Nth(c, n)).cls = c
        BY <4>2, <4>5, FoundTyped
      <4> QED
        BY <4>1, <4>4, <4>6 DEF Entry
    <3> QED
      BY <3>1, <3>2
  <2> QED
    BY <1>2, <2>1, <2>2, <2>3 DEF Types, FoundOK
<1>10. OwnFiles'
  BY <1>1, <1>2, <1>3 DEF OwnFiles
<1>11. Directories'
  <2>1. CASE pc' = "exit"
    <3>1. ~ResultsUsable /\ dr = found
      BY <1>1, <1>3, <2>1 DEF OwnFiles
    <3>2. list # DOMAIN gt \/ ~DetectionsParse
      BY <1>8, <3>1 DEF ResultsUsable, DetectionsParse
    <3> QED
      BY <1>2, <2>1, <3>2, SameLines DEF Directories
  <2>2. CASE pc' = "load"
    <3>1. list \subseteq DOMAIN gt
      BY <1>1, <1>3, <1>8, <2>2 DEF Directories, ResultsUsable
    <3> QED
      BY <1>1, <1>2, <1>6, <2>2, <3>1 DEF Directories
  <2> QED
    BY <1>1, <1>3, <2>1, <2>2
<1>12. TempFiles'
  <2>1. CASE pc' = "exit"
    BY <2>1 DEF TempFiles
  <2>2. CASE pc' = "load"
    <3>1. ranked' = [ranked EXCEPT ![c] = Ranked(c)] /\ cur' = c
      BY <1>3, <2>2
    <3>2. ASSUME NEW y \in GtClasses, y <= c
          PROVE  ranked'[y] = Ranked(y)
      <4>1. CASE y = c
        BY <1>5, <3>1, <4>1 DEF Types
      <4>2. CASE y # c
        <5>1. y <= cur
          BY <1>4, <1>5, <3>2, <4>2
        <5>2. ranked'[y] = ranked[y]
          BY <3>1, <4>2
        <5> QED
          BY <1>1, <5>1, <5>2 DEF TempFiles
      <4> QED
        BY <4>1, <4>2
    <3> QED
      BY <1>1, <1>2, <1>4, <1>6, <1>7, <2>2, <3>1, <3>2 DEF TempFiles
  <2> QED
    BY <1>1, <1>3, <2>1, <2>2
<1>13. Scores'
  BY <1>1, <1>2, <1>3, ScoresKept
<1> QED
  BY <1>9, <1>10, <1>11, <1>12, <1>13

(* From here on the images with detections are the annotated ones.         *)
LEMMA MatchAnnotated ==
  ASSUME FilesInv, pc = "match"
  PROVE  /\ Annotated /\ gt \in GroundTruths /\ FoundOK /\ dr = found
         /\ \A c : Ranked(c) = [n \in 1 .. Total(c) |-> Entry(Nth(c, n))]
         /\ \A c : Len(Ranked(c)) = Total(c) /\ Total(c) \in Nat
<1>1. gt \in GroundTruths /\ FoundOK /\ dr = found
  BY DEF FilesInv, Types, OwnFiles
<1>2. Annotated
  BY DEF FilesInv, OwnFiles, Directories, Annotated
<1> QED
  BY <1>1, <1>2, RankedIs

LEMMA EndLoadKeeps ==
  ASSUME FilesInv, EndLoad
  PROVE  FilesInv'
<1> USE DEF FilesInv
<1>1. /\ pc = "load" /\ Above(GtClasses, cur) = {} /\ pc' = "match"
      /\ cur' = SmallestOf(GtClasses)
  BY DEF EndLoad
<1>2. /\ gt' = gt /\ list' = list /\ found' = found /\ dr' = dr /\ used' = used
      /\ ranked' = ranked /\ starts' = starts /\ tp' = tp /\ fp' = fp /\ ap' = ap
  BY DEF EndLoad, files, scores
<1>3. GtClasses # {} /\ cur \in GtClasses \cup {NotYet}
  BY <1>1 DEF Directories, TempFiles
<1>4. cur' \in GtClasses /\ \A c \in GtClasses : cur' <= c
  BY <1>1, <1>3, NumbersOf, SmallestIs
<1>5. \A c \in GtClasses : c <= cur
  <2>1. \A c \in GtClasses : ~(c > cur)
    BY <1>1 DEF Above
  <2> QED
    BY <2>1, NumbersOf
<1>6. cur # NotYet
  BY <1>3, <1>5, NumbersOf
<1>7. list = DOMAIN gt
  BY <1>1, <1>6 DEF Directories
<1>8. GtClasses' = GtClasses /\ \A k : FreshFlags(k)' = FreshFlags(k)
  BY <1>2, SameCounted
<1>9. \A y : Ranked(y)' = Ranked(y)
  BY <1>2, SameRanked
<1>10. Types'
  BY <1>1, <1>2, <1>4, NumbersOf DEF Types, FoundOK
<1>11. OwnFiles' /\ Directories'
  BY <1>1, <1>2, <1>3, <1>7, <1>8 DEF OwnFiles, Directories
<1>12. tp' = <<>> /\ fp' = <<>> /\ Len(tp') = 0 /\ \A c \in Classes : ap'[c] = NotYet
  BY <1>1, <1>2 DEF Scores
<1>13. TempFiles'
  <2>1. \A c \in GtClasses : ranked'[c] = Ranked(c)
    BY <1>1, <1>2, <1>5 DEF TempFiles
  <2>2. ASSUME NEW k \in DOMAIN gt
        PROVE  /\ used'[k] \in [1 .. Len(gt[k]) -> BOOLEAN]
               /\ \A o \in 1 .. Len(gt[k]) : ~used'[k][o]
    <3>1. used'[k] = FreshFlags(k)
      BY <1>1, <1>2 DEF TempFiles
    <3> QED
      BY <3>1, FreshTyped
  <2>3. \A k, o : ~Claimed(cur, Len(tp), k, o)'
    BY <1>12 DEF Claimed
  <2> QED
    BY <1>1, <1>2, <1>4, <1>8, <1>9, <2>1, <2>2, <2>3 DEF TempFiles
<1>14. Scores'
  <2>1. FirstClaim'
    BY <1>12 DEF FirstClaim
  <2>2. Len(tp') <= Total(cur)'
    <3>1. Total(cur') \in Nat
      BY Ranking DEF Total, Types
    <3>2. Total(cur)' = Total(cur')
      BY <1>2, SameFound
    <3> QED
      BY <1>12, <3>1, <3>2
  <2>3. \A c \in Classes : ap'[c] # NotYet <=> c \in GtClasses /\ c < cur'
    <3>1. \A c \in GtClasses : ~(c < cur')
      BY <1>4, NumbersOf
    <3> QED
      BY <1>12, <3>1
  <2> QED
    BY <1>1, <1>8, <1>12, <2>1, <2>2, <2>3 DEF Scores
<1> QED
  BY <1>10, <1>11, <1>13, <1>14

(* The verdict of the next detection is the one its rank gives it.         *)
LEMMA VerdictIs ==
  ASSUME FilesInv, pc = "match", NEW n \in 1 .. Total(cur), n = Len(tp) + 1
  PROVE  LET p == Nth(cur, n) IN
         /\ ranked[cur][n] = Entry(p)
         /\ Verdict(Entry(p)) = "tp" <=> IsHit(cur, n)
         /\ Verdict(Entry(p)) = "fp" <=> IsMiss(cur, n)
         /\ Claims(p) => /\ p[1] \in DOMAIN gt /\ p[1] \in Images
                         /\ BestObject(Entry(p)) \in 1 .. Len(gt[p[1]])
                         /\ gt[p[1]][BestObject(Entry(p))].cls = cur
                         /\ used[p[1]][BestObject(Entry(p))] <=>
                              Claimed(cur, Len(tp), p[1], BestObject(Entry(p)))
<1> DEFINE p == Nth(cur, n)
           e == Entry(p)
           o == BestObject(e)
<1>1. /\ Annotated /\ gt \in GroundTruths /\ FoundOK
      /\ Ranked(cur) = [m \in 1 .. Total(cur) |-> Entry(Nth(cur, m))]
  BY MatchAnnotated
<1>2. ranked[cur][n] = e
  <2>1. ranked[cur] = Ranked(cur)
    BY DEF FilesInv, TempFiles
  <2> QED
    BY <1>1, <2>1
<1>3. p \in Found(cur)
  BY <1>1, Ranking DEF Total
<1>4. e.image = p[1]
  BY DEF Entry
<1>5. Taken(cur, p) <=> Claimed(cur, n - 1, p[1], o)
  BY <1>1, TakenIs
<1>6. n - 1 = Len(tp)
  <2>1. Len(tp) \in Nat
    BY LenProperties DEF FilesInv, Types
  <2> QED
    BY <2>1
<1>7. IsHit(cur, n) <=> Claims(p) /\ ~Taken(cur, p)
  BY DEF IsHit
<1>8. IsMiss(cur, n) <=> ~Overlaps(e) \/ (Claims(p) /\ Taken(cur, p))
  BY DEF IsMiss
<1>9. Claims(p) <=> Overlaps(e) /\ ~gt[p[1]][o].difficult
  BY DEF Claims
<1> HIDE DEF p, e, o
<1>10. ASSUME Claims(p)
       PROVE  /\ p[1] \in DOMAIN gt /\ p[1] \in Images
              /\ o \in 1 .. Len(gt[p[1]]) /\ gt[p[1]][o].cls = cur
              /\ used[p[1]][o] <=> Claimed(cur, Len(tp), p[1], o)
  <2>1. p[1] \in DOMAIN gt /\ o \in 1 .. Len(gt[p[1]]) /\ gt[p[1]][o].cls = cur
    BY <1>1, <1>3, <1>10, ClaimIs DEF o, e
  <2>2. p[1] \in Images
    BY <1>1, <2>1, GroundTruthTyped
  <2>3. used[p[1]][o] <=> Claimed(cur, Len(tp), p[1], o)
    BY <2>1 DEF FilesInv, TempFiles
  <2> QED
    BY <2>1, <2>2, <2>3
<1>11. Verdict(e) = IF ~Overlaps(e) THEN "fp"
                    ELSE IF gt[p[1]][o].difficult THEN "neither"
                    ELSE IF used[p[1]][o] THEN "fp" ELSE "tp"
  BY <1>4 DEF Verdict, o
<1>12. CASE ~Overlaps(e)
  BY <1>2, <1>7, <1>8, <1>9, <1>11, <1>12 DEF p, e
<1>13. CASE Overlaps(e) /\ ~Claims(p)
  <2>1. Verdict(e) = "neither"
    BY <1>9, <1>11, <1>13
  <2> QED
    BY <1>2, <1>7, <1>8, <1>13, <2>1 DEF p, e
<1>14. CASE Claims(p)
  <2>1. Verdict(e) = IF Taken(cur, p) THEN "fp" ELSE "tp"
    BY <1>5, <1>6, <1>9, <1>10, <1>11, <1>14
  <2>2. (Verdict(e) = "tp" <=> IsHit(cur, n)) /\ (Verdict(e) = "fp" <=> IsMiss(cur, n))
    BY <1>7, <1>8, <1>9, <1>14, <2>1
  <2> QED
    BY <1>2, <1>10, <1>14, <2>2 DEF p, e, o
<1> QED
  BY <1>9, <1>12, <1>13, <1>14

LEMMA MatchKeeps ==
  ASSUME FilesInv, MatchDetection
  PROVE  FilesInv'
<1> USE DEF FilesInv
<1> DEFINE n == Len(tp) + 1
           p == Nth(cur, n)
           e == ranked[cur][n]
           o == BestObject(Entry(p))
           k == p[1]
<1>1. pc = "match" /\ Len(tp) < Len(ranked[cur])
  BY DEF MatchDetection
<1>2. /\ gt' = gt /\ list' = list /\ found' = found /\ dr' = dr /\ ranked' = ranked
      /\ starts' = starts /\ pc' = pc /\ cur' = cur /\ ap' = ap
  BY DEF MatchDetection
<1>3. /\ tp' = Append(tp, One(Verdict(e) = "tp"))
      /\ fp' = Append(fp, One(Verdict(e) = "fp"))
      /\ used' = IF Verdict(e) = "tp"
                 THEN [used EXCEPT ![e.image][BestObject(e)] = TRUE] ELSE used
  BY DEF MatchDetection
<1>4. /\ tp \in Seq({0, 1}) /\ fp \in Seq({0, 1}) /\ Len(tp) = Len(fp) /\ Len(tp) \in Nat
      /\ cur \in GtClasses
  BY <1>1, LenProperties DEF Types, TempFiles
<1>5. /\ Total(cur) \in Nat /\ Len(ranked[cur]) = Total(cur)
      /\ n \in 1 .. Total(cur) /\ n \in Nat
  <2>1. Total(cur) \in Nat /\ Len(Ranked(cur)) = Total(cur) /\ ranked[cur] = Ranked(cur)
    BY <1>1, <1>4, MatchAnnotated DEF TempFiles
  <2> QED
    BY <1>1, <1>4, <2>1
<1>6. /\ e = Entry(p)
      /\ Verdict(e) = "tp" <=> IsHit(cur, n)
      /\ Verdict(e) = "fp" <=> IsMiss(cur, n)
      /\ Claims(p) => /\ k \in DOMAIN gt /\ k \in Images /\ o \in 1 .. Len(gt[k])
                      /\ gt[k][o].cls = cur
                      /\ used[k][o] <=> Claimed(cur, Len(tp), k, o)
  BY <1>1, <1>5, VerdictIs
<1>7. e.image = k /\ BestObject(e) = o
  BY <1>6 DEF Entry
<1> HIDE DEF e, o, k
<1>8. /\ used' = IF IsHit(cur, n) THEN [used EXCEPT ![k][o] = TRUE] ELSE used
      /\ tp' = Append(tp, One(IsHit(cur, n))) /\ fp' = Append(fp, One(IsMiss(cur, n)))
  BY <1>3, <1>6, <1>7 DEF One
<1>9. /\ One(IsHit(cur, n)) \in {0, 1} /\ One(IsMiss(cur, n)) \in {0, 1}
      /\ One(IsHit(cur, n)) = 1 <=> IsHit(cur, n)
      /\ One(IsMiss(cur, n)) = 1 <=> IsMiss(cur, n)
  BY DEF One
<1>10. /\ tp' \in Seq({0, 1}) /\ Len(tp') = n /\ \A m \in 1 .. Len(tp) : tp'[m] = tp[m]
       /\ tp'[n] = One(IsHit(cur, n))
  BY <1>4, <1>8, <1>9, AppendProperties
<1>11. /\ fp' \in Seq({0, 1}) /\ Len(fp') = n /\ \A m \in 1 .. Len(tp) : fp'[m] = fp[m]
       /\ fp'[n] = One(IsMiss(cur, n))
  BY <1>4, <1>8, <1>9, AppendProperties
<1>12. IsHit(cur, n) => Claims(p)
  BY DEF IsHit
<1>13. \A y \in DOMAIN gt : y \in Images
  BY MatchAnnotated, <1>1, GroundTruthTyped
<1>14. /\ DOMAIN used' = Images
       /\ \A y \in Images : y # k => used'[y] = used[y]
       /\ IsHit(cur, n) => used'[k] = [used[k] EXCEPT ![o] = TRUE]
       /\ ~IsHit(cur, n) => used' = used
  <2>1. CASE IsHit(cur, n)
    <3>1. k \in Images
      BY <1>6, <1>12, <2>1
    <3> QED
      BY <1>8, <2>1, <3>1 DEF Types
  <2>2. CASE ~IsHit(cur, n)
    BY <1>8, <2>2 DEF Types
  <2> QED
    BY <2>1, <2>2
<1> HIDE DEF p
<1>15. ASSUME NEW y \in DOMAIN gt
       PROVE  /\ used'[y] \in [1 .. Len(gt[y]) -> BOOLEAN]
              /\ \A i \in 1 .. Len(gt[y]) :
                   used'[y][i] <=> used[y][i] \/ (IsHit(cur, n) /\ y = k /\ i = o)
  <2>1. used[y] \in [1 .. Len(gt[y]) -> BOOLEAN]
    BY <1>1 DEF TempFiles
  <2>2. CASE IsHit(cur, n) /\ y = k
    <3>1. used'[y] = [used[y] EXCEPT ![o] = TRUE] /\ o \in 1 .. Len(gt[y])
      BY <1>6, <1>12, <1>14, <2>2
    <3> QED
      BY <2>1, <2>2, <3>1
  <2>3. CASE ~(IsHit(cur, n) /\ y = k)
    <3>1. used'[y] = used[y]
      BY <1>13, <1>14, <2>3
    <3> QED
      BY <2>1, <2>3, <3>1
  <2> QED
    BY <2>2, <2>3
<1>16. Types'
  <2>1. ASSUME NEW y \in Images, used'[y] # NoFile
        PROVE  y \in DOMAIN gt /\ used'[y] \in [1 .. Len(gt[y]) -> BOOLEAN]
    <3>1. CASE y \in DOMAIN gt
      BY <1>15, <3>1
    <3>2. CASE y \notin DOMAIN gt
      <4>1. used'[y] = used[y]
        BY <1>6, <1>12, <1>14, <3>2
      <4> QED
        BY <2>1, <3>2, <4>1 DEF Types
    <3> QED
      BY <3>1, <3>2
  <2>2. Len(tp') = Len(fp')
    BY <1>10, <1>11
  <2> QED
    BY <1>2, <1>10, <1>11, <1>14, <2>1, <2>2 DEF Types, FoundOK
<1>17. OwnFiles' /\ Directories'
  <2>1. GtClasses' = GtClasses
    BY <1>2, SameCounted
  <2> QED
    BY <1>1, <1>2, <2>1 DEF OwnFiles, Directories
<1>18. ASSUME NEW y, NEW i
       PROVE  Claimed(cur, n, y, i) <=>
                Claimed(cur, Len(tp), y, i) \/ (Claims(p) /\ y = k /\ i = o)
  <2>1. \A m : m \in 1 .. n <=> m \in 1 .. Len(tp) \/ m = n
    BY <1>4
  <2> QED
    BY <2>1 DEF Claimed, p, k, o
<1>19. TempFiles'
  <2>1. GtClasses' = GtClasses /\ \A y : Ranked(y)' = Ranked(y)
    BY <1>2, SameCounted, SameRanked
  <2>2. ASSUME NEW y \in DOMAIN gt, NEW i \in 1 .. Len(gt[y])
        PROVE  /\ gt[y][i].cls = cur => (used'[y][i] <=> Claimed(cur, n, y, i))
               /\ gt[y][i].cls > cur => ~used'[y][i]
    <3>1. /\ gt[y][i].cls = cur => (used[y][i] <=> Claimed(cur, Len(tp), y, i))
          /\ gt[y][i].cls > cur => ~used[y][i]
      BY <1>1 DEF TempFiles
    <3>2. used'[y][i] <=> used[y][i] \/ (IsHit(cur, n) /\ y = k /\ i = o)
      BY <1>15
    <3>3. CASE y = k /\ i = o /\ Claims(p)
      <4>1. gt[y][i].cls = cur /\ cur \in Int
        BY <1>6, <3>3, NumbersOf
      <4>2. ~(gt[y][i].cls > cur)
        BY <4>1
      <4>3. Claimed(cur, n, y, i)
        BY <1>18, <3>3
      <4>4. used'[y][i]
        <5>1. CASE IsHit(cur, n)
          BY <3>2, <3>3, <5>1
        <5>2. CASE ~IsHit(cur, n)
          <6>1. Taken(cur, p)
            BY <3>3, <5>2 DEF IsHit, p
          <6>2. FoundOK
            BY DEF Types
          <6>3. Claimed(cur, n - 1, k, o)
            BY <1>5, <6>1, <6>2, TakenIs DEF p, k, o
          <6>4. n - 1 = Len(tp)
            BY <1>4
          <6> QED
            BY <3>1, <3>2, <3>3, <4>1, <6>3, <6>4
        <5> QED
          BY <5>1, <5>2
      <4> QED
        BY <4>2, <4>3, <4>4
    <3>4. CASE ~(y = k /\ i = o /\ Claims(p))
      <4>1. used'[y][i] <=> used[y][i]
        BY <1>12, <3>2, <3>4
      <4>2. Claimed(cur, n, y, i) <=> Claimed(cur, Len(tp), y, i)
        BY <1>18, <3>4
      <4> QED
        BY <3>1, <4>1, <4>2
    <3> QED
      BY <3>3, <3>4
  <2>3. \A y, i : Claimed(cur, Len(tp), y, i)' <=> Claimed(cur, n, y, i)
    <3>1. \A c, m, y, i : Claimed(c, m, y, i)' <=> Claimed(c, m, y, i)
      BY <1>2, SameVerdicts
    <3> HIDE DEF n
    <3> QED
      BY <1>2, <1>10, <3>1
  <2>4. \A c \in GtClasses : ranked[c] = Ranked(c)
    BY <1>1 DEF TempFiles
  <2> HIDE DEF n
  <2> QED
    BY <1>1, <1>2, <1>4, <1>15, <2>1, <2>2, <2>3, <2>4 DEF TempFiles
<1>20. Scores'
  <2>1. ASSUME NEW m \in 1 .. n
        PROVE  (tp'[m] = 1 <=> IsHit(cur, m)) /\ (fp'[m] = 1 <=> IsMiss(cur, m))
    <3>1. CASE m = n
      BY <1>9, <1>10, <1>11, <3>1
    <3>2. CASE m # n
      <4>1. m \in 1 .. Len(tp)
        BY <1>4, <3>2
      <4> QED
        BY <1>1, <1>10, <1>11, <4>1 DEF Scores, FirstClaim
    <3> QED
      BY <3>1, <3>2
  <2>2. /\ \A c, m : (IsHit(c, m)' <=> IsHit(c, m)) /\ (IsMiss(c, m)' <=> IsMiss(c, m))
        /\ \A c : Area(c)' = Area(c) /\ Counted(c)' = Counted(c) /\ Total(c)' = Total(c)
        /\ GtClasses' = GtClasses
    BY <1>2, SameVerdicts, SameCounted, SameFound
  <2>3. FirstClaim'
    <3>1. ASSUME NEW m \in 1 .. Len(tp')
          PROVE  (tp'[m] = 1 <=> IsHit(cur, m)') /\ (fp'[m] = 1 <=> IsMiss(cur, m)')
      <4>1. m \in 1 .. n
        BY <1>10
      <4> QED
        BY <1>2, <2>1, <2>2, <4>1
    <3> QED
      BY <3>1 DEF FirstClaim
  <2>4. Len(tp') <= Total(cur)
    BY <1>5, <1>10
  <2>5. Total(cur)' = Total(cur)
    BY <1>2, <2>2
  <2> HIDE DEF n
  <2> QED
    BY <1>1, <1>2, <2>2, <2>3, <2>4, <2>5 DEF Scores
<1> QED
  BY <1>16, <1>17, <1>19, <1>20

LEMMA EndClassKeeps ==
  ASSUME FilesInv, EndClass
  PROVE  FilesInv'
<1> USE DEF FilesInv
<1> DEFINE last == Above(GtClasses, cur) = {}
           c2 == SmallestOf(Above(GtClasses, cur))
<1>1. /\ pc = "match" /\ Len(tp) = Len(ranked[cur])
      /\ ap' = [ap EXCEPT ![cur] = VocAp(cur, tp, fp)]
  BY DEF EndClass
<1>2. /\ gt' = gt /\ list' = list /\ found' = found /\ dr' = dr /\ starts' = starts
  BY DEF EndClass
<1>3. ~last => /\ cur' = c2 /\ tp' = <<>> /\ fp' = <<>>
               /\ used' = used /\ ranked' = ranked /\ pc' = pc
  BY DEF EndClass
<1>4. last => /\ pc' = "done" /\ used' = Empty(Images) /\ ranked' = Empty(Classes)
              /\ tp' = tp /\ fp' = fp /\ cur' = cur
  BY DEF EndClass
<1>5. cur \in GtClasses /\ cur \in Classes /\ cur \in Nat
      /\ \A c \in GtClasses : c \in Nat /\ c \in Classes
  BY <1>1, NumbersOf DEF TempFiles
<1>6. ~last => c2 \in GtClasses /\ c2 > cur /\ \A y \in GtClasses : y > cur => c2 <= y
  BY NumbersOf, NextSmallest
<1>6a. ASSUME ~last
       PROVE  /\ c2 \in GtClasses /\ c2 \in Nat /\ c2 > cur /\ cur \in Nat
              /\ \A y \in GtClasses : y > cur => c2 <= y
  <2>1. c2 \in GtClasses
    BY <1>6, <1>6a, Zenon
  <2>2. c2 > cur /\ \A y \in GtClasses : y > cur => c2 <= y
    BY <1>6, <1>6a, Zenon
  <2>3. c2 \in Nat /\ cur \in Nat
    BY <1>5, <2>1
  <2> QED
    BY <2>1, <2>2, <2>3
<1>7. last => \A y \in GtClasses : y <= cur
  <2>1. last => \A y \in GtClasses : ~(y > cur)
    BY DEF Above
  <2> QED
    BY <1>5, <2>1
<1> HIDE DEF last, c2
<1>8. /\ GtClasses' = GtClasses /\ \A c : Ranked(c)' = Ranked(c)
      /\ \A c : Area(c)' = Area(c) /\ Counted(c)' = Counted(c)
  BY <1>2, SameCounted, SameRanked, SameVerdicts
<1>9. /\ Annotated /\ gt \in GroundTruths /\ FoundOK
      /\ Total(cur) \in Nat /\ Len(tp) = Total(cur) /\ Len(fp) = Total(cur)
  <2>1. /\ Annotated /\ gt \in GroundTruths /\ FoundOK
        /\ Total(cur) \in Nat /\ Len(Ranked(cur)) = Total(cur)
    BY <1>1, MatchAnnotated
  <2>2. ranked[cur] = Ranked(cur) /\ Len(tp) = Len(fp)
    BY <1>1, <1>5 DEF TempFiles, Types
  <2> QED
    BY <1>1, <2>1, <2>2
<1>10. \A n \in 1 .. Total(cur) : /\ tp[n] = IF IsHit(cur, n) THEN 1 ELSE 0
                                  /\ fp[n] = IF IsMiss(cur, n) THEN 1 ELSE 0
  <2>1. \A n \in 1 .. Total(cur) : tp[n] \in {0, 1} /\ fp[n] \in {0, 1}
    BY <1>9, LenProperties DEF Types
  <2>2. \A n \in 1 .. Total(cur) : (tp[n] = 1 <=> IsHit(cur, n)) /\ (fp[n] = 1 <=> IsMiss(cur, n))
    BY <1>1, <1>9 DEF Scores, FirstClaim
  <2> QED
    BY <2>1, <2>2
<1>11. VocAp(cur, tp, fp) = Area(cur) /\ Area(cur) \in 0 .. (Unit * Counted(cur))
  BY <1>9, <1>10, VocApIs
<1>12. Area(cur) \in Int /\ Area(cur) # NotYet
  <2>1. Unit * Counted(cur) \in Nat
    <3>1. Unit \in Nat /\ Counted(cur) \in Nat
      BY <1>9, CountedFinite, NumbersAssumption
    <3> QED
      BY <3>1
  <2> QED
    BY <1>11, <2>1 DEF NotYet
<1>13. /\ ap' \in [Classes -> Int] /\ ap'[cur] = Area(cur)
       /\ \A c \in Classes : c # cur => ap'[c] = ap[c]
  BY <1>1, <1>5, <1>11, <1>12 DEF Types
<1>14. Types'
  <2>1. CASE last
    <3>1. /\ DOMAIN used' = Images /\ DOMAIN ranked' = Classes
          /\ \A k \in Images : used'[k] = NoFile
          /\ \A c \in Classes : ranked'[c] = NoFile
      BY <1>4, <2>1 DEF Empty
    <3> QED
      BY <1>2, <1>4, <1>13, <2>1, <3>1 DEF Types, FoundOK
  <2>2. CASE ~last
    <3>1. cur' \in Classes
      BY <1>3, <1>5, <1>6, <2>2
    <3>2. tp' \in Seq({0, 1}) /\ fp' \in Seq({0, 1}) /\ Len(tp') = Len(fp')
      BY <1>3, <2>2
    <3> QED
      BY <1>2, <1>3, <1>13, <2>2, <3>1, <3>2 DEF Types, FoundOK
  <2> QED
    BY <2>1, <2>2
<1>15. OwnFiles'
  BY <1>1, <1>2, <1>3, <1>4 DEF OwnFiles
<1>16. Directories'
  BY <1>1, <1>2, <1>3, <1>4, <1>8 DEF Directories
<1>17. TempFiles'
  <2>1. CASE last
    BY <1>4, <2>1 DEF TempFiles
  <2>2. CASE ~last
    <3>1. pc' = "match" /\ cur' = c2 /\ Len(tp') = 0 /\ used' = used /\ ranked' = ranked
      BY <1>1, <1>3, <2>2
    <3>2. \A y, i : ~Claimed(cur, Len(tp), y, i)'
      BY <3>1 DEF Claimed
    <3>3. ASSUME NEW y \in DOMAIN gt
          PROVE  /\ used[y] \in [1 .. Len(gt[y]) -> BOOLEAN]
                 /\ \A i \in 1 .. Len(gt[y]) : gt[y][i].cls > cur => ~used[y][i]
      BY <1>1 DEF TempFiles
    <3>4. ASSUME NEW y \in DOMAIN gt, NEW i \in 1 .. Len(gt[y]), gt[y][i].cls >= c2
          PROVE  ~used[y][i]
      <4>1. gt[y][i].cls \in Int
        <5>1. gt[y][i] \in Object
          BY <1>9, GroundTruthTyped
        <5> QED
          BY <5>1, ObjectClass
      <4>2. gt[y][i].cls > cur
        BY <1>6a, <2>2, <3>4, <4>1
      <4> QED
        BY <3>3, <4>2
    <3>5. c2 \in Int
      BY <1>6a, <2>2
    <3>6. \A y \in DOMAIN gt : \A i \in 1 .. Len(gt[y]) :
            /\ gt[y][i].cls = c2 => ~used[y][i]
            /\ gt[y][i].cls > c2 => ~used[y][i]
      <4>1. ASSUME NEW y \in DOMAIN gt, NEW i \in 1 .. Len(gt[y])
            PROVE  gt[y][i].cls \in Int
        <5>1. gt[y][i] \in Object
          BY <1>9, GroundTruthTyped
        <5> QED
          BY <5>1, ObjectClass
      <4> QED
        BY <3>4, <3>5, <4>1
    <3>7. \A c \in GtClasses : ranked[c] = Ranked(c)
      BY <1>1 DEF TempFiles
    <3> QED
      BY <1>2, <1>6, <1>8, <2>2, <3>1, <3>2, <3>3, <3>6, <3>7 DEF TempFiles
  <2> QED
    BY <2>1, <2>2
<1>18. Scores'
  <2>1. \A c \in Classes : ap'[c] # NotYet <=> c \in GtClasses /\ c <= cur
    <3> SUFFICES ASSUME NEW c \in Classes
                 PROVE  ap'[c] # NotYet <=> c \in GtClasses /\ c <= cur
      OBVIOUS
    <3>1. CASE c = cur
      BY <1>5, <1>12, <1>13, <3>1
    <3>2. CASE c # cur
      <4>1. ap'[c] = ap[c] /\ (ap[c] # NotYet <=> c \in GtClasses /\ c < cur)
        BY <1>1, <1>13, <3>2 DEF Scores
      <4>2. c \in GtClasses => (c < cur <=> c <= cur)
        BY <1>5, <3>2
      <4> QED
        BY <4>1, <4>2
    <3> QED
      BY <3>1, <3>2
  <2>2. \A c \in Classes : ap'[c] # NotYet =>
          ap'[c] = Area(c) /\ ap'[c] \in 0 .. (Unit * Counted(c))
    <3> SUFFICES ASSUME NEW c \in Classes, ap'[c] # NotYet
                 PROVE  ap'[c] = Area(c) /\ ap'[c] \in 0 .. (Unit * Counted(c))
      OBVIOUS
    <3>1. CASE c = cur
      BY <1>11, <1>13, <3>1
    <3>2. CASE c # cur
      BY <1>13, <3>2 DEF Scores
    <3> QED
      BY <3>1, <3>2
  <2>3. CASE last
    <3>1. pc' = "done" /\ \A c \in GtClasses : c <= cur
      BY <1>4, <1>7, <2>3
    <3>2. \A c \in Classes : ap'[c] # NotYet <=> c \in GtClasses
      BY <2>1, <3>1
    <3>3. FirstClaim'
      BY <3>1 DEF FirstClaim
    <3> QED
      BY <1>8, <2>2, <3>1, <3>2, <3>3 DEF Scores
  <2>4. CASE ~last
    <3>1. pc' = "match" /\ cur' = c2 /\ Len(tp') = 0
      BY <1>1, <1>3, <2>4
    <3>2. FirstClaim'
      BY <3>1 DEF FirstClaim
    <3>3. Len(tp') <= Total(cur)'
      <4>1. Total(cur') \in Nat
        BY <1>9, Ranking DEF Total
      <4>2. Total(cur)' = Total(cur')
        BY <1>2, SameFound
      <4> QED
        BY <3>1, <4>1, <4>2
    <3>4. \A c \in Classes : ap'[c] # NotYet <=> c \in GtClasses /\ c < c2
      <4>1. \A c \in GtClasses : c <= cur <=> c < c2
        BY <1>5, <1>6a, <2>4
      <4> QED
        BY <2>1, <4>1
    <3> QED
      BY <1>8, <2>2, <3>1, <3>2, <3>3, <3>4 DEF Scores
  <2> QED
    BY <2>3, <2>4
<1> QED
  BY <1>14, <1>15, <1>16, <1>17, <1>18

LEMMA KillKeeps ==
  ASSUME FilesInv, Kill
  PROVE  FilesInv'
<1> USE DEF FilesInv
<1>1. pc' = "dead"
  BY DEF Kill
<1>2. /\ gt' = gt /\ list' = list /\ found' = found /\ dr' = dr /\ used' = used
      /\ ranked' = ranked /\ starts' = starts /\ cur' = cur /\ tp' = tp /\ fp' = fp /\ ap' = ap
  BY DEF Kill, files, scores
<1>3. Types'
  BY <1>1, <1>2 DEF Types, FoundOK
<1>4. OwnFiles' /\ Directories' /\ TempFiles'
  BY <1>1, <1>2 DEF OwnFiles, Directories, TempFiles
<1>5. Scores'
  BY <1>1, <1>2, ScoresKept
<1> QED
  BY <1>3, <1>4, <1>5

LEMMA StutterKeeps ==
  ASSUME FilesInv, UNCHANGED vars
  PROVE  FilesInv'
<1> USE DEF FilesInv
<1>1. /\ gt' = gt /\ list' = list /\ found' = found /\ dr' = dr /\ used' = used
      /\ ranked' = ranked /\ starts' = starts /\ pc' = pc /\ cur' = cur
      /\ tp' = tp /\ fp' = fp /\ ap' = ap
  BY DEF vars, files, scores
<1>2. /\ GtClasses' = GtClasses /\ \A c : Ranked(c)' = Ranked(c)
      /\ \A c : Area(c)' = Area(c) /\ Counted(c)' = Counted(c) /\ Total(c)' = Total(c)
      /\ \A c, n : (IsHit(c, n)' <=> IsHit(c, n)) /\ (IsMiss(c, n)' <=> IsMiss(c, n))
      /\ \A c, n, k, o : Claimed(c, n, k, o)' <=> Claimed(c, n, k, o)
      /\ \A k : FreshFlags(k)' = FreshFlags(k)
  BY <1>1, SameCounted, SameRanked, SameVerdicts, SameFound
<1>3. Types' /\ OwnFiles'
  BY <1>1 DEF Types, FoundOK, OwnFiles
<1>4. Directories'
  <2>1. (AnnotationsParse' <=> AnnotationsParse) /\ (DetectionsParse' <=> DetectionsParse)
    BY <1>1, SameLines
  <2> QED
    BY <1>1, <1>2, <2>1 DEF Directories
<1>5. TempFiles'
  BY <1>1, <1>2 DEF TempFiles
<1>6. FirstClaim'
  BY <1>1, <1>2 DEF Scores, FirstClaim
<1>7. Len(tp) <= Total(cur) => Len(tp') <= Total(cur)'
  BY <1>1, <1>2
<1>8. Scores'
  BY <1>1, <1>2, <1>6, <1>7 DEF Scores
<1> QED
  BY <1>3, <1>4, <1>5, <1>8
-----------------------------------------------------------------------------
(***************************************************************************)
(* The theorems.                                                           *)
(***************************************************************************)
LEMMA EvalStep ==
  ASSUME FilesInv, [Next]_vars
  PROVE  FilesInv'
<1>1. ASSUME NEW ds \in Detections, Detect(ds)
      PROVE  FilesInv'
  BY <1>1, DetectKeeps
<1>2. ASSUME NEW l \in Lists, Start(l)
      PROVE  FilesInv'
  BY <1>2, StartKeeps
<1>3. CASE CheckLabels
  BY <1>3, CheckLabelsKeeps
<1>4. CASE ParseGroundTruth
  BY <1>4, ParseKeeps
<1>5. CASE EndParse
  BY <1>5, EndParseKeeps
<1>6. CASE LoadResults
  BY <1>6, LoadKeeps
<1>7. CASE EndLoad
  BY <1>7, EndLoadKeeps
<1>8. CASE MatchDetection
  BY <1>8, MatchKeeps
<1>9. CASE EndClass
  BY <1>9, EndClassKeeps
<1>10. CASE Kill
  BY <1>10, KillKeeps
<1>11. CASE UNCHANGED vars
  BY <1>11, StutterKeeps
<1> QED
  BY <1>1, <1>2, <1>3, <1>4, <1>5, <1>6, <1>7, <1>8, <1>9, <1>10, <1>11 DEF Next, Step

(* `error` has left when a line did not parse, so whoever is further has   *)
(* read only lines that do.                                                *)
LEMMA ReadingsStep ==
  ASSUME FilesInv, Readings, [Next]_vars
  PROVE  Readings'
<1> USE DEF Readings
<1>1. CASE ParseGroundTruth
  <2> DEFINE k == SmallestOf(Above(DOMAIN gt, cur))
  <2>1. /\ pc = "parse" /\ Above(DOMAIN gt, cur) # {} /\ gt' = gt
        /\ \/ pc' = "exit"
           \/ pc' = "parse" /\ cur' = k /\ Parses(gt[k])
    BY <1>1 DEF ParseGroundTruth
  <2>2. k \in DOMAIN gt /\ k > cur /\ \A y \in DOMAIN gt : y > cur => k <= y
    BY <2>1, NumbersOf, NextSmallest DEF FilesInv
  <2>3. cur \in Int /\ \A y \in DOMAIN gt : y \in Nat
    BY NumbersOf DEF FilesInv
  <2> HIDE DEF k
  <2>4. \A y \in DOMAIN gt : y <= k => y = k \/ y <= cur
    BY <2>2, <2>3
  <2> QED
    BY <2>1, <2>4
<1>2. CASE EndParse
  <2>1. /\ pc = "parse" /\ Above(DOMAIN gt, cur) = {} /\ gt' = gt
        /\ cur' = NotYet /\ pc' \in {"dead", "load"}
    BY <1>2 DEF EndParse
  <2>2. \A k \in DOMAIN gt : k <= cur
    BY <2>1, NumbersOf DEF Above, FilesInv
  <2> QED
    BY <2>1, <2>2 DEF AnnotationsParse
<1>3. CASE LoadResults
  <2>1. /\ pc = "load" /\ gt' = gt /\ found' = found
        /\ pc' = "exit" \/ (pc' = "load" /\ (cur # NotYet \/ ResultsUsable))
    BY <1>3 DEF LoadResults
  <2>2. ResultsUsable => DetectionsParse
    BY DEF ResultsUsable, DetectionsParse, FilesInv, OwnFiles
  <2>3. (AnnotationsParse' <=> AnnotationsParse) /\ (DetectionsParse' <=> DetectionsParse)
    BY <2>1 DEF AnnotationsParse, DetectionsParse
  <2> QED
    BY <2>1, <2>2, <2>3
<1>4. CASE EndLoad
  <2>1. /\ pc = "load" /\ pc' = "match" /\ gt' = gt /\ found' = found
        /\ Above(GtClasses, cur) = {}
    BY <1>4 DEF EndLoad
  <2>2. GtClasses # {} /\ \A c \in GtClasses : c \in Nat /\ c > NotYet
    BY <2>1, NumbersOf DEF FilesInv, Directories
  <2>3. cur # NotYet
    BY <2>1, <2>2 DEF Above
  <2>4. (AnnotationsParse' <=> AnnotationsParse) /\ (DetectionsParse' <=> DetectionsParse)
    BY <2>1 DEF AnnotationsParse, DetectionsParse
  <2> QED
    BY <2>1, <2>3, <2>4
<1>5. CASE MatchDetection \/ EndClass \/ UNCHANGED vars
  <2>1. /\ pc' = pc \/ (pc = "match" /\ pc' = "done")
        /\ pc # "match" => cur' = cur
        /\ gt' = gt /\ found' = found
    BY <1>5 DEF MatchDetection, EndClass, vars
  <2>2. (AnnotationsParse' <=> AnnotationsParse) /\ (DetectionsParse' <=> DetectionsParse)
    BY <2>1 DEF AnnotationsParse, DetectionsParse
  <2> QED
    BY <2>1, <2>2
<1>6. CASE CheckLabels
  <2>1. gt' = gt /\ cur' = NotYet /\ pc' \in {"dead", "parse"}
    BY <1>6 DEF CheckLabels
  <2>2. \A k \in DOMAIN gt : ~(k <= NotYet)
    BY NumbersOf DEF FilesInv
  <2> QED
    BY <2>1, <2>2
<1>7. ASSUME Kill \/ (\E ds \in Detections : Detect(ds)) \/ \E l \in Lists : Start(l)
      PROVE  Readings'
  BY <1>7 DEF Kill, Detect, Start
<1> QED
  BY <1>1, <1>2, <1>3, <1>4, <1>5, <1>6, <1>7 DEF Next, Step

(* The files of detection-results/ and .temp_files/ that an evaluation     *)
(* reads are its own, and the flags and scores are those of its detections *)
(* (eval.py:186-253, map.py:384-760).                                      *)
THEOREM EvalInvariant == Spec => []EvalInv
<1>1. Init => EvalInv
  BY EvalInit DEF EvalInv, Init, Readings
<1>2. EvalInv /\ [Next]_vars => EvalInv'
  BY EvalStep, ReadingsStep DEF EvalInv
<1> QED
  BY <1>1, <1>2, PTL DEF Spec

(* The variables keep their types; the average precision of a class stays  *)
(* between 0 and 1 (eval.py:177-270, map.py:286-760).                      *)
THEOREM TypeOKHolds == Spec => []TypeOK
<1>1. EvalInv => TypeOK
  <2> SUFFICES ASSUME EvalInv
               PROVE  TypeOK
    OBVIOUS
  <2>1. \A k \in Images : /\ found[k] \in Detections \cup {NoFile}
                          /\ dr[k] \in Detections \cup {NoFile}
    BY DEF EvalInv, FilesInv, Types, OwnFiles, FoundOK
  <2>2. \A c \in Classes : ap[c] = NotYet \/ ap[c] \in 0 .. (Unit * Counted(c))
    BY DEF EvalInv, FilesInv, Scores
  <2> QED
    BY <2>1, <2>2 DEF EvalInv, FilesInv, Types, TypeOK
<1> QED
  BY <1>1, EvalInvariant, PTL

(* The "used" flags count no object twice: a detection is a true positive  *)
(* exactly when it is the best ranked one that claims its object           *)
(* (map.py:535-625).                                                       *)
THEOREM FirstClaimHolds == Spec => []FirstClaim
<1>1. EvalInv => FirstClaim
  BY DEF EvalInv, FilesInv, Scores
<1> QED
  BY <1>1, EvalInvariant, PTL

(* What voc_ap returns from the cumulative counts is, for each object      *)
(* found, the best precision at which at least that many are, summed       *)
(* (map.py:103-140, 684-706).                                              *)
THEOREM ApIsAreaHolds == Spec => []ApIsArea
<1>1. EvalInv => ApIsArea
  <2> SUFFICES ASSUME EvalInv
               PROVE  ApIsArea
    OBVIOUS
  <2>1. \A c \in Classes : ap[c] # NotYet => ap[c] = Area(c)
    BY DEF EvalInv, FilesInv, Scores
  <2> QED
    BY <2>1 DEF ApIsArea, Area, Best, Hits, Misses, Total
<1> QED
  BY <1>1, EvalInvariant, PTL

(* A mAP is only returned over the images of the test list, each with its  *)
(* ground truth and every line understood, and `error` only leaves when    *)
(* the directories name different images or a line does not parse          *)
(* (eval.py:186-251, map.py:388-411, 489-503).                             *)
THEOREM SameImagesHolds == Spec => []SameImages
<1>1. EvalInv => SameImages
  BY DEF EvalInv, FilesInv, Directories, Scores, Readings, SameImages
<1> QED
  BY <1>1, EvalInvariant, PTL
=============================================================================
