---------------------------- MODULE CpuNmsProofs ----------------------------
(* The loops of cpu_nms are the greedy suppression, for any number of      *)
(* boxes, any scores and any overlap relation.                             *)
EXTENDS CpuNms, TLAPS

KeptRanks == {a \in Boxes : order[a] \in Kept}
Hits(a, b) == <<order[a], order[b]>> \in overlap
HitBy(S, b) == \E a \in S : Hits(a, b)
Decided == IF pc = "inner" THEN i + 1 ELSE i

(* `suppressed` is right for every box still to be decided, except that in *)
(* the inner loop the boxes from j on have not yet met the box just kept.  *)
LoopInv ==
  /\ TypeOK
  /\ \A a \in KeptRanks : a < Decided
  /\ pc = "outer" => \A b \in i .. (N - 1) :
                       suppressed[order[b]] <=> HitBy(KeptRanks, b)
  /\ pc = "inner" =>
       /\ i \in KeptRanks /\ j > i
       /\ \A b \in (i + 1) .. (N - 1) :
            suppressed[order[b]] <=>
              HitBy(IF b < j THEN KeptRanks ELSE KeptRanks \ {i}, b)

LEMMA OrderFacts ==
  ASSUME TypeOK
  PROVE  /\ \A a \in Boxes : order[a] \in Boxes
         /\ \A a, b \in Boxes : order[a] = order[b] => a = b
  BY DEF TypeOK, Orders, Bijection, Injection, IsInjective

LEMMA LoopInit == Init => LoopInv
  BY NAssumption DEF Init, LoopInv, TypeOK, Boxes, KeptRanks, Kept, HitBy

LEMMA LoopStep == LoopInv /\ [Next]_vars => LoopInv'
<1> SUFFICES ASSUME LoopInv, [Next]_vars PROVE LoopInv'
  OBVIOUS
<1> USE NAssumption
<1>t. TypeOK /\ i \in 0 .. N /\ j \in 0 .. N /\ N \in Nat
  BY DEF LoopInv, TypeOK
<1>1. CASE UNCHANGED vars
  <2>1. UNCHANGED <<scores, overlap, order, suppressed, keep, pc, i, j>>
    BY <1>1 DEF vars
  <2>2. /\ TypeOK' /\ UNCHANGED <<KeptRanks, Decided>>
        /\ \A S, b : HitBy(S, b)' <=> HitBy(S, b)
    BY <2>1, <1>t DEF TypeOK, KeptRanks, Kept, HitBy, Hits, Decided
  <2> QED
    BY <2>1, <2>2 DEF LoopInv
<1>2. CASE SkipSuppressed
  <2>1. /\ pc = "outer" /\ pc' = "outer" /\ i < N /\ i' = i + 1
        /\ UNCHANGED <<scores, overlap, order, suppressed, keep, j>>
    BY <1>2 DEF SkipSuppressed
  <2>2. TypeOK'
    BY <1>t, <2>1 DEF TypeOK
  <2>3. KeptRanks' = KeptRanks /\ \A b : HitBy(KeptRanks, b)' <=> HitBy(KeptRanks, b)
    BY <2>1 DEF KeptRanks, Kept, HitBy, Hits
  <2>4. \A a \in KeptRanks : a \in Boxes /\ a < i
    BY <2>1 DEF LoopInv, KeptRanks, Decided
  <2>5. \A b \in i' .. (N - 1) : suppressed'[order'[b]] <=> HitBy(KeptRanks, b)'
    BY <1>t, <2>1, <2>3 DEF LoopInv
  <2>6. \A a \in KeptRanks' : a < Decided'
    BY <1>t, <2>1, <2>3, <2>4 DEF Decided, Boxes
  <2> QED
    BY <2>1, <2>2, <2>5, <2>6 DEF LoopInv
<1>3. CASE KeepBox
  <2>1. /\ pc = "outer" /\ pc' = "inner" /\ i < N /\ i' = i /\ j' = i + 1
        /\ keep' = Append(keep, order[i])
        /\ UNCHANGED <<scores, overlap, order, suppressed>>
    BY <1>3 DEF KeepBox, FirstRival
  <2>2. i \in Boxes /\ order[i] \in Boxes /\ keep \in Seq(Boxes)
    BY <1>t, <2>1, OrderFacts DEF Boxes, TypeOK
  <2>3. TypeOK'
    BY <1>t, <2>1, <2>2 DEF TypeOK
  <2>4. Kept' = Kept \cup {order[i]}
    BY <2>1, <2>2 DEF Kept
  <2>5. KeptRanks' = KeptRanks \cup {i}
    BY <1>t, <2>1, <2>2, <2>4, OrderFacts DEF KeptRanks
  <2>6. \A a \in KeptRanks : a \in Boxes /\ a < i
    BY <2>1 DEF LoopInv, KeptRanks, Decided
  <2>7. KeptRanks' \ {i'} = KeptRanks
    BY <1>t, <2>1, <2>5, <2>6 DEF Boxes
  <2>8. \A a \in KeptRanks' : a < Decided'
    BY <1>t, <2>1, <2>5, <2>6 DEF Decided, Boxes
  <2>9. ASSUME NEW b \in (i + 1) .. (N - 1)
         PROVE  suppressed'[order'[b]] <=>
                  HitBy(IF b < j THEN KeptRanks ELSE KeptRanks \ {i}, b)'
    <3>1. ~(b < j')
      BY <1>t, <2>1
    <3>2. suppressed[order[b]] <=> HitBy(KeptRanks, b)
      BY <1>t, <2>1 DEF LoopInv
    <3>3. HitBy(KeptRanks, b) <=> HitBy(KeptRanks' \ {i'}, b)
      BY <2>7
    <3>4. HitBy(KeptRanks' \ {i'}, b) <=>
            HitBy(IF b < j THEN KeptRanks ELSE KeptRanks \ {i}, b)'
      BY <2>1, <3>1 DEF HitBy, Hits
    <3> QED
      BY <2>1, <3>2, <3>3, <3>4
  <2>10. i' \in KeptRanks' /\ j' > i'
    BY <1>t, <2>1, <2>5
  <2> QED
    BY <2>1, <2>3, <2>8, <2>9, <2>10 DEF LoopInv
<1>4. CASE CompareBox
  <2>1. /\ pc = "inner" /\ pc' = "inner" /\ j < N /\ j' = j + 1 /\ i' = i
        /\ suppressed' = AfterOverlap
        /\ UNCHANGED <<scores, overlap, order, keep>>
    BY <1>4 DEF CompareBox
  <2>2. /\ i \in Boxes /\ j \in Boxes /\ order[j] \in Boxes /\ i < j
        /\ suppressed \in [Boxes -> BOOLEAN]
    BY <1>t, <2>1, OrderFacts DEF Boxes, TypeOK, LoopInv
  <2>3. TypeOK'
    BY <1>t, <2>1, <2>2 DEF TypeOK, AfterOverlap
  <2>4. KeptRanks' = KeptRanks /\ \A S, b : HitBy(S, b)' <=> HitBy(S, b)
    BY <2>1 DEF KeptRanks, Kept, HitBy, Hits
  <2>5. ASSUME NEW b \in (i + 1) .. (N - 1)
        PROVE  suppressed'[order[b]] <=>
                 HitBy(IF b < j + 1 THEN KeptRanks ELSE KeptRanks \ {i}, b)
    <3>1. b \in Boxes /\ order[b] \in Boxes
      BY <1>t, <2>2, OrderFacts DEF Boxes
    <3>2. suppressed[order[b]] <=>
            HitBy(IF b < j THEN KeptRanks ELSE KeptRanks \ {i}, b)
      BY <2>1 DEF LoopInv
    <3>3. CASE b = j
      <4>1. suppressed'[order[j]] <=> (suppressed[order[j]] \/ Hits(i, j))
        BY <2>1, <2>2 DEF AfterOverlap, Hits
      <4>2. i \in KeptRanks
        BY <2>1 DEF LoopInv
      <4>3. ~(b < j) /\ b < j + 1
        BY <1>t, <3>3
      <4> QED
        BY <3>2, <3>3, <4>1, <4>2, <4>3 DEF HitBy
    <3>4. CASE b # j
      <4>1. order[b] # order[j]
        BY <1>t, <2>2, <3>1, <3>4, OrderFacts
      <4>2. suppressed'[order[b]] = suppressed[order[b]]
        BY <2>1, <2>2, <3>1, <4>1 DEF AfterOverlap
      <4>3. b < j <=> b < j + 1
        BY <1>t, <3>4, <3>1 DEF Boxes
      <4> QED
        BY <3>2, <4>2, <4>3
    <3> QED
      BY <3>3, <3>4
  <2>6. \A a \in KeptRanks' : a < Decided'
    BY <2>1, <2>4 DEF LoopInv, Decided
  <2>7. i \in KeptRanks' /\ j' > i'
    BY <1>t, <2>1, <2>2, <2>4 DEF LoopInv
  <2> QED
    BY <2>1, <2>3, <2>4, <2>5, <2>6, <2>7 DEF LoopInv
<1>5. CASE InnerDone
  <2>1. /\ pc = "inner" /\ pc' = "outer" /\ j >= N /\ i' = i + 1
        /\ UNCHANGED <<scores, overlap, order, suppressed, keep, j>>
    BY <1>5 DEF InnerDone
  <2>2. i < N
    BY <2>1 DEF LoopInv, TypeOK
  <2>3. TypeOK'
    BY <1>t, <2>1, <2>2 DEF TypeOK
  <2>4. KeptRanks' = KeptRanks /\ \A S, b : HitBy(S, b)' <=> HitBy(S, b)
    BY <2>1 DEF KeptRanks, Kept, HitBy, Hits
  <2>5. \A b \in (i + 1) .. (N - 1) : suppressed[order[b]] <=> HitBy(KeptRanks, b)
    <3>1. \A b \in (i + 1) .. (N - 1) : b < j
      BY <1>t, <2>1
    <3> QED
      BY <2>1, <3>1 DEF LoopInv
  <2>6. \A a \in KeptRanks' : a < Decided'
    BY <2>1, <2>4 DEF LoopInv, Decided
  <2> QED
    BY <2>1, <2>3, <2>4, <2>5, <2>6 DEF LoopInv
<1> QED
  BY <1>1, <1>2, <1>3, <1>4, <1>5 DEF Next

(***************************************************************************)
(* The greedy suppression.                                                 *)
(***************************************************************************)
(* Of the boxes decided so far, nx, those kept, kp, are the ones that none *)
(* kept before them suppresses, ov being the overlaps.                     *)
Maximal(ov, nx, kp) ==
  /\ nx \in 0 .. N
  /\ kp \in SUBSET (0 .. (nx - 1))
  /\ \A b \in 0 .. (nx - 1) : b \in kp <=> ~\E a \in kp : a < b /\ <<a, b>> \in ov

(* One more box is decided.                                                *)
LEMMA TurnKeepsMaximal ==
  ASSUME NEW ov, NEW nx, NEW kp, Maximal(ov, nx, kp), nx < N,
         NEW kq, kq = IF \E a \in kp : <<a, nx>> \in ov THEN kp ELSE kp \cup {nx}
  PROVE  Maximal(ov, nx + 1, kq)
<1>1. nx \in 0 .. (N - 1) /\ nx \in Nat /\ N \in Nat /\ kq \in {kp, kp \cup {nx}}
  BY NAssumption DEF Maximal
<1>2. nx + 1 \in 0 .. N /\ kq \in SUBSET (0 .. ((nx + 1) - 1))
  BY <1>1 DEF Maximal
<1>3. ASSUME NEW b \in 0 .. ((nx + 1) - 1)
      PROVE  b \in kq <=> ~\E a \in kq : a < b /\ <<a, b>> \in ov
  <2>1. \A a : a < b /\ a \in kq => a \in kp
    BY <1>1, <1>3 DEF Maximal
  <2>2. CASE b < nx
    BY <1>1, <2>1, <2>2 DEF Maximal
  <2>3. CASE b = nx
    <3>1. \A a \in kp : a < nx
      BY <1>1 DEF Maximal
    <3>2. nx \notin kp
      BY <1>1, <3>1
    <3>3. CASE \E a \in kp : <<a, nx>> \in ov
      <4>1. kq = kp
        BY <3>3
      <4> QED
        BY <2>3, <3>1, <3>2, <3>3, <4>1
    <3>4. CASE ~\E a \in kp : <<a, nx>> \in ov
      <4>1. kq = kp \cup {nx}
        BY <3>4
      <4> QED
        BY <2>1, <2>3, <3>4, <4>1
    <3> QED
      BY <3>3, <3>4
  <2>4. b < nx \/ b = nx
    BY <1>1
  <2> QED
    BY <2>2, <2>3, <2>4
<1> QED
  BY <1>2, <1>3 DEF Maximal

(***************************************************************************)
(* The refinement.                                                         *)
(***************************************************************************)
LEMMA GreedyInit == Init => Greedy!GInit
  BY NAssumption DEF Init, Greedy!GInit, Greedy!Ranks, Boxes, Kept

LEMMA GreedyStep ==
  LoopInv /\ LoopInv' /\ [Next]_vars => [Greedy!Decide]_(Greedy!gvars)
<1> SUFFICES ASSUME LoopInv, LoopInv', [Next]_vars
             PROVE  [Greedy!Decide]_(Greedy!gvars)
  OBVIOUS
<1> USE NAssumption
<1>t. TypeOK /\ i \in 0 .. N /\ j \in 0 .. N /\ N \in Nat
  BY DEF LoopInv, TypeOK
<1>1. CASE UNCHANGED vars \/ CompareBox \/ InnerDone
  <2>1. UNCHANGED <<order, overlap, Kept, Decided>>
    BY <1>1 DEF vars, CompareBox, InnerDone, Kept, Decided
  <2> QED
    BY <2>1 DEF Greedy!gvars, Decided
<1>2. CASE SkipSuppressed
  <2>1. /\ pc = "outer" /\ pc' = "outer" /\ i < N /\ i' = i + 1
        /\ suppressed[order[i]]
        /\ UNCHANGED <<overlap, order, Kept>>
    BY <1>2 DEF SkipSuppressed, Kept
  <2>2. HitBy(KeptRanks, i) /\ i \in Boxes
    BY <1>t, <2>1 DEF LoopInv, Boxes
  <2>3. Greedy!Suppressed(i)
    BY <2>2 DEF Greedy!Suppressed, HitBy, Hits, KeptRanks
  <2>4. Greedy!Decide
    BY <2>1, <2>3 DEF Greedy!Decide
  <2> QED
    BY <2>4
<1>3. CASE KeepBox
  <2>1. /\ pc = "outer" /\ pc' = "inner" /\ i < N /\ i' = i
        /\ ~suppressed[order[i]] /\ keep' = Append(keep, order[i])
        /\ UNCHANGED <<overlap, order>>
    BY <1>3 DEF KeepBox
  <2>2. i \in Boxes /\ order[i] \in Boxes /\ keep \in Seq(Boxes)
    BY <1>t, <2>1, OrderFacts DEF Boxes, TypeOK
  <2>3. ~HitBy(KeptRanks, i)
    BY <1>t, <2>1, <2>2 DEF LoopInv, Boxes
  <2>4. ~Greedy!Suppressed(i)
    BY <2>2, <2>3 DEF Greedy!Suppressed, HitBy, Hits, KeptRanks
  <2>5. Kept' = Kept \cup {order[i]}
    BY <2>1, <2>2 DEF Kept
  <2>6. {a \in Boxes : order'[a] \in Kept'} = {a \in Boxes : order[a] \in Kept} \cup {i}
    BY <1>t, <2>1, <2>2, <2>5, OrderFacts
  <2>7. Greedy!Decide
    BY <2>1, <2>4, <2>6 DEF Greedy!Decide
  <2> QED
    BY <2>7
<1> QED
  BY <1>1, <1>2, <1>3 DEF Next

(* The variables keep their types (cpu_nms.pyx:142-186).                   *)
THEOREM CpuNmsTypes == Spec => []TypeOK
<1>1. LoopInv => TypeOK
  BY DEF LoopInv
<1> QED
  BY <1>1, LoopInit, LoopStep, PTL DEF Spec

(* The loop nest over `order` and `suppressed` decides the boxes one by    *)
(* one by descending score, as GreedyNms does (cpu_nms.pyx:163-186).       *)
THEOREM CpuNmsIsGreedy == Spec => ImplementsGreedy
<1>1. Spec => []LoopInv
  BY LoopInit, LoopStep, PTL DEF Spec
<1> QED
  BY <1>1, GreedyInit, GreedyStep, PTL DEF Spec, ImplementsGreedy, Greedy!GSpec

(* For every number of boxes and every overlap relation the greedy         *)
(* suppression keeps exactly the boxes no kept one suppresses              *)
(* (cpu_nms.pyx:162-186).                                                  *)
THEOREM GreedyIsMaximal == Greedy!GSpec => []Greedy!IndependentAndMaximal
<1> DEFINE ov == {p \in Boxes \X Boxes : <<order[p[1]], order[p[2]]>> \in overlap}
           nx == IF pc = "inner" THEN i + 1 ELSE i
           kp == {a \in Boxes : order[a] \in Kept}
           GInv == Maximal(ov, nx, kp)
<1>1. Greedy!GInit => GInv
  BY NAssumption DEF Greedy!GInit, Maximal
<1>2. GInv /\ [Greedy!Decide]_(Greedy!gvars) => GInv'
  <2> SUFFICES ASSUME GInv, [Greedy!Decide]_(Greedy!gvars)
               PROVE  GInv'
    OBVIOUS
  <2>1. CASE UNCHANGED Greedy!gvars
    <3>1. ov' = ov /\ nx' = nx /\ kp' = kp
      BY <2>1 DEF Greedy!gvars
    <3> HIDE DEF ov, nx, kp
    <3> QED
      BY <3>1 DEF Maximal
  <2>2. CASE Greedy!Decide
    <3>1. /\ nx < N /\ nx' = nx + 1 /\ ov' = ov
          /\ kp' = IF \E a \in kp : <<a, nx>> \in ov THEN kp ELSE kp \cup {nx}
      BY <2>2 DEF Greedy!Decide, Greedy!Suppressed
    <3> HIDE DEF ov, nx, kp
    <3>2. Maximal(ov, nx + 1, kp')
      BY <3>1, TurnKeepsMaximal
    <3> QED
      BY <3>1, <3>2 DEF Maximal
  <2> QED
    BY <2>1, <2>2
<1>3. GInv => Greedy!IndependentAndMaximal
  BY DEF Maximal, Greedy!IndependentAndMaximal
<1> HIDE DEF GInv
<1> QED
  BY <1>1, <1>2, <1>3, PTL DEF Greedy!GSpec

(* At every point of the loops a decided box is kept exactly when no kept  *)
(* box before it suppresses it (cpu_nms.pyx:165-184).                      *)
THEOREM CpuNmsIndependent == Spec => []KeptIndependent
  BY CpuNmsIsGreedy, GreedyIsMaximal, PTL DEF ImplementsGreedy, KeptIndependent

(***************************************************************************)
(* The result.                                                             *)
(***************************************************************************)
(* The boxes of `keep` were decided in the order of their ranks.           *)
Ascending ==
  /\ \A k \in 1 .. Len(keep) : \E a \in Boxes : order[a] = keep[k] /\ a < Decided
  /\ \A k \in 2 .. Len(keep) :
       \E a, b \in Boxes : order[a] = keep[k - 1] /\ order[b] = keep[k] /\ a < b

LEMMA AscendingInit == Init => Ascending
  BY DEF Init, Ascending

LEMMA AscendingStep == LoopInv /\ Ascending /\ [Next]_vars => Ascending'
<1> SUFFICES ASSUME LoopInv, Ascending, [Next]_vars PROVE Ascending'
  OBVIOUS
<1> USE NAssumption
<1>t. TypeOK /\ i \in 0 .. N /\ j \in 0 .. N /\ N \in Nat
  BY DEF LoopInv, TypeOK
<1>1. CASE UNCHANGED vars \/ CompareBox \/ InnerDone
  <2>1. UNCHANGED <<order, keep, Decided>>
    BY <1>1 DEF vars, CompareBox, InnerDone, Decided
  <2> QED
    BY <2>1 DEF Ascending
<1>2. CASE SkipSuppressed
  <2>1. UNCHANGED <<order, keep>> /\ Decided = i /\ Decided' = i + 1
    BY <1>2 DEF SkipSuppressed, Decided
  <2>2. \A a \in Boxes : a < Decided => a < Decided'
    BY <1>t, <2>1 DEF Boxes
  <2> QED
    BY <2>1, <2>2 DEF Ascending
<1>3. CASE KeepBox
  <2>1. /\ keep' = Append(keep, order[i]) /\ order' = order
        /\ i < N /\ Decided = i /\ Decided' = i + 1
    BY <1>3 DEF KeepBox, Decided
  <2>2. i \in Boxes /\ order[i] \in Boxes /\ keep \in Seq(Boxes)
    BY <1>t, <2>1, OrderFacts DEF Boxes, TypeOK
  <2>3. /\ Len(keep) \in Nat /\ Len(keep') = Len(keep) + 1
        /\ \A k \in 1 .. Len(keep) : keep'[k] = keep[k]
        /\ keep'[Len(keep) + 1] = order[i]
    BY <2>1, <2>2
  <2>4. ASSUME NEW k \in 1 .. Len(keep')
        PROVE  \E a \in Boxes : order[a] = keep'[k] /\ a < i + 1
    <3>1. CASE k \in 1 .. Len(keep)
      <4>1. PICK a \in Boxes : order[a] = keep[k] /\ a < i
        BY <2>1, <3>1 DEF Ascending
      <4> QED
        BY <1>t, <2>3, <3>1, <4>1 DEF Boxes
    <3>2. CASE k = Len(keep) + 1
      BY <1>t, <2>2, <2>3, <3>2
    <3> QED
      BY <2>3, <3>1, <3>2
  <2>5. ASSUME NEW k \in 2 .. Len(keep')
        PROVE  \E a, b \in Boxes : order[a] = keep'[k - 1] /\ order[b] = keep'[k] /\ a < b
    <3>1. CASE k \in 2 .. Len(keep)
      <4>1. k \in 1 .. Len(keep) /\ k - 1 \in 1 .. Len(keep)
        BY <2>3, <3>1
      <4> QED
        BY <2>3, <3>1, <4>1 DEF Ascending
    <3>2. CASE k = Len(keep) + 1
      <4>1. k - 1 = Len(keep) /\ Len(keep) \in 1 .. Len(keep)
        BY <2>3, <3>2
      <4>2. PICK a \in Boxes : order[a] = keep[Len(keep)] /\ a < i
        BY <2>1, <4>1 DEF Ascending
      <4> QED
        BY <2>2, <2>3, <3>2, <4>1, <4>2
    <3> QED
      BY <2>3, <3>1, <3>2
  <2> QED
    BY <2>1, <2>4, <2>5 DEF Ascending
<1> QED
  BY <1>1, <1>2, <1>3 DEF Next

(* Up to the box at hand the order is descending between any two ranks;    *)
(* argsort promises no more than that neighbours are in order.             *)
DescendingUpTo(n) ==
  \A a, b \in Boxes : a <= b /\ b <= n => scores[order[b]] <= scores[order[a]]

LEMMA NextDescends ==
  ASSUME TypeOK, NEW n \in Nat, DescendingUpTo(n)
  PROVE  DescendingUpTo(n + 1)
<1> USE NAssumption, ScoresAssumption
<1>1. /\ \A k \in 1 .. (N - 1) : scores[order[k]] <= scores[order[k - 1]]
      /\ \A a \in Boxes : scores[order[a]] \in Int
  BY OrderFacts DEF TypeOK, Orders
<1>2. ASSUME NEW a \in Boxes, NEW b \in Boxes, a <= b, b = n + 1, a # b
      PROVE  scores[order[b]] <= scores[order[a]]
  <2>1. n \in Boxes /\ a <= n /\ b \in 1 .. (N - 1) /\ b - 1 = n
    BY <1>2 DEF Boxes
  <2>2. scores[order[b]] <= scores[order[n]] /\ scores[order[n]] <= scores[order[a]]
    BY <1>1, <1>2, <2>1 DEF DescendingUpTo
  <2> QED
    BY <1>1, <2>1, <2>2
<1> QED
  BY <1>1, <1>2 DEF DescendingUpTo, Boxes

LEMMA DescendingInit == LoopInv /\ Init => DescendingUpTo(i)
<1> SUFFICES ASSUME LoopInv, Init PROVE DescendingUpTo(i)
  OBVIOUS
<1>1. i = 0 /\ \A a \in Boxes : scores[order[a]] \in Int
  BY OrderFacts, ScoresAssumption DEF LoopInv, TypeOK, Init
<1> QED
  BY <1>1, NAssumption DEF DescendingUpTo, Boxes

LEMMA DescendingStep ==
  LoopInv /\ DescendingUpTo(i) /\ [Next]_vars => DescendingUpTo(i)'
<1> SUFFICES ASSUME LoopInv, DescendingUpTo(i), [Next]_vars
             PROVE  DescendingUpTo(i)'
  OBVIOUS
<1>1. /\ UNCHANGED <<scores, order>> /\ i' \in {i, i + 1}
      /\ i \in Nat /\ TypeOK
  BY NAssumption DEF Next, vars, SkipSuppressed, KeepBox, CompareBox, InnerDone,
     LoopInv, TypeOK
<1>2. DescendingUpTo(i + 1)
  BY <1>1, NextDescends
<1> QED
  BY <1>1, <1>2 DEF DescendingUpTo

(* Among boxes that suppress each other the best score survives: a dropped *)
(* box has a kept one, scoring no less, that suppresses it, and the boxes  *)
(* returned are in descending order of score (cpu_nms.pyx:154, 163-186).   *)
THEOREM CpuBestSurvives == Spec => []BestSurvives
<1>1. LoopInv /\ Ascending /\ DescendingUpTo(i) /\ KeptIndependent => BestSurvives
  <2> SUFFICES ASSUME LoopInv, Ascending, DescendingUpTo(i), KeptIndependent, i = N
               PROVE  BestSurvives
    BY DEF BestSurvives
  <2> USE NAssumption
  <2>1. /\ TypeOK /\ pc = "outer" /\ Decided = N
    BY DEF LoopInv, TypeOK, Decided
  <2>2. \A a, b \in Boxes : a <= b => scores[order[b]] <= scores[order[a]]
    BY DEF DescendingUpTo, Boxes
  <2>3. ASSUME NEW b \in Boxes \ Kept
        PROVE  \E a \in Kept : <<a, b>> \in overlap /\ scores[a] >= scores[b]
    <3>1. PICK r \in Boxes : order[r] = b
      BY <2>1, <2>3 DEF TypeOK, Orders, Bijection, Surjection
    <3>2. PICK q \in KeptRanks : q < r /\ Hits(q, r)
      <4>1. r \in 0 .. (N - 1) /\ r \notin KeptRanks
        BY <2>3, <3>1 DEF Boxes, KeptRanks
      <4> QED
        BY <2>1, <4>1 DEF KeptIndependent, Greedy!IndependentAndMaximal, KeptRanks, Hits
    <3>3. q \in Boxes /\ q <= r /\ order[q] \in Kept
      BY <3>2 DEF KeptRanks, Boxes
    <3>4. scores[order[r]] <= scores[order[q]]
      BY <2>2, <3>1, <3>3
    <3>5. scores[order[q]] \in Int /\ scores[order[r]] \in Int
      BY <2>1, <3>1, <3>3, OrderFacts, ScoresAssumption DEF TypeOK
    <3> QED
      BY <3>1, <3>2, <3>3, <3>4, <3>5 DEF Hits
  <2>4. \A k \in 2 .. Len(keep) : scores[keep[k]] <= scores[keep[k - 1]]
    BY <2>2 DEF Ascending, Boxes
  <2> QED
    BY <2>3, <2>4 DEF BestSurvives
<1>2. Spec => []LoopInv
  BY LoopInit, LoopStep, PTL DEF Spec
<1>3. Spec => []Ascending
  BY <1>2, AscendingInit, AscendingStep, PTL DEF Spec
<1>4. Spec => [](DescendingUpTo(i))
  BY <1>2, DescendingInit, DescendingStep, PTL DEF Spec
<1> QED
  BY <1>1, <1>2, <1>3, <1>4, CpuNmsIndependent, PTL
=============================================================================
