---------------------------- MODULE GpuNmsProofs ----------------------------
(* The barrier of rotate_nms_kernel does its work, and kernel and host are *)
(* the greedy suppression, for any number of boxes, any block size and any *)
(* interleaving of the threads.                                            *)
EXTENDS GpuNms, TLAPS

Past == {"mask", "exit"}

ThreadTypes ==
  /\ shared \in [Blocks -> [Threads -> Int]]
  /\ at \in [Blocks -> [Threads -> {"load", "sync", "mask", "exit"}]]

(* A thread that has loaded has filled its slot, and no thread of a block  *)
(* is past the barrier while another has yet to reach it.                  *)
BarrierInv ==
  /\ ThreadTypes
  /\ \A b \in Blocks, t \in Threads :
       at[b][t] # "load" /\ t < ColSize(b) => shared[b][t] = b[2] * T + t
  /\ \A b \in Blocks, t, u \in Threads :
       at[b][t] \in Past => at[b][u] \in Past

LEMMA BlockFacts ==
  /\ \A b \in Blocks, t \in Int : b[2] * T + t \in Int
  /\ \A b \in Blocks : ColSize(b) \in Int /\ ColSize(b) <= T
<1>1. T \in Nat /\ N \in Nat /\ ColBlocks \in Int
  BY NAssumption, TAssumption DEF ColBlocks
<1>2. \A b \in Blocks : b[2] \in Int
  BY <1>1 DEF Blocks, Cols
<1>3. \A b \in Blocks : b[2] * T \in Int
  BY <1>1, <1>2
<1> QED
  BY <1>1, <1>3 DEF ColSize, SmallerOf

LEMMA BarrierInit == Init => BarrierInv
  BY DEF Init, BarrierInv, ThreadTypes, Junk, Past

LEMMA BarrierStep == BarrierInv /\ [Next]_vars => BarrierInv'
<1> SUFFICES ASSUME BarrierInv, [Next]_vars PROVE BarrierInv'
  OBVIOUS
<1>t. ThreadTypes
  BY DEF BarrierInv
<1>1. CASE UNCHANGED <<shared, at>>
  BY <1>1 DEF BarrierInv, ThreadTypes
<1>2. ASSUME NEW b \in Blocks, NEW t \in Threads, Load(b, t)
      PROVE  BarrierInv'
  <2>1. /\ at[b][t] = "load"
        /\ shared' = IF t < ColSize(b)
                     THEN [shared EXCEPT ![b][t] = b[2] * T + t] ELSE shared
        /\ at' = [at EXCEPT ![b][t] = "sync"]
    BY <1>2 DEF Load
  <2>2. ThreadTypes'
    <3>1. b[2] * T + t \in Int
      BY BlockFacts DEF Threads
    <3>2. [shared EXCEPT ![b][t] = b[2] * T + t] \in [Blocks -> [Threads -> Int]]
      BY <1>t, <3>1 DEF ThreadTypes
    <3>3. shared' \in [Blocks -> [Threads -> Int]]
      BY <1>t, <2>1, <3>2 DEF ThreadTypes
    <3>4. at' \in [Blocks -> [Threads -> {"load", "sync", "mask", "exit"}]]
      BY <1>t, <2>1 DEF ThreadTypes
    <3> QED
      BY <3>3, <3>4 DEF ThreadTypes
  <2>3. \A c \in Blocks, u \in Threads :
          <<c, u>> # <<b, t>> => at'[c][u] = at[c][u] /\ shared'[c][u] = shared[c][u]
    BY <1>t, <2>1 DEF ThreadTypes
  <2>4. at'[b][t] = "sync" /\ (t < ColSize(b) => shared'[b][t] = b[2] * T + t)
    BY <1>t, <2>1 DEF ThreadTypes
  <2>5. \A u \in Threads : at[b][u] \notin Past
    BY <2>1 DEF BarrierInv, Past
  <2>6. \A c \in Blocks, u \in Threads :
          at'[c][u] # "load" /\ u < ColSize(c) => shared'[c][u] = c[2] * T + u
    BY <2>3, <2>4 DEF BarrierInv
  <2>7. \A c \in Blocks, u, v \in Threads : at'[c][u] \in Past => at'[c][v] \in Past
    BY <2>3, <2>4, <2>5 DEF BarrierInv, Past
  <2> QED
    BY <2>2, <2>6, <2>7 DEF BarrierInv
<1>3. ASSUME NEW b \in Blocks, Sync(b)
      PROVE  BarrierInv'
  <2>1. /\ \A t \in Threads : at[b][t] = "sync"
        /\ at' = [at EXCEPT ![b] = [t \in Threads |->
                    IF at[b][t] = "sync" THEN "mask" ELSE at[b][t]]]
        /\ shared' = shared
    BY <1>3 DEF Sync, AllArrived
  <2>2. /\ \A c \in Blocks : c # b => at'[c] = at[c]
        /\ \A t \in Threads : at'[b][t] = "mask"
        /\ ThreadTypes'
    BY <1>t, <2>1 DEF ThreadTypes
  <2> QED
    BY <2>1, <2>2 DEF BarrierInv, Past
<1>4. ASSUME NEW b \in Blocks, NEW t \in Threads, Mask(b, t)
      PROVE  BarrierInv'
  <2>1. /\ at[b][t] = "mask" /\ shared' = shared
        /\ at' = [at EXCEPT ![b][t] = "exit"]
    BY <1>4 DEF Mask
  <2>2. /\ ThreadTypes' /\ at'[b][t] = "exit"
        /\ \A c \in Blocks, u \in Threads :
             <<c, u>> # <<b, t>> => at'[c][u] = at[c][u]
    BY <1>t, <2>1 DEF ThreadTypes
  <2>3. \A c \in Blocks, u \in Threads :
          /\ at'[c][u] \in Past <=> at[c][u] \in Past
          /\ at'[c][u] = "load" <=> at[c][u] = "load"
    BY <2>1, <2>2 DEF Past
  <2> QED
    BY <2>1, <2>2, <2>3 DEF BarrierInv
<1>5. CASE CopyBack \/ Reduce \/ Finish
  BY <1>1, <1>5 DEF CopyBack, Reduce, Finish
<1> QED
  BY <1>1, <1>2, <1>3, <1>4, <1>5 DEF Next, Kernel, vars

(* No thread compares against a slot of shared memory that is not filled   *)
(* yet, in any interleaving of any number of threads                       *)
(* (rotate_polygon_nms_kernel.cu:270-298).                                 *)
THEOREM GpuSharedReady == Spec => []SharedReady
<1>1. Spec => []BarrierInv
  BY BarrierInit, BarrierStep, PTL DEF Spec
<1>2. BarrierInv => SharedReady
  <2> SUFFICES ASSUME BarrierInv, NEW b \in Blocks, NEW t \in Threads,
                      at[b][t] = "mask", NEW k \in 0 .. (ColSize(b) - 1)
               PROVE  shared[b][k] = b[2] * T + k
    BY DEF SharedReady
  <2>1. k \in Threads /\ k < ColSize(b)
    BY BlockFacts, TAssumption DEF Threads
  <2>2. at[b][k] \in Past
    BY <2>1 DEF BarrierInv, Past
  <2> QED
    BY <2>1, <2>2 DEF BarrierInv, Past
<1> QED
  BY <1>1, <1>2, PTL

(***************************************************************************)
(* Boxes and their places in blocks.                                       *)
(***************************************************************************)
BoxAt(b, t) == b[1] * T + t

LEMMA PlaceOfBox ==
  ASSUME NEW x \in Boxes
  PROVE  /\ x \div T \in Cols /\ x % T \in Threads
         /\ x = (x \div T) * T + (x % T)
<1>1. /\ x \in Nat /\ T \in Nat \ {0} /\ N \in Nat \ {0} /\ x < N
  BY NAssumption, TAssumption DEF Boxes
<1>2. x \div T \in Nat /\ x % T \in 0 .. (T - 1) /\ x = (x \div T) * T + (x % T)
  BY <1>1
<1>3. x \div T < (N + T - 1) \div T
  <2> DEFINE q == x \div T
             d == (N + T - 1) \div T
  <2>1. /\ q \in Nat /\ d \in Nat
        /\ q * T <= x /\ N + T - 1 < d * T + T
    BY <1>1, <1>2
  <2> HIDE DEF q, d
  <2>2. ASSUME d <= q PROVE d * T <= q * T
    BY <1>1, <2>1, <2>2
  <2>3. d * T \in Nat /\ q * T \in Nat
    BY <1>1, <2>1
  <2>4. q < d
    BY <1>1, <2>1, <2>2, <2>3
  <2> QED
    BY <2>4 DEF q, d
<1> QED
  BY <1>1, <1>2, <1>3 DEF Cols, ColBlocks, Threads

LEMMA PlacesDiffer ==
  ASSUME NEW c \in Nat, NEW d \in Nat, NEW k \in Threads, NEW m \in Threads
  PROVE  /\ c * T + k \in Nat
         /\ c * T + k = d * T + m => c = d /\ k = m
         /\ c < d => c * T + k < d * T
  BY TAssumption DEF Threads

LEMMA DivisionOfPlace ==
  ASSUME NEW c \in Nat, NEW k \in Threads, c * T + k \in Boxes
  PROVE  (c * T + k) \div T = c /\ (c * T + k) % T = k
<1>1. /\ (c * T + k) \div T \in Nat /\ (c * T + k) % T \in Threads
      /\ c * T + k = ((c * T + k) \div T) * T + ((c * T + k) % T)
  BY PlaceOfBox DEF Cols
<1> QED
  BY <1>1, PlacesDiffer

(***************************************************************************)
(* The masks: what a thread has left when it exits is the word it owes.    *)
(***************************************************************************)
Due(x, c) == {k \in Threads : /\ c * T + k < N
                              /\ c = x \div T => k > x % T
                              /\ <<x, c * T + k>> \in over}

MaskInv ==
  /\ mask \in [Boxes -> [Cols -> SUBSET (Threads \cup {Junk})]]
  /\ host # "kernel" => Exited
  /\ \A b \in Blocks, t \in Threads :
       at[b][t] = "exit" /\ t < RowSize(b) => mask[BoxAt(b, t)][b[2]] = Due(BoxAt(b, t), b[2])

LEMMA MaskInit == Init => MaskInv
  BY DEF Init, MaskInv

(* The word a thread computes after the barrier. *)
LEMMA ThreadWord ==
  ASSUME BarrierInv, MaskInv, NEW b \in Blocks, NEW t \in Threads, Mask(b, t),
         t < RowSize(b)
  PROVE  /\ BoxAt(b, t) \in Boxes
         /\ mask' = [mask EXCEPT ![BoxAt(b, t)][b[2]] = Due(BoxAt(b, t), b[2])]
<1> DEFINE cur == BoxAt(b, t)
           slots == FirstColumn(b, t) .. (ColSize(b) - 1)
           filled == {k \in slots : shared[b][k] # Junk}
<1>1. /\ b[1] \in Nat /\ b[2] \in Nat /\ b[2] \in Cols /\ t \in Nat /\ t < T
      /\ T \in Nat \ {0} /\ N \in Nat \ {0}
  BY NAssumption, TAssumption DEF Blocks, Cols, Threads
<1>2. /\ cur \in Nat /\ b[1] * T \in Nat /\ b[2] * T \in Nat
  BY <1>1 DEF BoxAt
<1>3. cur < N
  BY <1>1, <1>2 DEF RowSize, SmallerOf, BoxAt
<1>4. cur \in Boxes
  BY <1>1, <1>2, <1>3 DEF Boxes
<1>5. cur \div T = b[1] /\ cur % T = t
  BY <1>1, <1>4, DivisionOfPlace DEF BoxAt
<1>6. slots = {k \in Threads : b[2] * T + k < N /\ (b[2] = b[1] => k > t)}
  BY <1>1, <1>2 DEF FirstColumn, ColSize, SmallerOf, Threads
<1>7. \A k \in slots : shared[b][k] = b[2] * T + k
  <2> SUFFICES ASSUME NEW k \in slots PROVE shared[b][k] = b[2] * T + k
    OBVIOUS
  <2>1. k \in Threads /\ k < ColSize(b)
    BY <1>1, <1>2, <1>6 DEF ColSize, SmallerOf, Threads
  <2>2. at[b][t] \in Past
    BY DEF Mask, Past
  <2>3. at[b][k] \in Past
    BY <2>1, <2>2 DEF BarrierInv
  <2> QED
    BY <2>1, <2>3 DEF BarrierInv, Past
<1>8. \A k \in slots : b[2] * T + k # Junk
  BY <1>1, <1>2, <1>6 DEF Threads, Junk
<1>9. filled = slots
  BY <1>7, <1>8
<1>10. {k \in filled : <<cur, shared[b][k]>> \in over} = Due(cur, b[2])
  <2>1. {k \in filled : <<cur, shared[b][k]>> \in over}
          = {k \in slots : <<cur, b[2] * T + k>> \in over}
    BY <1>7, <1>9
  <2> HIDE DEF slots, filled, cur
  <2> QED
    BY <2>1, <1>5, <1>6 DEF Due
<1>11. \E junk \in SUBSET (slots \ filled) :
         mask' = [mask EXCEPT ![cur][b[2]] =
                    {k \in filled : <<cur, shared[b][k]>> \in over} \cup junk]
  BY DEF Mask, BoxAt
<1>12. mask' = [mask EXCEPT ![cur][b[2]] =
                  {k \in filled : <<cur, shared[b][k]>> \in over}]
  BY <1>9, <1>11
<1> QED
  BY <1>4, <1>10, <1>12

LEMMA MaskStep == BarrierInv /\ MaskInv /\ [Next]_vars => MaskInv'
<1> SUFFICES ASSUME BarrierInv, MaskInv, [Next]_vars PROVE MaskInv'
  OBVIOUS
<1>t. ThreadTypes /\ 0 \in Threads
  BY TAssumption DEF BarrierInv, Threads
<1>d. ASSUME over' = over
      PROVE  \A x, c : Due(x, c)' = Due(x, c)
  BY <1>d DEF Due
<1>1. CASE UNCHANGED <<over, at, mask, host>>
  BY <1>1, <1>d DEF MaskInv, Exited
<1>2. ASSUME NEW b \in Blocks, NEW t \in Threads, Load(b, t)
      PROVE  MaskInv'
  <2>1. /\ at[b][t] = "load" /\ at' = [at EXCEPT ![b][t] = "sync"]
        /\ over' = over /\ mask' = mask /\ host' = host
    BY <1>2 DEF Load
  <2>2. \A c \in Blocks, u \in Threads : at'[c][u] = "exit" => at[c][u] = "exit"
    BY <1>t, <2>1 DEF ThreadTypes
  <2>3. host = "kernel"
    BY <2>1 DEF MaskInv, Exited
  <2> QED
    BY <1>d, <2>1, <2>2, <2>3 DEF MaskInv
<1>3. ASSUME NEW b \in Blocks, Sync(b)
      PROVE  MaskInv'
  <2>1. /\ \A t \in Threads : at[b][t] = "sync"
        /\ at' = [at EXCEPT ![b] = [t \in Threads |->
                    IF at[b][t] = "sync" THEN "mask" ELSE at[b][t]]]
        /\ over' = over /\ mask' = mask /\ host' = host
    BY <1>3 DEF Sync, AllArrived
  <2>2. \A c \in Blocks, u \in Threads : at'[c][u] = "exit" => at[c][u] = "exit"
    BY <1>t, <2>1 DEF ThreadTypes
  <2>3. host = "kernel"
    BY <1>t, <2>1 DEF MaskInv, Exited
  <2> QED
    BY <1>d, <2>1, <2>2, <2>3 DEF MaskInv
<1>4. ASSUME NEW b \in Blocks, NEW t \in Threads, Mask(b, t)
      PROVE  MaskInv'
  <2>1. /\ at[b][t] = "mask" /\ at' = [at EXCEPT ![b][t] = "exit"]
        /\ over' = over /\ host' = host
        /\ ~(t < RowSize(b)) => mask' = mask
    BY <1>4 DEF Mask
  <2>2. /\ \A c \in Blocks, u \in Threads :
             <<c, u>> # <<b, t>> => at'[c][u] = at[c][u]
    BY <1>t, <2>1 DEF ThreadTypes
  <2>3. host = "kernel"
    BY <2>1 DEF MaskInv, Exited
  <2>4. RowSize(b) \in Int /\ t \in Int
    BY NAssumption, TAssumption DEF RowSize, SmallerOf, Blocks, Cols, Threads
  <2>5. CASE ~(t < RowSize(b))
    <3>1. \A c \in Blocks, u \in Threads :
            at'[c][u] = "exit" /\ u < RowSize(c) => at[c][u] = "exit"
      BY <2>2, <2>4, <2>5
    <3> QED
      BY <1>d, <2>1, <2>3, <2>5, <3>1 DEF MaskInv
  <2>6. CASE t < RowSize(b)
    <3>1. /\ BoxAt(b, t) \in Boxes /\ b[2] \in Cols
          /\ mask' = [mask EXCEPT ![BoxAt(b, t)][b[2]] = Due(BoxAt(b, t), b[2])]
      BY <1>4, <2>6, ThreadWord DEF Blocks
    <3>2. Due(BoxAt(b, t), b[2]) \in SUBSET (Threads \cup {Junk})
      BY DEF Due
    <3>3. /\ mask' \in [Boxes -> [Cols -> SUBSET (Threads \cup {Junk})]]
          /\ mask'[BoxAt(b, t)][b[2]] = Due(BoxAt(b, t), b[2])
          /\ \A x \in Boxes, c \in Cols :
               <<x, c>> # <<BoxAt(b, t), b[2]>> => mask'[x][c] = mask[x][c]
      BY <3>1, <3>2 DEF MaskInv
    <3>4. ASSUME NEW c \in Blocks, NEW u \in Threads,
                 at'[c][u] = "exit", u < RowSize(c)
          PROVE  mask'[BoxAt(c, u)][c[2]] = Due(BoxAt(c, u), c[2])
      <4>1. CASE <<c, u>> = <<b, t>>
        BY <3>3, <4>1
      <4>2. CASE <<c, u>> # <<b, t>>
        <5>1. at[c][u] = "exit"
          BY <2>2, <3>4, <4>2
        <5>2. /\ BoxAt(c, u) \in Boxes /\ c[2] \in Cols
          BY <3>4, NAssumption, TAssumption
          DEF BoxAt, RowSize, SmallerOf, Blocks, Cols, Threads, Boxes
        <5>3. <<BoxAt(c, u), c[2]>> # <<BoxAt(b, t), b[2]>>
          <6>1. /\ b = <<b[1], b[2]>> /\ c = <<c[1], c[2]>>
                /\ b[1] \in Nat /\ c[1] \in Nat
            BY DEF Blocks, Cols
          <6> QED
            BY <4>2, <6>1, PlacesDiffer DEF BoxAt
        <5> QED
          BY <3>3, <3>4, <5>1, <5>2, <5>3 DEF MaskInv
      <4> QED
        BY <4>1, <4>2
    <3> QED
      BY <1>d, <2>1, <2>3, <3>3, <3>4 DEF MaskInv, BoxAt, RowSize, SmallerOf
  <2> QED
    BY <2>4, <2>5, <2>6
<1>5. CASE CopyBack
  BY <1>5, <1>d DEF CopyBack, MaskInv, Exited
<1>6. CASE Reduce \/ Finish
  <2>1. UNCHANGED <<over, at, mask>> /\ host \in {"reduce"}
    BY <1>6 DEF Reduce, Finish
  <2> QED
    BY <1>d, <2>1 DEF MaskInv, Exited
<1> QED
  BY <1>1, <1>2, <1>3, <1>4, <1>5, <1>6 DEF Next, Kernel, vars

(* Once they have all exited every word is written.                        *)
LEMMA EveryWord ==
  ASSUME MaskInv, host # "kernel", NEW x \in Boxes, NEW c \in Cols
  PROVE  mask[x][c] = Due(x, c)
<1> DEFINE b == <<x \div T, c>>
           t == x % T
<1>1. b \in Blocks /\ t \in Threads /\ BoxAt(b, t) = x /\ b[2] = c
  BY PlaceOfBox DEF BoxAt, Blocks
<1>2. t < RowSize(b)
  BY <1>1, NAssumption, TAssumption DEF BoxAt, RowSize, SmallerOf, Boxes, Threads, Blocks, Cols
<1>3. at[b][t] = "exit"
  BY <1>1 DEF MaskInv, Exited
<1> HIDE DEF b, t
<1> QED
  BY <1>1, <1>2, <1>3 DEF MaskInv

(* The host reads a complete mask: a bit for exactly the overlaps that     *)
(* count, in no word what the allocation held                              *)
(* (rotate_polygon_nms_kernel.cu:286-302, 343-347).                        *)
THEOREM GpuMaskComplete == Spec => []MaskComplete
<1>1. Spec => [](BarrierInv /\ MaskInv)
  BY BarrierInit, MaskInit, BarrierStep, MaskStep, PTL DEF Spec
<1>2. MaskInv => MaskComplete
  BY EveryWord DEF MaskComplete, Due
<1> QED
  BY <1>1, <1>2, PTL

(***************************************************************************)
(* The reduction: remv holds, for the boxes still to come, what the kept   *)
(* ones suppress.                                                          *)
(***************************************************************************)
KeptSoFar == {keep_out[k] : k \in 1 .. Len(keep_out)}
HitBy(S, x) == \E a \in S : <<a, x>> \in over

ReduceInv ==
  /\ i \in 0 .. N /\ keep_out \in Seq(Boxes)
  /\ remv \in [Cols -> SUBSET (Threads \cup {Junk})]
  /\ \A c \in Cols, k \in Threads : i <= c * T + k /\ c * T + k < N =>
       (k \in remv[c] <=> HitBy(KeptSoFar, c * T + k))

LEMMA ReduceInit == Init => ReduceInv
  BY NAssumption DEF Init, ReduceInv, KeptSoFar, HitBy

(* The turn of box i: whether it is kept, and what it leaves to the rest.  *)
LEMMA BoxTurn ==
  ASSUME BarrierInv, MaskInv, ReduceInv, Reduce
  PROVE  /\ i \in Boxes /\ i' = i + 1
         /\ InBlock \in remv[NBlock] <=> HitBy(KeptSoFar, i)
         /\ KeptSoFar' = IF HitBy(KeptSoFar, i) THEN KeptSoFar ELSE KeptSoFar \cup {i}
<1>1. i \in Boxes /\ i' = i + 1
  BY NAssumption DEF Reduce, ReduceInv, Boxes
<1>2. NBlock \in Cols /\ InBlock \in Threads /\ i = NBlock * T + InBlock
  BY <1>1, PlaceOfBox DEF NBlock, InBlock
<1>3. InBlock \in remv[NBlock] <=> HitBy(KeptSoFar, i)
  BY <1>1, <1>2, NAssumption DEF ReduceInv, Boxes
<1>4. CASE InBlock \in remv[NBlock]
  BY <1>1, <1>3, <1>4 DEF Reduce, KeptSoFar
<1>5. CASE InBlock \notin remv[NBlock]
  <2>1. keep_out' = Append(keep_out, i)
    BY <1>5 DEF Reduce
  <2>2. /\ Len(keep_out') = Len(keep_out) + 1 /\ Len(keep_out) \in Nat
        /\ \A k \in 1 .. Len(keep_out) : keep_out'[k] = keep_out[k]
        /\ keep_out'[Len(keep_out) + 1] = i
    BY <1>1, <2>1 DEF ReduceInv
  <2>3. KeptSoFar' = KeptSoFar \cup {i}
    BY <2>2 DEF KeptSoFar
  <2> QED
    BY <1>1, <1>3, <1>5, <2>3
<1> QED
  BY <1>4, <1>5

LEMMA ReduceStep ==
  BarrierInv /\ MaskInv /\ ReduceInv /\ [Next]_vars => ReduceInv'
<1> SUFFICES ASSUME BarrierInv, MaskInv, ReduceInv, [Next]_vars PROVE ReduceInv'
  OBVIOUS
<1>1. CASE UNCHANGED <<over, remv, keep_out, i>>
  BY <1>1 DEF ReduceInv, KeptSoFar, HitBy
<1>2. CASE Reduce
  <2>1. /\ i \in Boxes /\ i' = i + 1 /\ over' = over
        /\ InBlock \in remv[NBlock] <=> HitBy(KeptSoFar, i)
        /\ KeptSoFar' = IF HitBy(KeptSoFar, i) THEN KeptSoFar ELSE KeptSoFar \cup {i}
    BY <1>2, BoxTurn DEF Reduce
  <2>2. NBlock \in Cols /\ InBlock \in Threads /\ i = NBlock * T + InBlock
    BY <2>1, PlaceOfBox DEF NBlock, InBlock
  <2>3. i \in Nat /\ i < N /\ N \in Nat /\ T \in Nat /\ Cols \subseteq Nat
    BY <2>1, NAssumption, TAssumption DEF Boxes, Cols
  <2>4. keep_out' \in Seq(Boxes) /\ i' \in 0 .. N
    BY <1>2, <2>1, <2>3 DEF Reduce, ReduceInv
  <2>5. CASE HitBy(KeptSoFar, i)
    <3>1. remv' = remv /\ KeptSoFar' = KeptSoFar
      BY <1>2, <2>1, <2>5 DEF Reduce
    <3>2. ASSUME NEW c \in Cols, NEW k \in Threads, i' <= c * T + k, c * T + k < N
          PROVE  k \in remv[c] <=> HitBy(KeptSoFar, c * T + k)
      <4>1. i <= c * T + k
        BY <2>1, <2>3, <3>2, PlacesDiffer
      <4> QED
        BY <3>2, <4>1 DEF ReduceInv
    <3> QED
      BY <2>1, <2>4, <3>1, <3>2 DEF ReduceInv, HitBy
  <2>6. CASE ~HitBy(KeptSoFar, i)
    <3>1. /\ KeptSoFar' = KeptSoFar \cup {i}
          /\ remv' = [c \in Cols |-> IF c >= NBlock
                                     THEN remv[c] \cup mask[i][c] ELSE remv[c]]
      BY <1>2, <2>1, <2>6 DEF Reduce, FirstReduced
    <3>2. remv' \in [Cols -> SUBSET (Threads \cup {Junk})]
      BY <2>1, <3>1 DEF ReduceInv, MaskInv
    <3>3. ASSUME NEW c \in Cols, NEW k \in Threads, i' <= c * T + k, c * T + k < N
          PROVE  k \in remv'[c] <=> HitBy(KeptSoFar', c * T + k)
      <4>1. c \in Nat /\ c * T + k \in Nat /\ i < c * T + k
        <5>1. c \in Nat
          BY <2>3
        <5>2. c * T + k \in Nat
          BY <5>1, PlacesDiffer
        <5> QED
          BY <2>1, <2>3, <3>3, <5>1, <5>2
      <4>2. k \in remv[c] <=> HitBy(KeptSoFar, c * T + k)
        BY <2>3, <3>3, <4>1 DEF ReduceInv
      <4>3. c >= NBlock /\ (c = NBlock => k > InBlock)
        <5>1. ~(c < NBlock)
          BY <2>2, <2>3, <4>1, PlacesDiffer, NAssumption, TAssumption DEF Threads
        <5>2. c = NBlock => k > InBlock
          BY <2>2, <2>3, <4>1, TAssumption DEF Threads
        <5> QED
          BY <2>2, <2>3, <5>1, <5>2
      <4>4. host # "kernel"
        BY <1>2 DEF Reduce
      <4>5. k \in mask[i][c] <=> <<i, c * T + k>> \in over
        BY <2>1, <3>3, <4>3, <4>4, EveryWord DEF Due, NBlock, InBlock
      <4>6. k \in remv'[c] <=> k \in remv[c] \/ k \in mask[i][c]
        BY <3>1, <4>3
      <4> QED
        BY <2>1, <3>1, <4>2, <4>5, <4>6 DEF HitBy
    <3> QED
      BY <2>1, <2>4, <3>2, <3>3 DEF ReduceInv, HitBy
  <2> QED
    BY <2>5, <2>6
<1>3. CASE Kernel \/ CopyBack \/ Finish
  BY <1>1, <1>3 DEF Kernel, Load, Sync, Mask, CopyBack, Finish
<1> QED
  BY <1>1, <1>2, <1>3 DEF Next, vars

LEMMA GreedyStart == Init => Greedy!GInit
  BY RelationsAssumption DEF Init, Greedy!GInit, Greedy!Ranks, Boxes

LEMMA GreedyTurn ==
  BarrierInv /\ MaskInv /\ ReduceInv /\ [Next]_vars => [Greedy!Decide]_(Greedy!gvars)
<1> SUFFICES ASSUME BarrierInv, MaskInv, ReduceInv, [Next]_vars
             PROVE  Greedy!Decide \/ UNCHANGED Greedy!gvars
  OBVIOUS
<1>1. CASE UNCHANGED <<over, keep_out, i>>
  BY <1>1 DEF Greedy!gvars
<1>2. CASE Reduce
  <2>1. /\ i < N /\ i' = i + 1 /\ over' = over
        /\ KeptSoFar' = IF HitBy(KeptSoFar, i) THEN KeptSoFar ELSE KeptSoFar \cup {i}
    BY <1>2, BoxTurn DEF Reduce
  <2> QED
    BY <2>1 DEF Greedy!Decide, Greedy!Suppressed, KeptSoFar, HitBy
<1>3. CASE Kernel \/ CopyBack \/ Finish
  BY <1>1, <1>3 DEF Kernel, Load, Sync, Mask, CopyBack, Finish
<1> QED
  BY <1>1, <1>2, <1>3 DEF Next, vars

(* Kernel and host reduction together are the greedy suppression, for any  *)
(* number of boxes, any width of a mask word and any interleaving          *)
(* (rotate_polygon_nms_kernel.cu:252-365).                                 *)
THEOREM GpuNmsIsGreedy == Spec => ImplementsGreedy
<1>1. Spec => [](BarrierInv /\ MaskInv /\ ReduceInv)
  BY BarrierInit, MaskInit, ReduceInit, BarrierStep, MaskStep, ReduceStep, PTL DEF Spec
<1> QED
  BY <1>1, GreedyStart, GreedyTurn, PTL DEF Spec, ImplementsGreedy, Greedy!GSpec

(***************************************************************************)
(* The rest of the types: no index leaves its array, and no word of remv   *)
(* a bit beyond the width of a mask.                                       *)
(***************************************************************************)
RestTypes ==
  /\ over \in Relations
  /\ shared \in [Blocks -> [Threads -> Boxes \cup {Junk}]]
  /\ host \in {"kernel", "reduce", "done"}
  /\ remv \in [Cols -> SUBSET Threads]

LEMMA RestStep ==
  BarrierInv /\ MaskInv /\ ReduceInv /\ RestTypes /\ [Next]_vars => RestTypes'
<1> SUFFICES ASSUME BarrierInv, MaskInv, ReduceInv, RestTypes, [Next]_vars
             PROVE  RestTypes'
  OBVIOUS
<1>1. CASE UNCHANGED <<over, shared, host, remv>>
  BY <1>1 DEF RestTypes
<1>2. ASSUME NEW b \in Blocks, NEW t \in Threads, Load(b, t)
      PROVE  RestTypes'
  <2>1. /\ shared' = IF t < ColSize(b)
                     THEN [shared EXCEPT ![b][t] = b[2] * T + t] ELSE shared
        /\ UNCHANGED <<over, host, remv>>
    BY <1>2 DEF Load
  <2>2. CASE t < ColSize(b)
    <3>1. b[2] \in Nat /\ t \in Nat /\ b[2] * T \in Nat
      BY NAssumption, TAssumption DEF Blocks, Cols, Threads
    <3>2. b[2] * T + t \in Boxes
      BY <2>2, <3>1, NAssumption, TAssumption DEF ColSize, SmallerOf, Boxes
    <3> QED
      BY <2>1, <2>2, <3>2 DEF RestTypes
  <2> QED
    BY <2>1, <2>2 DEF RestTypes
<1>3. CASE CopyBack \/ Finish
  BY <1>3 DEF CopyBack, Finish, RestTypes
<1>4. CASE Reduce
  <2>1. /\ host = "reduce" /\ i \in Boxes /\ UNCHANGED <<over, shared, host>>
        /\ \/ remv' = remv
           \/ remv' = [c \in Cols |-> IF c >= NBlock
                                      THEN remv[c] \cup mask[i][c] ELSE remv[c]]
    BY <1>4, BoxTurn DEF Reduce, FirstReduced
  <2>2. \A c \in Cols : mask[i][c] \subseteq Threads
    BY <2>1, EveryWord DEF Due
  <2> QED
    BY <2>1, <2>2 DEF RestTypes
<1>5. ASSUME NEW b \in Blocks, Sync(b) \/ \E t \in Threads : Mask(b, t)
      PROVE  RestTypes'
  BY <1>1, <1>5 DEF Sync, Mask
<1> QED
  BY <1>1, <1>2, <1>3, <1>4, <1>5 DEF Next, Kernel, vars

(* The variables keep their types (rotate_polygon_nms_kernel.cu:257-369):  *)
(* no thread loads a box beyond the last one, no bit of remv is one beyond *)
(* the last thread.                                                        *)
THEOREM GpuTypes == Spec => []TypeOK
<1>1. Init => RestTypes
  BY DEF Init, RestTypes
<1>2. Spec => [](BarrierInv /\ MaskInv /\ ReduceInv)
  BY BarrierInit, MaskInit, ReduceInit, BarrierStep, MaskStep, ReduceStep, PTL DEF Spec
<1>3. BarrierInv /\ MaskInv /\ ReduceInv /\ RestTypes => TypeOK
  BY DEF BarrierInv, ThreadTypes, MaskInv, ReduceInv, RestTypes, TypeOK
<1> QED
  BY <1>1, <1>2, <1>3, RestStep, PTL DEF Spec
=============================================================================
