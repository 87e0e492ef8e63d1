------------------------------- MODULE GpuNms -------------------------------
(***************************************************************************)
(* The CUDA non-maximum suppression of utils/overlaps_cuda: the kernel     *)
(* rotate_nms_kernel, one thread per (row block, column block, box of the  *)
(* row block), and the host code _rotate_nms that launches it and reduces  *)
(* its bit masks.  The boxes arrive in order of descending score.          *)
(*                                                                         *)
(* A 64-bit word of the mask is the set of its bits; a slot of shared      *)
(* memory that no thread has filled holds Junk, and the bit computed from  *)
(* it may come out either way, as may the words of device memory that no   *)
(* thread has written.                                                     *)
(***************************************************************************)
EXTENDS Integers, Sequences

CONSTANTS
  N,          \* boxes_num
  T,          \* threadsPerBlock, the width of a mask word
  Relations   \* what `devRotateIoU(...) > nms_overlap_thresh` may be

ASSUME NAssumption == N \in Nat \ {0}
ASSUME TAssumption == T \in Nat \ {0}

Boxes == 0 .. (N - 1)
Threads == 0 .. (T - 1)
ColBlocks == (N + T - 1) \div T          \* DIVUP(boxes_num, threadsPerBlock)
Cols == 0 .. (ColBlocks - 1)
Blocks == Cols \X Cols                   \* <<blockIdx.y, blockIdx.x>>
Junk == -1

ASSUME RelationsAssumption == Relations \subseteq SUBSET (Boxes \X Boxes)

VARIABLES
  over,
  shared,    \* block_boxes of every block: slot -> index of the box in it
  at,        \* where each thread is
  mask,      \* dev_mask: box, column block -> word
  host,      \* "kernel" until the copy back, then "reduce", then "done"
  remv, keep_out, i

vars == <<over, shared, at, mask, host, remv, keep_out, i>>

SmallerOf(a, b) == IF a <= b THEN a ELSE b
RowSize(b) == SmallerOf(N - b[1] * T, T)
FullBlock(b) == T
ColSize(b) == SmallerOf(N - b[2] * T, T)

Init ==
  /\ over \in Relations
  /\ shared = [b \in Blocks |-> [t \in Threads |-> Junk]]
  /\ at = [b \in Blocks |-> [t \in Threads |-> "load"]]
  /\ mask = [x \in Boxes |-> [c \in Cols |-> {Junk}]]
  /\ host = "kernel"
  /\ remv = [c \in Cols |-> {}] /\ keep_out = <<>> /\ i = 0

-----------------------------------------------------------------------------
(* A thread copies its box of the column block to shared memory.           *)
LoadOrReturn(b, t) ==
  /\ at[b][t] = "load"
  /\ shared' = IF t < ColSize(b)
               THEN [shared EXCEPT ![b][t] = b[2] * T + t] ELSE shared
  /\ at' = [at EXCEPT ![b][t] = IF t < ColSize(b) THEN "sync" ELSE "exit"]
  /\ UNCHANGED <<over, mask, host, remv, keep_out, i>>

Load(b, t) ==
  /\ at[b][t] = "load"
  /\ shared' = IF t < ColSize(b)
               THEN [shared EXCEPT ![b][t] = b[2] * T + t] ELSE shared
  /\ at' = [at EXCEPT ![b][t] = "sync"]
  /\ UNCHANGED <<over, mask, host, remv, keep_out, i>>

(* __syncthreads: the threads of a block go on when all have arrived.      *)
SomeArrived(b) == \E t \in Threads : at[b][t] = "sync"
AllArrived(b) == \A t \in Threads : at[b][t] = "sync"

Sync(b) ==
  /\ AllArrived(b)
  /\ at' = [at EXCEPT ![b] = [t \in Threads |->
              IF at[b][t] = "sync" THEN "mask" ELSE at[b][t]]]
  /\ UNCHANGED <<over, shared, mask, host, remv, keep_out, i>>

(* On the diagonal a box is compared with the later boxes only.            *)
FromNextOfBlock(b, t) == t + 1
FirstColumn(b, t) == IF b[1] = b[2] THEN t + 1 ELSE 0

Mask(b, t) ==
  LET cur == b[1] * T + t
      slots == FirstColumn(b, t) .. (ColSize(b) - 1)
      filled == {k \in slots : shared[b][k] # Junk}
      hits == {k \in filled : <<cur, shared[b][k]>> \in over}
  IN /\ at[b][t] = "mask"
     /\ IF t < RowSize(b)
        THEN \E junk \in SUBSET (slots \ filled) :
               mask' = [mask EXCEPT ![cur][b[2]] = hits \cup junk]
        ELSE mask' = mask
     /\ at' = [at EXCEPT ![b][t] = "exit"]
     /\ UNCHANGED <<over, shared, host, remv, keep_out, i>>

Exited == \A b \in Blocks, t \in Threads : at[b][t] = "exit"

(* cudaMemcpy waits for the kernel and copies the masks back.              *)
CopyBack ==
  /\ host = "kernel" /\ Exited
  /\ host' = "reduce"
  /\ UNCHANGED <<over, shared, at, mask, remv, keep_out, i>>

-----------------------------------------------------------------------------
NBlock == i \div T
InBlock == i % T

(* remv collects the masks of the kept boxes, from this block column on.   *)
LaterBlocksOnly == NBlock + 1
FirstReduced == NBlock

Reduce ==
  /\ host = "reduce" /\ i < N
  /\ IF InBlock \in remv[NBlock]
     THEN UNCHANGED <<keep_out, remv>>
     ELSE /\ keep_out' = Append(keep_out, i)
          /\ remv' = [c \in Cols |-> IF c >= FirstReduced
                                     THEN remv[c] \cup mask[i][c] ELSE remv[c]]
  /\ i' = i + 1
  /\ UNCHANGED <<over, shared, at, mask, host>>

Finish ==
  /\ host = "reduce" /\ i = N
  /\ host' = "done"
  /\ UNCHANGED <<over, shared, at, mask, remv, keep_out, i>>

Kernel == \E b \in Blocks :
            Sync(b) \/ \E t \in Threads : Load(b, t) \/ Mask(b, t)

Next == Kernel \/ CopyBack \/ Reduce \/ Finish

(* Resident blocks make progress, and so does the host.                    *)
Spec == Init /\ [][Next]_vars
FairSpec ==
  /\ Spec
  /\ \A b \in Blocks : /\ WF_vars(Sync(b))
                       /\ \A t \in Threads : WF_vars(Load(b, t) \/ Mask(b, t))
  /\ WF_vars(CopyBack \/ Reduce \/ Finish)
-----------------------------------------------------------------------------
(* The variables keep their types (rotate_polygon_nms_kernel.cu:257-369).  *)
TypeOK ==
  /\ over \in Relations
  /\ shared \in [Blocks -> [Threads -> Boxes \cup {Junk}]]
  /\ at \in [Blocks -> [Threads -> {"load", "sync", "mask", "exit"}]]
  /\ mask \in [Boxes -> [Cols -> SUBSET (Threads \cup {Junk})]]
  /\ host \in {"kernel", "reduce", "done"}
  /\ remv \in [Cols -> SUBSET Threads]
  /\ keep_out \in Seq(Boxes) /\ i \in 0 .. N

(* No thread compares against a slot of shared memory that the thread in   *)
(* charge of it has not filled (kernel.cu:270-298).                        *)
SharedReady ==
  \A b \in Blocks, t \in Threads : at[b][t] = "mask" =>
    \A k \in 0 .. (ColSize(b) - 1) : shared[b][k] = b[2] * T + k

(* What the host reads: a bit for exactly the overlaps that count, no word *)
(* left as the allocation found it (kernel.cu:286-302, 343-347).           *)
MaskComplete ==
  host # "kernel" =>
    \A x \in Boxes, c \in Cols :
      mask[x][c] = {k \in Threads : /\ c * T + k < N
                                    /\ c = x \div T => k > x % T
                                    /\ <<x, c * T + k>> \in over}

(* Kernel and host together are the greedy suppression (kernel.cu:352-364).*)
Greedy == INSTANCE GreedyNms WITH
  next <- i, kept <- {keep_out[k] : k \in 1 .. Len(keep_out)}

ImplementsGreedy == Greedy!GSpec

(* The call returns: no thread waits at the barrier for ever.              *)
(* (kernel.cu:284, 316-369).                                               *)
Terminates == <>(host = "done")
=============================================================================
