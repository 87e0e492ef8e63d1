------------------------------- MODULE CpuNms -------------------------------
(***************************************************************************)
(* cpu_nms of utils/nms/cpu_nms.pyx, behind nms of utils/nms_wrapper.py:   *)
(* the loop nest over `order` and the array `suppressed`.  The overlap of  *)
(* two rotated rectangles, with its threshold, is a relation given with    *)
(* the input; argsort leaves boxes of equal score in any order.            *)
(***************************************************************************)
EXTENDS Integers, Sequences, Functions

CONSTANTS
  N,          \* ndets
  Scores,     \* values of dets[:, 5]
  Relations   \* what `ovr >= thresh` may be, as sets of pairs of boxes

Boxes == 0 .. (N - 1)

ASSUME NAssumption == N \in Nat
ASSUME ScoresAssumption == Scores \subseteq Int
ASSUME RelationsAssumption == Relations \subseteq SUBSET (Boxes \X Boxes)

VARIABLES
  scores, overlap,   \* the input
  order,             \* scores.argsort()[::-1]
  suppressed,
  keep,
  pc, i, j           \* the loops: _i and _j of the code

vars == <<scores, overlap, order, suppressed, keep, pc, i, j>>

(* The permutations that argsort()[::-1] may produce. *)
Orders(sc) ==
  {o \in Bijection(Boxes, Boxes) : \A k \in 1 .. (N - 1) : sc[o[k]] <= sc[o[k - 1]]}

Init ==
  /\ scores \in [Boxes -> Scores] /\ overlap \in Relations
  /\ order \in Orders(scores)
  /\ suppressed = [b \in Boxes |-> FALSE]
  /\ keep = <<>>
  /\ pc = "outer" /\ i = 0 /\ j = 0

SkipSuppressed ==
  /\ pc = "outer" /\ i < N /\ suppressed[order[i]]
  /\ i' = i + 1
  /\ UNCHANGED <<scores, overlap, order, suppressed, keep, pc, j>>

(* The inner loop begins after the box just kept. *)
RivalTooFar == i + 2
FirstRival == i + 1

KeepBox ==
  /\ pc = "outer" /\ i < N /\ ~suppressed[order[i]]
  /\ keep' = Append(keep, order[i])
  /\ pc' = "inner" /\ j' = FirstRival
  /\ UNCHANGED <<scores, overlap, order, suppressed, i>>

(* One round of the inner loop; a suppressed box is not looked at again.   *)
NeverSuppress == suppressed
SuppressAnyway == [suppressed EXCEPT ![order[j]] = <<order[j], order[i]>> \in overlap]
AfterOverlap == [suppressed EXCEPT ![order[j]] =
                   suppressed[order[j]] \/ <<order[i], order[j]>> \in overlap]

CompareBox ==
  /\ pc = "inner" /\ j < N
  /\ suppressed' = AfterOverlap
  /\ j' = j + 1
  /\ UNCHANGED <<scores, overlap, order, keep, pc, i>>

InnerDone ==
  /\ pc = "inner" /\ j >= N
  /\ pc' = "outer" /\ i' = i + 1
  /\ UNCHANGED <<scores, overlap, order, suppressed, keep, j>>

Next == SkipSuppressed \/ KeepBox \/ CompareBox \/ InnerDone

Spec == Init /\ [][Next]_vars
-----------------------------------------------------------------------------
(* The variables keep their types (cpu_nms.pyx:142-186).                   *)
TypeOK ==
  /\ scores \in [Boxes -> Scores] /\ overlap \in Relations
  /\ order \in Orders(scores)
  /\ suppressed \in [Boxes -> BOOLEAN]
  /\ keep \in Seq(Boxes)
  /\ pc \in {"outer", "inner"} /\ i \in 0 .. N /\ j \in 0 .. N
  /\ pc = "inner" => i < N

Kept == {keep[k] : k \in 1 .. Len(keep)}

(* The loops decide the boxes by descending score, each against all the    *)
(* boxes kept before it and none that was dropped (cpu_nms.pyx:163-186).   *)
Greedy == INSTANCE GreedyNms WITH
  over <- {p \in Boxes \X Boxes : <<order[p[1]], order[p[2]]>> \in overlap},
  next <- IF pc = "inner" THEN i + 1 ELSE i,
  kept <- {a \in Boxes : order[a] \in Kept}

ImplementsGreedy == Greedy!GSpec

(* At every point of the loops a decided box is kept exactly when no kept  *)
(* box before it suppresses it (cpu_nms.pyx:165-184).                      *)
KeptIndependent == Greedy!IndependentAndMaximal

(* Among boxes that suppress each other the best score survives: a dropped *)
(* box has a kept one, scoring no less, that suppresses it, and the boxes  *)
(* returned are in descending order of score (cpu_nms.pyx:154, 163-186).   *)
BestSurvives ==
  i = N =>
    /\ \A b \in Boxes \ Kept :
         \E a \in Kept : <<a, b>> \in overlap /\ scores[a] >= scores[b]
    /\ \A k \in 2 .. Len(keep) : scores[keep[k]] <= scores[keep[k - 1]]
=============================================================================
