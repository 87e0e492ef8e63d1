----------------------------- MODULE GreedyNms -----------------------------
(***************************************************************************)
(* What a non-maximum suppression promises: the boxes 0 .. N-1, in order   *)
(* of descending score, are decided one by one, and a box is kept unless a *)
(* box kept before it suppresses it.  Implemented by the loops of CpuNms   *)
(* and by the CUDA kernel and host reduction of GpuNms.                    *)
(***************************************************************************)
EXTENDS Naturals

CONSTANT N   \* number of boxes

Ranks == 0 .. (N - 1)

VARIABLES
  over,   \* <<a, b>>: box a, if kept, suppresses the later box b
  next,   \* boxes decided so far
  kept

gvars == <<over, next, kept>>

Suppressed(b) == \E a \in kept : <<a, b>> \in over

GInit == over \in SUBSET (Ranks \X Ranks) /\ next = 0 /\ kept = {}

Decide ==
  /\ next < N
  /\ kept' = IF Suppressed(next) THEN kept ELSE kept \cup {next}
  /\ next' = next + 1
  /\ UNCHANGED over

GSpec == GInit /\ [][Decide]_gvars

(* No kept box suppresses another, and every decided box that was dropped  *)
(* is suppressed by a kept one with a better score: the result of the loop *)
(* nest of cpu_nms (cpu_nms.pyx:162-186).                                  *)
IndependentAndMaximal ==
  \A b \in 0 .. (next - 1) :
    b \in kept <=> ~\E a \in kept : a < b /\ <<a, b>> \in over
=============================================================================
